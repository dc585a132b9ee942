-------------------------- MODULE TensorViewsProofs --------------------------
(***************************************************************************)
(* Theorems about shapes, views and operands (TensorViews, TensorOps), for *)
(* every rank, shape and chain of views: through its strides and its       *)
(* offset every operand holds the values it says, whatever was done to it. *)
(*                                                                         *)
(* The lemmas follow the model: sums and products, strides, multi-indices, *)
(* the odometer of cpu_iter, the builders of views, what the strided grids *)
(* write, and the state machine.                                           *)
(***************************************************************************)
EXTENDS TensorOps, FiniteSetTheorems, TLAPS

----------------------------------------------------------------------------
\* Sums and products of sequences.

\* A non-empty set of naturals has a least element.
LEMMA LeastNatural ==
  ASSUME NEW T \in SUBSET Nat, T # {}
  PROVE  \E n \in T : \A m \in T : n <= m
<1>1. IsWellFoundedOn(OpToRel(<, Nat), Nat)
  BY NatLessThanWellFounded
<1>2. PICK n \in T : \A m \in T : ~(<<m, n>> \in OpToRel(<, Nat))
  BY <1>1, WFMin
<1>3. \A m \in T : ~(m < n)
  <2>1. \A m \in T : <<m, n>> \in Nat \X Nat
    OBVIOUS
  <2>2. QED
    BY <1>2, <2>1, Zenon DEF OpToRel
<1>4. QED
  BY <1>3

\* A non-empty set of naturals below a bound has a greatest element.
LEMMA GreatestNatural ==
  ASSUME NEW S \in SUBSET Nat, S # {}, NEW b \in Nat, \A a \in S : a <= b
  PROVE  \E m \in S : \A a \in S : a <= m
<1>1. PICK U \in SUBSET Nat : U = {u \in Nat : \A a \in S : a <= u}
  OBVIOUS
<1>2. PICK u \in U : \A v \in U : u <= v
  BY <1>1, LeastNatural
<1>3. u \in S
  <2>1. SUFFICES ASSUME u \notin S PROVE FALSE
    OBVIOUS
  <2>2. \A a \in S : a <= u - 1 /\ u - 1 \in Nat
    BY <1>1, <2>1
  <2>3. u - 1 \in U
    BY <1>1, <2>2
  <2>4. QED
    BY <1>1, <1>2, <2>3
<1>4. QED
  BY <1>1, <1>3

\* A list of n numbers up to n that has them all has each once.
LEMMA OntoOnce ==
  ASSUME NEW n \in Nat, NEW p \in [1..n -> 1..n],
         \A c \in 1..n : \E b \in 1..n : p[b] = c
  PROVE  \A a \in 1..n, b \in 1..n : p[a] = p[b] => a = b
<1>1. p \in Surjection(1..n, 1..n)
  BY DEF Surjection
<1>2. IsFiniteSet(1..n)
  BY FS_Interval
<1>3. p \in Injection(1..n, 1..n)
  BY <1>1, <1>2, FS_SurjSameCardinalityImpliesInj
<1>4. QED
  BY <1>3 DEF Injection, IsInjective

\* The first k items of s.
Pre(s, k) == [i \in 1..k |-> s[i]]

\* g solves the recursion of Total, or of Product, on k items.
TotalTo(s, k, g) == g = [i \in 0..k |-> IF i = 0 THEN 0 ELSE g[i - 1] + s[i]]
ProductTo(s, k, g) == g = [i \in 0..k |-> IF i = 0 THEN 1 ELSE g[i - 1] * s[i]]

\* A function on 1..n has length n.
LEMMA LenIs ==
  ASSUME NEW n \in Nat, NEW s, DOMAIN s = 1..n
  PROVE  Len(s) = n
  OBVIOUS

\* The recursion of Total has a solution.
LEMMA TotalsExist ==
  ASSUME NEW s
  PROVE  \A k \in Nat : \E g : TotalTo(s, k, g)
<1>1. PICK Q \in SUBSET Nat : Q = {k \in Nat : ~ \E g : TotalTo(s, k, g)}
  OBVIOUS
<1>2. SUFFICES ASSUME NEW k \in Q, \A j \in Q : k <= j PROVE FALSE
  BY <1>1, LeastNatural
<1>3. CASE k = 0
  <2>1. TotalTo(s, 0, [i \in 0..0 |-> 0])
    BY DEF TotalTo
  <2>2. QED
    BY <1>1, <1>3, <2>1
<1>4. CASE k # 0
  <2>1. PICK j \in Nat : k = j + 1
    BY <1>1, <1>4
  <2>2. PICK g : TotalTo(s, j, g)
    BY <1>1, <1>2, <2>1
  <2>3. PICK h : h = [i \in 0..k |-> IF i # k THEN g[i] ELSE g[j] + s[k]]
    OBVIOUS
  <2>4. \A i \in 0..k : h[i] = IF i = 0 THEN 0 ELSE h[i - 1] + s[i]
    BY <2>1, <2>2, <2>3 DEF TotalTo
  <2>5. TotalTo(s, k, h)
    BY <2>3, <2>4 DEF TotalTo
  <2>6. QED
    BY <1>1, <2>5
<1>5. QED
  BY <1>3, <1>4

\* The recursion of Product has a solution.
LEMMA ProductsExist ==
  ASSUME NEW s
  PROVE  \A k \in Nat : \E g : ProductTo(s, k, g)
<1>1. PICK Q \in SUBSET Nat : Q = {k \in Nat : ~ \E g : ProductTo(s, k, g)}
  OBVIOUS
<1>2. SUFFICES ASSUME NEW k \in Q, \A j \in Q : k <= j PROVE FALSE
  BY <1>1, LeastNatural
<1>3. CASE k = 0
  <2>1. ProductTo(s, 0, [i \in 0..0 |-> 1])
    BY DEF ProductTo
  <2>2. QED
    BY <1>1, <1>3, <2>1
<1>4. CASE k # 0
  <2>1. PICK j \in Nat : k = j + 1
    BY <1>1, <1>4
  <2>2. PICK g : ProductTo(s, j, g)
    BY <1>1, <1>2, <2>1
  <2>3. PICK h : h = [i \in 0..k |-> IF i # k THEN g[i] ELSE g[j] * s[k]]
    OBVIOUS
  <2>4. \A i \in 0..k : h[i] = IF i = 0 THEN 1 ELSE h[i - 1] * s[i]
    BY <2>1, <2>2, <2>3 DEF ProductTo
  <2>5. ProductTo(s, k, h)
    BY <2>3, <2>4 DEF ProductTo
  <2>6. QED
    BY <1>1, <2>5
<1>5. QED
  BY <1>3, <1>4

\* Total is the value of any solution of its recursion.
LEMMA TotalIs ==
  ASSUME NEW n \in Nat, NEW s, DOMAIN s = 1..n
  PROVE  \E g : TotalTo(s, n, g) /\ Total(s) = g[n]
<1>1. Len(s) = n
  BY LenIs
<1>2. Total(s) = (CHOOSE g : TotalTo(s, n, g))[n]
  BY <1>1 DEF Total, TotalTo
<1>3. \E g : TotalTo(s, n, g)
  BY TotalsExist
<1>4. QED
  BY <1>2, <1>3

\* Product is the value of any solution of its recursion.
LEMMA ProductIs ==
  ASSUME NEW n \in Nat, NEW s, DOMAIN s = 1..n
  PROVE  \E g : ProductTo(s, n, g) /\ Product(s) = g[n]
<1>1. Len(s) = n
  BY LenIs
<1>2. Product(s) = (CHOOSE g : ProductTo(s, n, g))[n]
  BY <1>1 DEF Product, ProductTo
<1>3. \E g : ProductTo(s, n, g)
  BY ProductsExist
<1>4. QED
  BY <1>2, <1>3

\* A sum ends with its last item.
LEMMA TotalStep ==
  ASSUME NEW n \in Nat, NEW s, NEW r, DOMAIN s = 1..(n + 1), DOMAIN r = 1..n,
         \A i \in 1..n : r[i] = s[i]
  PROVE  Total(s) = Total(r) + s[n + 1]
<1>1. PICK g : TotalTo(s, n + 1, g) /\ Total(s) = g[n + 1]
  BY TotalIs
<1>2. PICK h : TotalTo(r, n, h) /\ Total(r) = h[n]
  BY TotalIs
<1>3. PICK Q \in SUBSET Nat : Q = {k \in Nat : k <= n /\ g[k] # h[k]}
  OBVIOUS
<1>4. ASSUME NEW k \in Q, \A j \in Q : k <= j PROVE FALSE
  <2>1. CASE k = 0
    BY <1>1, <1>2, <1>3, <2>1 DEF TotalTo
  <2>2. CASE k # 0
    <3>1. k - 1 \in 0..n /\ k \in 0..n /\ g[k - 1] = h[k - 1] /\ k \in 1..n
      BY <1>3, <1>4, <2>2
    <3>2. g[k] = g[k - 1] + s[k]
      BY <1>1, <3>1, <2>2 DEF TotalTo
    <3>3. h[k] = h[k - 1] + r[k]
      BY <1>2, <3>1, <2>2 DEF TotalTo
    <3>4. QED
      BY <1>3, <3>1, <3>2, <3>3
  <2>3. QED
    BY <2>1, <2>2
<1>5. Q = {}
  BY <1>4, LeastNatural
<1>6. g[n] = h[n]
  BY <1>3, <1>5
<1>7. g[n + 1] = g[n] + s[n + 1]
  BY <1>1 DEF TotalTo
<1>8. QED
  BY <1>1, <1>2, <1>6, <1>7

\* The empty sum.
LEMMA TotalNone ==
  ASSUME NEW s, DOMAIN s = {}
  PROVE  Total(s) = 0
<1>1. DOMAIN s = 1..0
  OBVIOUS
<1>2. PICK g : TotalTo(s, 0, g) /\ Total(s) = g[0]
  BY <1>1, TotalIs
<1>3. QED
  BY <1>2 DEF TotalTo

\* A product ends with its last factor.
LEMMA ProductStep ==
  ASSUME NEW n \in Nat, NEW s, NEW r, DOMAIN s = 1..(n + 1), DOMAIN r = 1..n,
         \A i \in 1..n : r[i] = s[i]
  PROVE  Product(s) = Product(r) * s[n + 1]
<1>1. PICK g : ProductTo(s, n + 1, g) /\ Product(s) = g[n + 1]
  BY ProductIs
<1>2. PICK h : ProductTo(r, n, h) /\ Product(r) = h[n]
  BY ProductIs
<1>3. PICK Q \in SUBSET Nat : Q = {k \in Nat : k <= n /\ g[k] # h[k]}
  OBVIOUS
<1>4. ASSUME NEW k \in Q, \A j \in Q : k <= j PROVE FALSE
  <2>1. CASE k = 0
    BY <1>1, <1>2, <1>3, <2>1 DEF ProductTo
  <2>2. CASE k # 0
    <3>1. k - 1 \in 0..n /\ k \in 0..n /\ g[k - 1] = h[k - 1] /\ k \in 1..n
      BY <1>3, <1>4, <2>2
    <3>2. g[k] = g[k - 1] * s[k]
      BY <1>1, <3>1, <2>2 DEF ProductTo
    <3>3. h[k] = h[k - 1] * r[k]
      BY <1>2, <3>1, <2>2 DEF ProductTo
    <3>4. QED
      BY <1>3, <3>1, <3>2, <3>3
  <2>3. QED
    BY <2>1, <2>2
<1>5. Q = {}
  BY <1>4, LeastNatural
<1>6. g[n] = h[n]
  BY <1>3, <1>5
<1>7. g[n + 1] = g[n] * s[n + 1]
  BY <1>1 DEF ProductTo
<1>8. QED
  BY <1>1, <1>2, <1>6, <1>7

\* The empty product.
LEMMA ProductNone ==
  ASSUME NEW s, DOMAIN s = {}
  PROVE  Product(s) = 1
<1>1. DOMAIN s = 1..0
  OBVIOUS
<1>2. PICK g : ProductTo(s, 0, g) /\ Product(s) = g[0]
  BY <1>1, ProductIs
<1>3. QED
  BY <1>2 DEF ProductTo

\* A sum of integers is an integer, of naturals a natural.
LEMMA TotalType ==
  ASSUME NEW n \in Nat, NEW s \in [1..n -> Int]
  PROVE  /\ Total(s) \in Int
         /\ (\A i \in 1..n : s[i] >= 0) => Total(s) \in Nat
<1>1. PICK Q \in SUBSET Nat :
        Q = {k \in Nat : k <= n /\ ~ ((Total(Pre(s, k)) \in Int)
                               /\ ((\A i \in 1..k : s[i] >= 0) => Total(Pre(s, k)) \in Nat))}
  OBVIOUS
<1>2. ASSUME NEW k \in Q, \A j \in Q : k <= j PROVE FALSE
  <2>1. CASE k = 0
    <3>1. Total(Pre(s, k)) = 0
      BY <2>1, TotalNone DEF Pre
    <3>2. QED
      BY <1>1, <3>1
  <2>2. CASE k # 0
    <3>1. PICK j \in Nat : k = j + 1
      BY <1>1, <2>2
    <3>2. Total(Pre(s, k)) = Total(Pre(s, j)) + s[k]
      BY <3>1, TotalStep DEF Pre
    <3>3. j \in 0..n /\ j \notin Q /\ k \in 1..n /\ s[k] \in Int
      BY <1>1, <1>2, <3>1
    <3>4. QED
      BY <1>1, <3>1, <3>2, <3>3
  <2>3. QED
    BY <2>1, <2>2
<1>3. n \notin Q
  BY <1>2, LeastNatural
<1>4. Pre(s, n) = s
  BY DEF Pre
<1>5. QED
  BY <1>1, <1>3, <1>4

\* A product of naturals is a natural, positive when every factor is, and
\* positive only then.
LEMMA ProductType ==
  ASSUME NEW n \in Nat, NEW s \in [1..n -> Nat]
  PROVE  /\ Product(s) \in Nat
         /\ (Product(s) > 0) <=> (\A i \in 1..n : s[i] > 0)
<1>1. PICK Q \in SUBSET Nat :
        Q = {k \in Nat : k <= n /\ ~ ((Product(Pre(s, k)) \in Nat)
                               /\ ((Product(Pre(s, k)) > 0) <=> (\A i \in 1..k : s[i] > 0)))}
  OBVIOUS
<1>2. ASSUME NEW k \in Q, \A j \in Q : k <= j PROVE FALSE
  <2>1. CASE k = 0
    <3>1. Product(Pre(s, k)) = 1
      BY <2>1, ProductNone DEF Pre
    <3>2. QED
      BY <1>1, <2>1, <3>1
  <2>2. CASE k # 0
    <3>1. PICK j \in Nat : k = j + 1
      BY <1>1, <2>2
    <3>2. Product(Pre(s, k)) = Product(Pre(s, j)) * s[k]
      BY <3>1, ProductStep DEF Pre
    <3>3. j \in 0..n /\ j \notin Q /\ k \in 1..n /\ s[k] \in Nat
      BY <1>1, <1>2, <3>1
    <3>4. /\ Product(Pre(s, j)) \in Nat
          /\ (Product(Pre(s, j)) > 0) <=> (\A i \in 1..j : s[i] > 0)
      BY <1>1, <3>3
    <3>5. PICK p \in Nat, f \in Nat : p = Product(Pre(s, j)) /\ f = s[k]
      BY <3>3, <3>4
    <3>6. p * f \in Nat /\ ((p * f > 0) <=> (p > 0 /\ f > 0))
      OBVIOUS
    <3>7. (\A i \in 1..k : s[i] > 0) <=> ((\A i \in 1..j : s[i] > 0) /\ f > 0)
      BY <3>1, <3>5
    <3>8. /\ Product(Pre(s, k)) \in Nat
          /\ (Product(Pre(s, k)) > 0) <=> (\A i \in 1..k : s[i] > 0)
      BY <3>2, <3>4, <3>5, <3>6, <3>7
    <3>9. QED
      BY <1>1, <3>8
  <2>3. QED
    BY <2>1, <2>2
<1>3. n \notin Q
  BY <1>2, LeastNatural
<1>4. Pre(s, n) = s
  BY DEF Pre
<1>5. QED
  BY <1>1, <1>3, <1>4

\* The items of s between the first m and the n-th, from the (m+1)-th on.
Post(s, m, n) == [i \in 1..(n - m) |-> s[m + i]]

\* A sum can be cut anywhere.
LEMMA TotalSplit ==
  ASSUME NEW n \in Nat, NEW s \in [1..n -> Int], NEW m \in 0..n
  PROVE  Total(s) = Total(Pre(s, m)) + Total(Post(s, m, n))
<1>1. PICK Q \in SUBSET Nat :
        Q = {k \in Nat : k <= n - m
                         /\ Total(Pre(s, m + k)) # Total(Pre(s, m)) + Total(Post(s, m, m + k))}
  OBVIOUS
<1>2. ASSUME NEW k \in Q, \A j \in Q : k <= j PROVE FALSE
  <2>1. Total(Pre(s, m)) \in Int
    BY TotalType DEF Pre
  <2>2. CASE k = 0
    <3>1. Total(Post(s, m, m + k)) = 0
      BY <2>2, TotalNone DEF Post
    <3>2. QED
      BY <1>1, <2>1, <2>2, <3>1
  <2>3. CASE k # 0
    <3>1. PICK j \in Nat : k = j + 1
      BY <1>1, <2>3
    <3>2. Total(Pre(s, m + k)) = Total(Pre(s, m + j)) + s[m + k]
      <4>1. /\ DOMAIN Pre(s, m + k) = 1..((m + j) + 1) /\ DOMAIN Pre(s, m + j) = 1..(m + j)
            /\ \A i \in 1..(m + j) : Pre(s, m + j)[i] = Pre(s, m + k)[i]
            /\ Pre(s, m + k)[(m + j) + 1] = s[m + k]
        BY <3>1 DEF Pre
      <4>2. QED
        BY <4>1, TotalStep
    <3>3. Total(Post(s, m, m + k)) = Total(Post(s, m, m + j)) + s[m + k]
      <4>1. /\ DOMAIN Post(s, m, m + k) = 1..(j + 1) /\ DOMAIN Post(s, m, m + j) = 1..j
            /\ \A i \in 1..j : Post(s, m, m + j)[i] = Post(s, m, m + k)[i]
            /\ Post(s, m, m + k)[j + 1] = s[m + k]
        BY <3>1 DEF Post
      <4>2. QED
        BY <4>1, TotalStep
    <3>4. Total(Pre(s, m + j)) = Total(Pre(s, m)) + Total(Post(s, m, m + j))
      BY <1>1, <1>2, <3>1
    <3>5. Total(Post(s, m, m + j)) \in Int
      <4>1. m + j <= n
        BY <1>1, <3>1
      <4>2. Post(s, m, m + j) \in [1..j -> Int]
        BY <4>1 DEF Post
      <4>3. QED
        BY <4>2, TotalType
    <3>6. s[m + k] \in Int
      BY <1>1, <3>1
    <3>7. QED
      BY <1>1, <2>1, <3>2, <3>3, <3>4, <3>5, <3>6
  <2>4. QED
    BY <2>2, <2>3
<1>3. Q = {}
  BY <1>2, LeastNatural
<1>4. n - m \in Nat /\ n - m <= n - m
  OBVIOUS
<1>5. Pre(s, m + (n - m)) = s /\ m + (n - m) = n
  BY DEF Pre
<1>6. QED
  BY <1>1, <1>3, <1>4, <1>5

\* A product can be cut anywhere.
LEMMA ProductSplit ==
  ASSUME NEW n \in Nat, NEW s \in [1..n -> Nat], NEW m \in 0..n
  PROVE  Product(s) = Product(Pre(s, m)) * Product(Post(s, m, n))
<1>1. PICK Q \in SUBSET Nat :
        Q = {k \in Nat : k <= n - m
                         /\ Product(Pre(s, m + k)) # Product(Pre(s, m)) * Product(Post(s, m, m + k))}
  OBVIOUS
<1>2. ASSUME NEW k \in Q, \A j \in Q : k <= j PROVE FALSE
  <2>1. Product(Pre(s, m)) \in Nat
    BY ProductType DEF Pre
  <2>2. CASE k = 0
    <3>1. Product(Post(s, m, m + k)) = 1
      BY <2>2, ProductNone DEF Post
    <3>2. QED
      BY <1>1, <2>1, <2>2, <3>1
  <2>3. CASE k # 0
    <3>1. PICK j \in Nat : k = j + 1
      BY <1>1, <2>3
    <3>2. Product(Pre(s, m + k)) = Product(Pre(s, m + j)) * s[m + k]
      <4>1. /\ DOMAIN Pre(s, m + k) = 1..((m + j) + 1) /\ DOMAIN Pre(s, m + j) = 1..(m + j)
            /\ \A i \in 1..(m + j) : Pre(s, m + j)[i] = Pre(s, m + k)[i]
            /\ Pre(s, m + k)[(m + j) + 1] = s[m + k]
        BY <3>1 DEF Pre
      <4>2. QED
        BY <4>1, ProductStep
    <3>3. Product(Post(s, m, m + k)) = Product(Post(s, m, m + j)) * s[m + k]
      <4>1. /\ DOMAIN Post(s, m, m + k) = 1..(j + 1) /\ DOMAIN Post(s, m, m + j) = 1..j
            /\ \A i \in 1..j : Post(s, m, m + j)[i] = Post(s, m, m + k)[i]
            /\ Post(s, m, m + k)[j + 1] = s[m + k]
        BY <3>1 DEF Post
      <4>2. QED
        BY <4>1, ProductStep
    <3>4. Product(Pre(s, m + j)) = Product(Pre(s, m)) * Product(Post(s, m, m + j))
      BY <1>1, <1>2, <3>1
    <3>5. Product(Post(s, m, m + j)) \in Nat
      <4>1. m + j <= n
        BY <1>1, <3>1
      <4>2. Post(s, m, m + j) \in [1..j -> Nat]
        BY <4>1 DEF Post
      <4>3. QED
        BY <4>2, ProductType
    <3>6. s[m + k] \in Nat
      BY <1>1, <3>1
    <3>7. PICK p \in Nat : p = Product(Pre(s, m))
      BY <2>1
    <3>8. PICK q \in Nat : q = Product(Post(s, m, m + j))
      BY <3>5
    <3>9. PICK f \in Nat : f = s[m + k]
      BY <3>6
    <3>10. (p * q) * f = p * (q * f)
      OBVIOUS
    <3>11. Product(Pre(s, m + k)) = (p * q) * f
      BY <3>2, <3>4, <3>7, <3>8, <3>9
    <3>12. Product(Post(s, m, m + k)) = q * f
      BY <3>3, <3>8, <3>9
    <3>13. QED
      BY <1>1, <3>7, <3>10, <3>11, <3>12
  <2>4. QED
    BY <2>2, <2>3
<1>3. Q = {}
  BY <1>2, LeastNatural
<1>4. n - m \in Nat /\ n - m <= n - m
  OBVIOUS
<1>5. Pre(s, m + (n - m)) = s /\ m + (n - m) = n
  BY DEF Pre
<1>6. QED
  BY <1>1, <1>3, <1>4, <1>5

\* A sum with one item is that item, and so is a product.
LEMMA SingleItem ==
  ASSUME NEW v \in Int, NEW s, DOMAIN s = 1..1, s[1] = v
  PROVE  Total(s) = v /\ Product(s) = v
<1>1. PICK r : r = [i \in 1..0 |-> 0]
  OBVIOUS
<1>2. Total(r) = 0 /\ Product(r) = 1
  BY <1>1, TotalNone, ProductNone
<1>3. /\ DOMAIN s = 1..(0 + 1) /\ DOMAIN r = 1..0 /\ 0 \in Nat
      /\ \A i \in 1..0 : r[i] = s[i]
  BY <1>1
<1>4. Total(s) = Total(r) + s[0 + 1]
  BY <1>3, TotalStep
<1>5. Product(s) = Product(r) * s[0 + 1]
  BY <1>3, ProductStep
<1>6. QED
  BY <1>2, <1>4, <1>5

----------------------------------------------------------------------------
\* Row-major strides.

\* The stride of axis a of a dense tensor; the elements of one step of it.
Block(dims, a) == Product(SubSeq(dims, a + 1, Len(dims)))

\* A block is as many of the next as its axis is long.
LEMMA BlockFacts ==
  ASSUME NEW dims \in Seq(Nat)
  PROVE  /\ \A a \in 0..Len(dims) : Block(dims, a) \in Nat
         /\ Block(dims, Len(dims)) = 1
         /\ Block(dims, 0) = Product(dims)
         /\ \A a \in 1..Len(dims) : Block(dims, a - 1) = dims[a] * Block(dims, a)
<1>1. PICK n \in Nat : n = Len(dims)
  OBVIOUS
<1>2. dims \in [1..n -> Nat]
  BY <1>1
<1>3. \A a \in 0..n : SubSeq(dims, a + 1, n) = Post(dims, a, n)
  BY <1>1, <1>2 DEF Post
<1>4. \A a \in 0..n : Post(dims, a, n) \in [1..(n - a) -> Nat] /\ n - a \in Nat
  BY <1>2 DEF Post
<1>5. \A a \in 0..n : Block(dims, a) \in Nat
  BY <1>1, <1>3, <1>4, ProductType DEF Block
<1>6. Block(dims, n) = 1
  <2>1. DOMAIN Post(dims, n, n) = {}
    BY DEF Post
  <2>2. SubSeq(dims, n + 1, n) = Post(dims, n, n)
    BY <1>3
  <2>3. Product(Post(dims, n, n)) = 1
    BY <2>1, ProductNone
  <2>4. QED
    BY <1>1, <2>2, <2>3, Zenon DEF Block
<1>7. Block(dims, 0) = Product(dims)
  <2>1. SubSeq(dims, 0 + 1, n) = dims
    BY <1>1, <1>2
  <2>2. QED
    BY <1>1, <2>1, Zenon DEF Block
<1>8. ASSUME NEW a \in 1..n PROVE Block(dims, a - 1) = dims[a] * Block(dims, a)
  <2>1. PICK w : w = Post(dims, a - 1, n)
    OBVIOUS
  <2>2. w \in [1..(n - a + 1) -> Nat] /\ n - a + 1 \in Nat /\ 1 \in 0..(n - a + 1)
    BY <1>2, <2>1 DEF Post
  <2>3. Product(w) = Product(Pre(w, 1)) * Product(Post(w, 1, n - a + 1))
    BY <2>2, ProductSplit
  <2>4. Product(Pre(w, 1)) = dims[a]
    <3>1. DOMAIN Pre(w, 1) = 1..1 /\ Pre(w, 1)[1] = dims[a] /\ dims[a] \in Int
      BY <1>2, <2>1, <2>2 DEF Pre, Post
    <3>2. QED
      BY <3>1, SingleItem
  <2>5. Post(w, 1, n - a + 1) = Post(dims, a, n)
    BY <1>2, <2>1, <2>2 DEF Post
  <2>6. a \in 0..n /\ a - 1 \in 0..n
    OBVIOUS
  <2>7. Block(dims, a) = Product(Post(dims, a, n)) /\ Block(dims, a - 1) = Product(w)
    BY <1>1, <1>3, <2>1, <2>6 DEF Block
  <2>8. QED
    BY <2>3, <2>4, <2>5, <2>7
<1>9. QED
  BY <1>1, <1>5, <1>6, <1>7, <1>8

\* The sums of the first and of the last items, item by item.
LEMMA CutFacts ==
  ASSUME NEW n \in Nat, NEW s \in [1..n -> Int]
  PROVE  /\ \A a \in 0..n : /\ Total(Pre(s, a)) \in Int
                            /\ Total(Post(s, a, n)) \in Int
                            /\ Total(s) = Total(Pre(s, a)) + Total(Post(s, a, n))
         /\ Total(Pre(s, 0)) = 0 /\ Total(Post(s, n, n)) = 0
         /\ Total(Pre(s, n)) = Total(s) /\ Total(Post(s, 0, n)) = Total(s)
         /\ \A a \in 1..n : /\ Total(Pre(s, a)) = Total(Pre(s, a - 1)) + s[a]
                            /\ Total(Post(s, a - 1, n)) = s[a] + Total(Post(s, a, n))
<1>1. ASSUME NEW a \in 0..n
      PROVE  /\ Total(Pre(s, a)) \in Int
             /\ Total(Post(s, a, n)) \in Int
             /\ Total(s) = Total(Pre(s, a)) + Total(Post(s, a, n))
  <2>1. Pre(s, a) \in [1..a -> Int] /\ a \in Nat
    BY DEF Pre
  <2>2. Post(s, a, n) \in [1..(n - a) -> Int] /\ n - a \in Nat
    BY DEF Post
  <2>3. Total(Pre(s, a)) \in Int /\ Total(Post(s, a, n)) \in Int
    BY <2>1, <2>2, TotalType
  <2>4. QED
    BY <2>3, TotalSplit
<1>2. DOMAIN Pre(s, 0) = {} /\ DOMAIN Post(s, n, n) = {}
  BY DEF Pre, Post
<1>3. Total(Pre(s, 0)) = 0 /\ Total(Post(s, n, n)) = 0
  BY <1>2, TotalNone
<1>4. Pre(s, n) = s
  BY DEF Pre
<1>5. Post(s, 0, n) = s
  BY DEF Post
<1>6. ASSUME NEW a \in 1..n
      PROVE  /\ Total(Pre(s, a)) = Total(Pre(s, a - 1)) + s[a]
             /\ Total(Post(s, a - 1, n)) = s[a] + Total(Post(s, a, n))
  <2>1. Total(Pre(s, a)) = Total(Pre(s, a - 1)) + s[a]
    <3>1. /\ a - 1 \in Nat /\ (a - 1) + 1 = a
          /\ DOMAIN Pre(s, a) = 1..a /\ DOMAIN Pre(s, a - 1) = 1..(a - 1)
          /\ \A i \in 1..(a - 1) : Pre(s, a - 1)[i] = Pre(s, a)[i]
          /\ Pre(s, a)[a] = s[a]
      BY DEF Pre
    <3>2. QED
      BY <3>1, TotalStep
  <2>2. a \in 0..n /\ a - 1 \in 0..n /\ s[a] \in Int
    OBVIOUS
  <2>3. /\ Total(s) = Total(Pre(s, a)) + Total(Post(s, a, n))
        /\ Total(s) = Total(Pre(s, a - 1)) + Total(Post(s, a - 1, n))
        /\ Total(Pre(s, a)) \in Int /\ Total(Pre(s, a - 1)) \in Int
        /\ Total(Post(s, a, n)) \in Int /\ Total(Post(s, a - 1, n)) \in Int
    BY <1>1, <2>2
  <2>4. QED
    BY <2>1, <2>2, <2>3, SMTT(40)
<1>7. QED
  BY <1>1, <1>3, <1>4, <1>5, <1>6

----------------------------------------------------------------------------
\* Multi-indices and flat positions.

\* The multi-indices of a shape.
Indices(dims) ==
  {idx \in [1..Len(dims) -> Nat] : \A a \in 1..Len(dims) : idx[a] < dims[a]}

\* The offset an index adds along each axis.
Steps(idx, strides) == [a \in DOMAIN idx |-> idx[a] * strides[a]]

\* Contiguous strides are the blocks.
LEMMA ContiguousFacts ==
  ASSUME NEW dims \in Seq(Nat)
  PROVE  /\ Contiguous(dims) \in [1..Len(dims) -> Nat]
         /\ \A a \in 1..Len(dims) : Contiguous(dims)[a] = Block(dims, a)
<1>1. DOMAIN dims = 1..Len(dims)
  OBVIOUS
<1>2. Contiguous(dims) = [a \in 1..Len(dims) |-> Block(dims, a)]
  BY <1>1 DEF Contiguous, Block
<1>3. \A a \in 1..Len(dims) : Block(dims, a) \in Nat
  BY BlockFacts
<1>4. QED
  BY <1>2, <1>3

\* Flatten and Address are sums of steps.
LEMMA StepsFacts ==
  ASSUME NEW n \in Nat, NEW idx \in [1..n -> Nat], NEW strides \in [1..n -> Nat]
  PROVE  /\ Steps(idx, strides) \in [1..n -> Int]
         /\ \A a \in 1..n : /\ Steps(idx, strides)[a] = idx[a] * strides[a]
                            /\ Steps(idx, strides)[a] \in Nat
         /\ Total(Steps(idx, strides)) \in Nat
<1>1. \A a \in 1..n : idx[a] * strides[a] \in Nat
  <2>1. \A u, v \in Nat : u * v \in Nat
    OBVIOUS
  <2>2. QED
    BY <2>1
<1>2. Steps(idx, strides) = [a \in 1..n |-> idx[a] * strides[a]]
  BY DEF Steps
<1>3. Steps(idx, strides) \in [1..n -> Int]
  BY <1>1, <1>2
<1>4. \A a \in 1..n : /\ Steps(idx, strides)[a] = idx[a] * strides[a]
                      /\ Steps(idx, strides)[a] \in Nat
  BY <1>1, <1>2
<1>5. \A a \in 1..n : Steps(idx, strides)[a] >= 0
  BY <1>4
<1>6. QED
  BY <1>3, <1>4, <1>5, TotalType

\* Flatten is the sum of the steps along dense strides.
LEMMA FlattenIs ==
  ASSUME NEW dims \in Seq(Nat), NEW idx \in [1..Len(dims) -> Nat]
  PROVE  Flatten(dims, idx) = Total(Steps(idx, Contiguous(dims)))
<1>1. DOMAIN dims = 1..Len(dims) /\ DOMAIN idx = 1..Len(dims)
  OBVIOUS
<1>2. QED
  BY <1>1 DEF Flatten, Steps

\* The steps of an index along dense strides.
LEMMA DenseSteps ==
  ASSUME NEW dims \in Seq(Nat), NEW idx \in [1..Len(dims) -> Nat]
  PROVE  /\ Steps(idx, Contiguous(dims)) \in [1..Len(dims) -> Int]
         /\ \A a \in 1..Len(dims) : Steps(idx, Contiguous(dims))[a] = idx[a] * Block(dims, a)
<1>1. PICK n \in Nat : n = Len(dims)
  OBVIOUS
<1>2. Contiguous(dims) \in [1..n -> Nat]
  BY <1>1, ContiguousFacts
<1>3. idx \in [1..n -> Nat]
  BY <1>1
<1>4. /\ Steps(idx, Contiguous(dims)) \in [1..n -> Int]
      /\ \A a \in 1..n : Steps(idx, Contiguous(dims))[a] = idx[a] * Contiguous(dims)[a]
  BY <1>2, <1>3, StepsFacts
<1>5. \A a \in 1..n : Contiguous(dims)[a] = Block(dims, a)
  BY <1>1, ContiguousFacts
<1>6. QED
  BY <1>1, <1>4, <1>5

\* A digit and a remainder stay below the next power.
LEMMA DigitBelow ==
  ASSUME NEW d \in Nat, NEW b \in Nat, NEW i \in Nat, NEW r \in Nat, i < d, r < b
  PROVE  i * b + r \in Nat /\ i * b + r < d * b
<1>1. PICK e \in Nat : d = i + 1 + e
  OBVIOUS
<1>2. PICK u \in Nat : u = i * b
  OBVIOUS
<1>3. PICK v \in Nat : v = e * b
  OBVIOUS
<1>4. d * b = u + b + v
  BY <1>1, <1>2, <1>3
<1>5. QED
  BY <1>2, <1>4

\* The axes after a reach less than one step of axis a.
LEMMA TailBelow ==
  ASSUME NEW dims \in Seq(Nat), NEW idx \in Indices(dims), NEW s,
         s = Steps(idx, Contiguous(dims))
  PROVE  \A a \in 0..Len(dims) : /\ Total(Post(s, a, Len(dims))) \in Nat
                                 /\ Total(Post(s, a, Len(dims))) < Block(dims, a)
<1>1. PICK n \in Nat : n = Len(dims)
  OBVIOUS
<1>2. idx \in [1..n -> Nat] /\ \A a \in 1..n : idx[a] < dims[a] /\ dims[a] \in Nat
  BY <1>1 DEF Indices
<1>3. /\ s \in [1..n -> Int]
      /\ \A a \in 1..n : s[a] = idx[a] * Block(dims, a)
  BY <1>1, <1>2, DenseSteps
<1>4. PICK Q \in SUBSET Nat :
        Q = {k \in Nat : k <= n
                         /\ ~ ((Total(Post(s, n - k, n)) \in Nat)
                               /\ (Total(Post(s, n - k, n)) < Block(dims, n - k)))}
  OBVIOUS
<1>5. ASSUME NEW k \in Q, \A j \in Q : k <= j PROVE FALSE
  <2>1. CASE k = 0
    <3>1. Total(Post(s, n, n)) = 0
      BY <1>3, CutFacts
    <3>2. Block(dims, n) = 1
      BY <1>1, BlockFacts
    <3>3. n - 0 = n
      OBVIOUS
    <3>4. QED
      BY <1>4, <2>1, <3>1, <3>2, <3>3
  <2>2. CASE k # 0
    <3>1. PICK j \in Nat : k = j + 1
      BY <1>4, <2>2
    <3>2. PICK a \in 1..n : a = n - j /\ a - 1 = n - k
      BY <1>4, <3>1
    <3>3. Total(Post(s, a, n)) \in Nat /\ Total(Post(s, a, n)) < Block(dims, a)
      BY <1>4, <1>5, <3>1, <3>2
    <3>4. Total(Post(s, a - 1, n)) = s[a] + Total(Post(s, a, n))
      BY <1>3, CutFacts
    <3>5. Block(dims, a - 1) = dims[a] * Block(dims, a) /\ Block(dims, a) \in Nat
      BY <1>1, BlockFacts
    <3>6. PICK b \in Nat, i \in Nat : b = Block(dims, a) /\ i = idx[a]
      BY <1>2, <3>5
    <3>7. PICK d \in Nat, r \in Nat : d = dims[a] /\ r = Total(Post(s, a, n))
      BY <1>2, <3>3
    <3>8. i < d /\ r < b /\ Total(Post(s, a - 1, n)) = i * b + r /\ Block(dims, a - 1) = d * b
      BY <1>2, <1>3, <3>3, <3>4, <3>5, <3>6, <3>7
    <3>9. i * b + r \in Nat /\ i * b + r < d * b
      BY <3>8, DigitBelow
    <3>10. QED
      BY <1>4, <3>2, <3>8, <3>9
  <2>3. QED
    BY <2>1, <2>2
<1>6. Q = {}
  BY <1>5, LeastNatural
<1>7. ASSUME NEW a \in 0..n
      PROVE  Total(Post(s, a, n)) \in Nat /\ Total(Post(s, a, n)) < Block(dims, a)
  <2>1. PICK k \in Nat : k = n - a /\ k <= n /\ n - k = a
    OBVIOUS
  <2>2. QED
    BY <1>4, <1>6, <2>1
<1>8. QED
  BY <1>1, <1>7

\* Quotient and remainder.
LEMMA DivMod ==
  ASSUME NEW k \in Nat, NEW b \in Nat, b > 0
  PROVE  /\ k \div b \in Nat /\ k % b \in Nat /\ k % b < b
         /\ k = (k \div b) * b + (k % b)
  OBVIOUS

\* They are determined by what they are for.
LEMMA DivUnique ==
  ASSUME NEW k \in Nat, NEW b \in Nat, NEW q \in Nat, NEW r \in Nat, r < b, k = q * b + r
  PROVE  k \div b = q /\ k % b = r
<1>1. PICK p \in Nat : p = k \div b
  OBVIOUS
<1>2. PICK m \in Nat : m = k % b /\ m < b
  OBVIOUS
<1>3. k = p * b + m
  BY <1>1, <1>2, DivMod
<1>4. CASE p = q
  BY <1>1, <1>2, <1>3, <1>4
<1>5. CASE p < q
  <2>1. PICK e \in Nat : q = p + 1 + e
    BY <1>5
  <2>2. PICK u \in Nat : u = p * b
    OBVIOUS
  <2>3. PICK v \in Nat : v = e * b
    OBVIOUS
  <2>4. q * b = u + b + v
    BY <2>1, <2>2, <2>3
  <2>5. QED
    BY <1>2, <1>3, <2>2, <2>4
<1>6. CASE q < p
  <2>1. PICK e \in Nat : p = q + 1 + e
    BY <1>6
  <2>2. PICK u \in Nat : u = q * b
    OBVIOUS
  <2>3. PICK v \in Nat : v = e * b
    OBVIOUS
  <2>4. p * b = u + b + v
    BY <2>1, <2>2, <2>3
  <2>5. QED
    BY <1>2, <1>3, <2>2, <2>4
<1>7. QED
  BY <1>4, <1>5, <1>6

\* Dividing by a product is dividing twice.
LEMMA DivTwice ==
  ASSUME NEW k \in Nat, NEW b \in Nat, NEW d \in Nat, b > 0, d > 0
  PROVE  k \div (d * b) = (k \div b) \div d
<1>1. PICK q \in Nat : q = k \div b
  OBVIOUS
<1>2. PICK r \in Nat : r = k % b
  OBVIOUS
<1>3. PICK p \in Nat : p = q \div d
  OBVIOUS
<1>4. PICK i \in Nat : i = q % d
  OBVIOUS
<1>5. k = q * b + r /\ r < b
  BY <1>1, <1>2, DivMod
<1>6. q = p * d + i /\ i < d
  BY <1>3, <1>4, DivMod
<1>7. i * b + r \in Nat /\ i * b + r < d * b
  BY <1>5, <1>6, DigitBelow
<1>8. k = p * (d * b) + (i * b + r)
  <2>1. q * b = p * (d * b) + i * b
    BY <1>6
  <2>2. PICK u \in Nat, v \in Nat : u = p * (d * b) /\ v = i * b
    OBVIOUS
  <2>3. QED
    BY <1>5, <2>1, <2>2
<1>9. d * b \in Nat
  OBVIOUS
<1>10. k \div (d * b) = p
  BY ONLY k \in Nat, p \in Nat, <1>7, <1>8, <1>9, DivUnique
<1>11. QED
  BY <1>1, <1>3, <1>10

\* A shape with elements has no empty axis and no empty block.
LEMMA BlockPositive ==
  ASSUME NEW dims \in Seq(Nat), Product(dims) > 0
  PROVE  /\ \A a \in 1..Len(dims) : dims[a] > 0
         /\ \A a \in 0..Len(dims) : Block(dims, a) > 0
<1>1. PICK n \in Nat : n = Len(dims)
  OBVIOUS
<1>2. dims \in [1..n -> Nat]
  BY <1>1
<1>3. \A a \in 1..n : dims[a] > 0
  BY <1>2, ProductType
<1>4. ASSUME NEW a \in 0..n PROVE Block(dims, a) > 0
  <2>1. SubSeq(dims, a + 1, n) = Post(dims, a, n)
    BY <1>1, <1>2 DEF Post
  <2>2. /\ Post(dims, a, n) \in [1..(n - a) -> Nat] /\ n - a \in Nat
        /\ \A i \in 1..(n - a) : Post(dims, a, n)[i] > 0
    BY <1>2, <1>3 DEF Post
  <2>3. Product(Post(dims, a, n)) > 0
    BY <2>2, ProductType
  <2>4. QED
    BY <1>1, <2>1, <2>3, Zenon DEF Block
<1>5. QED
  BY <1>1, <1>3, <1>4

\* A shape that has an index has elements, and the flat positions of its
\* indices are below their number.
LEMMA FlattenBelow ==
  ASSUME NEW dims \in Seq(Nat), NEW idx \in Indices(dims)
  PROVE  Flatten(dims, idx) \in Nat /\ Flatten(dims, idx) < Product(dims)
<1>1. PICK n \in Nat : n = Len(dims)
  OBVIOUS
<1>2. idx \in [1..n -> Nat]
  BY <1>1 DEF Indices
<1>3. PICK s : s = Steps(idx, Contiguous(dims))
  OBVIOUS
<1>5. s \in [1..n -> Int]
  BY <1>1, <1>2, <1>3, DenseSteps
<1>6. Total(Post(s, 0, n)) \in Nat /\ Total(Post(s, 0, n)) < Block(dims, 0)
  BY <1>1, <1>3, TailBelow
<1>7. Total(Post(s, 0, n)) = Total(s)
  BY <1>5, CutFacts
<1>8. Flatten(dims, idx) = Total(s)
  BY <1>1, <1>2, <1>3, FlattenIs
<1>9. QED
  BY <1>6, <1>7, <1>8, BlockFacts

\* The flat positions of a shape have indices.
LEMMA UnflattenType ==
  ASSUME NEW dims \in Seq(Nat), NEW k \in 0..(Product(dims) - 1), Product(dims) \in Nat
  PROVE  /\ Unflatten(dims, k) \in Indices(dims)
         /\ \A a \in 1..Len(dims) : Unflatten(dims, k)[a] = (k \div Block(dims, a)) % dims[a]
<1>1. PICK n \in Nat : n = Len(dims)
  OBVIOUS
<1>2. dims \in [1..n -> Nat] /\ DOMAIN dims = 1..n /\ k \in Nat /\ Product(dims) > 0
  BY <1>1
<1>3. /\ \A a \in 1..n : dims[a] > 0 /\ dims[a] \in Nat
      /\ \A a \in 1..n : Block(dims, a) > 0 /\ Block(dims, a) \in Nat
  BY <1>1, <1>2, BlockPositive, BlockFacts, SMTT(40)
<1>4. Unflatten(dims, k) = [a \in 1..n |-> (k \div Block(dims, a)) % dims[a]]
  <2>1. \A a \in 1..n : Contiguous(dims)[a] = Block(dims, a)
    BY <1>1, ContiguousFacts
  <2>2. QED
    BY <1>2, <2>1 DEF Unflatten
<1>5. ASSUME NEW a \in 1..n
      PROVE  /\ (k \div Block(dims, a)) % dims[a] \in Nat
             /\ (k \div Block(dims, a)) % dims[a] < dims[a]
  <2>1. PICK b \in Nat, d \in Nat : b = Block(dims, a) /\ d = dims[a] /\ b > 0 /\ d > 0
    BY <1>3
  <2>2. k \div b \in Nat
    BY <1>2, <2>1, DivMod
  <2>3. (k \div b) % d \in Nat /\ (k \div b) % d < d
    BY <2>1, <2>2, DivMod
  <2>4. QED
    BY <2>1, <2>3
<1>6. QED
  BY <1>1, <1>4, <1>5 DEF Indices

\* The offsets along the first axes are a whole number of blocks.
LEMMA HeadMultiple ==
  ASSUME NEW dims \in Seq(Nat), NEW idx \in [1..Len(dims) -> Nat], NEW s,
         s = Steps(idx, Contiguous(dims))
  PROVE  \A a \in 0..Len(dims) : \E q \in Nat : Total(Pre(s, a)) = q * Block(dims, a)
<1>1. PICK n \in Nat : n = Len(dims)
  OBVIOUS
<1>2. /\ s \in [1..n -> Int]
      /\ \A a \in 1..n : s[a] = idx[a] * Block(dims, a)
  BY <1>1, DenseSteps
<1>3. PICK Q \in SUBSET Nat :
        Q = {a \in Nat : a <= n /\ ~ \E q \in Nat : Total(Pre(s, a)) = q * Block(dims, a)}
  OBVIOUS
<1>4. ASSUME NEW a \in Q, \A j \in Q : a <= j PROVE FALSE
  <2>1. CASE a = 0
    <3>1. Total(Pre(s, 0)) = 0
      BY <1>2, CutFacts
    <3>2. 0 = 0 * Block(dims, 0)
      <4>1. Block(dims, 0) \in Nat
        BY <1>1, BlockFacts
      <4>2. QED
        BY <4>1
    <3>3. QED
      BY <1>3, <2>1, <3>1, <3>2
  <2>2. CASE a # 0
    <3>1. a \in 1..n /\ a - 1 \in Nat /\ a - 1 <= n /\ a - 1 \notin Q
      BY <1>3, <1>4, <2>2
    <3>2. PICK q \in Nat : Total(Pre(s, a - 1)) = q * Block(dims, a - 1)
      BY <1>3, <3>1
    <3>3. Total(Pre(s, a)) = Total(Pre(s, a - 1)) + s[a]
      BY <1>2, <3>1, CutFacts
    <3>4. Block(dims, a - 1) = dims[a] * Block(dims, a) /\ Block(dims, a) \in Nat
      BY <1>1, <3>1, BlockFacts
    <3>5. PICK b \in Nat, d \in Nat : b = Block(dims, a) /\ d = dims[a]
      BY <1>1, <3>1, <3>4
    <3>6. PICK i \in Nat : i = idx[a]
      BY <1>1, <3>1
    <3>7. q * (d * b) + i * b = (q * d + i) * b /\ q * d + i \in Nat
      BY SMTT(40)
    <3>8. Total(Pre(s, a)) = q * (d * b) + i * b
      BY <1>2, <3>1, <3>2, <3>3, <3>4, <3>5, <3>6
    <3>9. QED
      BY <1>3, <3>5, <3>7, <3>8
  <2>3. QED
    BY <2>1, <2>2
<1>5. Q = {}
  BY <1>4, LeastNatural
<1>6. QED
  BY <1>1, <1>3, <1>5, SMTT(40)

\* Unflatten undoes Flatten.
LEMMA UnflattenFlatten ==
  ASSUME NEW dims \in Seq(Nat), NEW idx \in Indices(dims)
  PROVE  Unflatten(dims, Flatten(dims, idx)) = idx
<1>1. PICK n \in Nat : n = Len(dims)
  OBVIOUS
<1>2. idx \in [1..n -> Nat] /\ \A a \in 1..n : idx[a] < dims[a] /\ dims[a] \in Nat
  BY <1>1 DEF Indices
<1>3. PICK s : s = Steps(idx, Contiguous(dims))
  OBVIOUS
<1>5. s \in [1..n -> Int] /\ \A a \in 1..n : s[a] = idx[a] * Block(dims, a)
  BY <1>1, <1>2, <1>3, DenseSteps
<1>6. PICK k \in Nat : k = Flatten(dims, idx) /\ k < Product(dims)
  BY FlattenBelow
<1>7. k = Total(s)
  BY <1>1, <1>2, <1>3, <1>6, FlattenIs
<1>8. Product(dims) \in Nat
  BY BlockFacts
<1>9. /\ Unflatten(dims, k) \in [1..n -> Nat]
      /\ \A a \in 1..n : Unflatten(dims, k)[a] = (k \div Block(dims, a)) % dims[a]
  BY <1>1, <1>6, <1>8, UnflattenType DEF Indices
<1>10. ASSUME NEW a \in 1..n PROVE Unflatten(dims, k)[a] = idx[a]
  <2>1. a - 1 \in 0..n /\ a \in 0..n
    OBVIOUS
  <2>2. PICK q \in Nat : Total(Pre(s, a - 1)) = q * Block(dims, a - 1)
    BY <1>1, <1>2, <1>3, <2>1, HeadMultiple
  <2>3. PICK r \in Nat : r = Total(Post(s, a, n)) /\ r < Block(dims, a)
    BY <1>1, <1>3, <2>1, TailBelow
  <2>4. PICK b \in Nat, d \in Nat : b = Block(dims, a) /\ d = dims[a]
    BY <1>1, <1>2, <2>1, BlockFacts
  <2>5. PICK i \in Nat : i = idx[a] /\ i < d
    BY <1>2, <2>4
  <2>6. Block(dims, a - 1) = d * b
    BY <1>1, <2>4, BlockFacts
  <2>7. Total(s) = Total(Pre(s, a - 1)) + s[a] + Total(Post(s, a, n))
    <3>1. /\ Total(s) = Total(Pre(s, a)) + Total(Post(s, a, n))
          /\ Total(Pre(s, a)) = Total(Pre(s, a - 1)) + s[a]
      BY <1>5, <2>1, CutFacts
    <3>2. QED
      BY <3>1
  <2>8. k = q * (d * b) + i * b + r
    BY <1>5, <1>7, <2>2, <2>3, <2>4, <2>5, <2>6, <2>7
  <2>9. q * (d * b) + i * b = (q * d + i) * b /\ q * d + i \in Nat
    OBVIOUS
  <2>10. k \div b = q * d + i
    <3>1. k = (q * d + i) * b + r
      BY <2>8, <2>9
    <3>2. QED
      BY <2>3, <2>4, <2>9, <3>1, DivUnique
  <2>11. (q * d + i) % d = i
    BY <2>5, <2>9, DivUnique
  <2>12. QED
    BY <1>9, <2>4, <2>5, <2>10, <2>11
<1>11. QED
  BY <1>2, <1>6, <1>9, <1>10

\* Flatten undoes Unflatten.
LEMMA FlattenUnflatten ==
  ASSUME NEW dims \in Seq(Nat), Product(dims) \in Nat, NEW k \in 0..(Product(dims) - 1)
  PROVE  Flatten(dims, Unflatten(dims, k)) = k
<1>1. PICK n \in Nat : n = Len(dims)
  OBVIOUS
<1>2. PICK idx : idx = Unflatten(dims, k)
  OBVIOUS
<1>3. /\ idx \in [1..n -> Nat]
      /\ \A a \in 1..n : idx[a] = (k \div Block(dims, a)) % dims[a]
  BY <1>1, <1>2, UnflattenType DEF Indices
<1>4. PICK s : s = Steps(idx, Contiguous(dims))
  OBVIOUS
<1>6. s \in [1..n -> Int] /\ \A a \in 1..n : s[a] = idx[a] * Block(dims, a)
  BY <1>1, <1>3, <1>4, DenseSteps
<1>7. /\ \A a \in 1..n : dims[a] > 0 /\ dims[a] \in Nat
      /\ \A a \in 0..n : Block(dims, a) > 0 /\ Block(dims, a) \in Nat
      /\ Block(dims, 0) = Product(dims) /\ Block(dims, n) = 1
      /\ \A a \in 1..n : Block(dims, a - 1) = dims[a] * Block(dims, a)
  <2>1. Product(dims) > 0 /\ \A a \in 1..n : dims[a] \in Nat
    BY <1>1
  <2>2. /\ \A a \in 1..n : dims[a] > 0
        /\ \A a \in 0..n : Block(dims, a) > 0
    BY <1>1, <2>1, BlockPositive
  <2>3. QED
    BY <1>1, <2>1, <2>2, BlockFacts
<1>8. k \in Nat /\ k < Product(dims)
  OBVIOUS
<1>9. PICK Q \in SUBSET Nat :
        Q = {a \in Nat : a <= n /\ Total(Pre(s, a)) # (k \div Block(dims, a)) * Block(dims, a)}
  OBVIOUS
<1>10. ASSUME NEW a \in Q, \A j \in Q : a <= j PROVE FALSE
  <2>1. CASE a = 0
    <3>1. Total(Pre(s, 0)) = 0
      BY <1>6, CutFacts
    <3>2. PICK b \in Nat : b = Block(dims, 0) /\ k < b
      BY <1>7, <1>8
    <3>3. k \div b = 0
      <4>1. k = 0 * b + k
        BY <1>8
      <4>2. QED
        BY <1>8, <3>2, <4>1, DivUnique
    <3>4. 0 * b = 0
      OBVIOUS
    <3>5. QED
      BY <1>9, <2>1, <3>1, <3>2, <3>3, <3>4
  <2>2. CASE a # 0
    <3>1. a \in 1..n /\ a - 1 \in Nat /\ a - 1 <= n /\ a - 1 \notin Q
      BY <1>9, <1>10, <2>2
    <3>2. Total(Pre(s, a - 1)) = (k \div Block(dims, a - 1)) * Block(dims, a - 1)
      BY <1>9, <3>1
    <3>3. Total(Pre(s, a)) = Total(Pre(s, a - 1)) + s[a]
      BY <1>6, <3>1, CutFacts
    <3>4. a \in 0..n
      BY <3>1
    <3>5. PICK b \in Nat, d \in Nat : b = Block(dims, a) /\ d = dims[a] /\ b > 0 /\ d > 0
      BY <1>7, <3>1, <3>4
    <3>6. Block(dims, a - 1) = d * b
      BY <1>7, <3>1, <3>5
    <3>7. PICK u \in Nat : u = k \div b
      BY <1>8, <3>5, DivMod
    <3>8. k \div (d * b) = u \div d
      <4>1. k \in Nat /\ b > 0 /\ d > 0
        BY <1>8, <3>5
      <4>2. k \div (d * b) = (k \div b) \div d
        BY <4>1, DivTwice
      <4>3. QED
        BY <3>7, <4>2
    <3>9. PICK p \in Nat, i \in Nat : p = u \div d /\ i = u % d /\ u = p * d + i
      <4>1. d > 0
        BY <3>5
      <4>2. u \div d \in Nat /\ u % d \in Nat /\ u = (u \div d) * d + (u % d)
        BY <4>1, DivMod
      <4>3. QED
        BY <4>2
    <3>10. s[a] = i * b
      BY <1>3, <1>6, <3>1, <3>5, <3>7, <3>9
    <3>11. p * (d * b) + i * b = u * b
      <4>1. u = p * d + i
        BY <3>9
      <4>2. (p * d + i) * b = p * (d * b) + i * b
        OBVIOUS
      <4>3. QED
        BY <4>1, <4>2
    <3>12. QED
      BY <1>9, <3>2, <3>3, <3>5, <3>6, <3>7, <3>8, <3>9, <3>10, <3>11
  <2>3. QED
    BY <2>1, <2>2
<1>11. Q = {}
  BY <1>10, LeastNatural
<1>12. Total(Pre(s, n)) = (k \div 1) * 1
  <2>1. n <= n /\ n \notin Q
    BY <1>11
  <2>2. Total(Pre(s, n)) = (k \div Block(dims, n)) * Block(dims, n)
    BY <1>9, <2>1
  <2>3. QED
    BY <1>7, <2>2
<1>13. k \div 1 = k
  <2>1. k = k * 1 + 0
    BY <1>8
  <2>2. QED
    BY <1>8, <2>1, DivUnique
<1>14. Total(Pre(s, n)) = Total(s)
  BY <1>6, CutFacts
<1>15. Flatten(dims, idx) = Total(s)
  BY <1>1, <1>3, <1>4, FlattenIs
<1>16. QED
  BY <1>2, <1>8, <1>12, <1>13, <1>14, <1>15

----------------------------------------------------------------------------
\* The odometer of cpu_iter.

\* Axes that all stand at their end reach all of a step of the axis before.
LEMMA TailAtEnd ==
  ASSUME NEW dims \in Seq(Nat), NEW idx \in [1..Len(dims) -> Nat], NEW s,
         s = Steps(idx, Contiguous(dims)), NEW m \in 0..Len(dims),
         \A c \in (m + 1)..Len(dims) : idx[c] + 1 = dims[c]
  PROVE  Total(Post(s, m, Len(dims))) = Block(dims, m) - 1
<1>1. PICK n \in Nat : n = Len(dims)
  OBVIOUS
<1>2. /\ s \in [1..n -> Int]
      /\ \A a \in 1..n : s[a] = idx[a] * Block(dims, a)
  BY <1>1, DenseSteps
<1>3. PICK Q \in SUBSET Nat :
        Q = {k \in Nat : k <= n - m /\ Total(Post(s, n - k, n)) # Block(dims, n - k) - 1}
  OBVIOUS
<1>4. ASSUME NEW k \in Q, \A j \in Q : k <= j PROVE FALSE
  <2>1. CASE k = 0
    <3>1. Total(Post(s, n, n)) = 0
      BY <1>2, CutFacts
    <3>2. Block(dims, n) = 1
      BY <1>1, BlockFacts
    <3>3. n - 0 = n
      OBVIOUS
    <3>4. QED
      BY <1>3, <2>1, <3>1, <3>2, <3>3
  <2>2. CASE k # 0
    <3>1. PICK j \in Nat : k = j + 1
      BY <1>3, <2>2
    <3>2. PICK a \in 1..n : a = n - j /\ a - 1 = n - k /\ a \in (m + 1)..n
      <4>1. j + 1 <= n - m /\ m \in Nat
        BY <1>1, <1>3, <3>1
      <4>2. n - j \in 1..n /\ (n - j) - 1 = n - k /\ n - j \in (m + 1)..n
        BY <3>1, <4>1
      <4>3. QED
        BY <4>2
    <3>3. Total(Post(s, a, n)) = Block(dims, a) - 1
      BY <1>1, <1>3, <1>4, <3>1, <3>2
    <3>4. Total(Post(s, a - 1, n)) = s[a] + Total(Post(s, a, n))
      BY <1>2, CutFacts
    <3>5. Block(dims, a - 1) = dims[a] * Block(dims, a) /\ Block(dims, a) \in Nat
      BY <1>1, BlockFacts
    <3>6. PICK b \in Nat, i \in Nat : b = Block(dims, a) /\ i = idx[a]
      BY <1>1, <3>5
    <3>7. dims[a] = i + 1
      BY <1>1, <3>2, <3>6
    <3>8. (i + 1) * b = i * b + b
      OBVIOUS
    <3>9. PICK u \in Nat : u = i * b
      OBVIOUS
    <3>10. Total(Post(s, a - 1, n)) = u + (b - 1) /\ Block(dims, a - 1) = u + b
      BY <1>2, <3>3, <3>4, <3>5, <3>6, <3>7, <3>8, <3>9
    <3>11. QED
      BY <1>3, <3>2, <3>10
  <2>3. QED
    BY <2>1, <2>2
<1>5. Q = {}
  BY <1>4, LeastNatural
<1>6. n - m \in Nat /\ n - m <= n - m /\ n - (n - m) = m
  BY <1>1
<1>7. QED
  BY <1>1, <1>3, <1>5, <1>6

\* A sum of zeros.
LEMMA TotalZero ==
  ASSUME NEW n \in Nat, NEW s \in [1..n -> Int], \A i \in 1..n : s[i] = 0
  PROVE  Total(s) = 0
<1>1. PICK Q \in SUBSET Nat : Q = {k \in Nat : k <= n /\ Total(Pre(s, k)) # 0}
  OBVIOUS
<1>2. ASSUME NEW k \in Q, \A j \in Q : k <= j PROVE FALSE
  <2>1. CASE k = 0
    BY <1>1, <2>1, CutFacts
  <2>2. CASE k # 0
    <3>1. k \in 1..n /\ k - 1 \in Nat /\ k - 1 <= n /\ k - 1 \notin Q
      BY <1>1, <1>2, <2>2
    <3>2. Total(Pre(s, k)) = Total(Pre(s, k - 1)) + s[k]
      BY <3>1, CutFacts
    <3>3. QED
      BY <1>1, <3>1, <3>2
  <2>3. QED
    BY <2>1, <2>2
<1>3. Q = {}
  BY <1>2, LeastNatural
<1>4. Total(Pre(s, n)) = Total(s)
  BY CutFacts
<1>5. QED
  BY <1>1, <1>3, <1>4

\* The odometer goes from an index to the one of the next flat position.
LEMMA AdvanceNext ==
  ASSUME NEW dims \in Seq(Nat), NEW idx \in Indices(dims), Flatten(dims, idx) + 1 < Product(dims)
  PROVE  /\ Advance(dims, idx) \in Indices(dims)
         /\ Flatten(dims, Advance(dims, idx)) = Flatten(dims, idx) + 1
<1>1. PICK n \in Nat : n = Len(dims)
  OBVIOUS
<1>2. /\ idx \in [1..n -> Nat] /\ DOMAIN dims = 1..n
      /\ \A a \in 1..n : idx[a] < dims[a] /\ dims[a] \in Nat
  BY <1>1 DEF Indices
<1>3. PICK s : s = Steps(idx, Contiguous(dims))
  OBVIOUS
<1>4. s \in [1..n -> Int] /\ \A a \in 1..n : s[a] = idx[a] * Block(dims, a)
  BY <1>1, <1>2, <1>3, DenseSteps
<1>5. Flatten(dims, idx) = Total(s)
  BY <1>1, <1>2, <1>3, FlattenIs
<1>6. PICK S \in SUBSET Nat : S = {a \in Nat : a \in 1..n /\ idx[a] + 1 < dims[a]}
  OBVIOUS
<1>7. S # {}
  <2>1. SUFFICES ASSUME S = {} PROVE FALSE
    OBVIOUS
  <2>2. \A c \in (0 + 1)..n : idx[c] + 1 = dims[c]
    <3>1. SUFFICES ASSUME NEW c \in 1..n PROVE idx[c] + 1 = dims[c]
      OBVIOUS
    <3>2. c \in Nat /\ idx[c] \in Nat /\ dims[c] \in Nat /\ idx[c] < dims[c]
      BY <1>2
    <3>3. ~ (idx[c] + 1 < dims[c])
      BY <1>6, <2>1, <3>2
    <3>4. QED
      BY <3>2, <3>3
  <2>3. Total(Post(s, 0, n)) = Block(dims, 0) - 1
    BY <1>1, <1>2, <1>3, <2>2, TailAtEnd
  <2>4. Total(Post(s, 0, n)) = Total(s)
    BY <1>4, CutFacts
  <2>5. Block(dims, 0) = Product(dims) /\ Block(dims, 0) \in Nat
    BY <1>1, BlockFacts
  <2>6. QED
    BY <1>5, <2>3, <2>4, <2>5
<1>8. PICK m \in S : \A a \in S : a <= m
  <2>1. \A a \in S : a <= n
    BY <1>6
  <2>2. QED
    BY <1>7, <2>1, GreatestNatural
<1>9. m \in 1..n /\ idx[m] + 1 < dims[m] /\ \A c \in (m + 1)..n : idx[c] + 1 = dims[c]
  BY <1>2, <1>6, <1>8
<1>10. PICK next : next = [a \in 1..n |-> IF a > m THEN 0 ELSE IF a = m THEN idx[a] + 1 ELSE idx[a]]
  OBVIOUS
<1>11. Advance(dims, idx) = next
  <2>1. {a \in 1..n : \A c \in a..n : idx[c] + 1 >= dims[c]} = (m + 1)..n
    <3>1. ASSUME NEW a \in 1..n, \A c \in a..n : idx[c] + 1 >= dims[c] PROVE a \in (m + 1)..n
      <4>1. idx[m] \in Nat /\ dims[m] \in Nat /\ ~ (idx[m] + 1 >= dims[m])
        BY <1>2, <1>9
      <4>2. m \notin a..n
        BY <3>1, <4>1
      <4>3. QED
        BY <1>9, <4>2
    <3>2. ASSUME NEW a \in (m + 1)..n
          PROVE  a \in 1..n /\ \A c \in a..n : idx[c] + 1 >= dims[c]
      <4>1. a \in 1..n /\ \A c \in a..n : c \in (m + 1)..n
        BY <1>9
      <4>2. \A c \in (m + 1)..n : idx[c] + 1 = dims[c] /\ dims[c] \in Nat
        BY <1>2, <1>9
      <4>3. QED
        BY <4>1, <4>2
    <3>3. QED
      BY <3>1, <3>2
  <2>2. {a \in (1..n) \ ((m + 1)..n) : \A c \in (a + 1)..n : c \in (m + 1)..n} = {m}
    BY <1>9
  <2>3. PICK carry : carry = (m + 1)..n
    OBVIOUS
  <2>4. PICK stop : stop = {m}
    OBVIOUS
  <2>5. Advance(dims, idx) = [a \in 1..n |-> IF a \in carry THEN 0
                                ELSE IF a \in stop THEN idx[a] + 1 ELSE idx[a]]
    BY <1>1, <1>2, <2>1, <2>2, <2>3, <2>4, Zenon DEF Advance
  <2>6. QED
    BY <1>9, <1>10, <2>3, <2>4, <2>5
<1>12. next \in Indices(dims)
  <2>1. \A a \in 1..n : next[a] \in Nat /\ next[a] < dims[a]
    <3>1. SUFFICES ASSUME NEW a \in 1..n PROVE next[a] \in Nat /\ next[a] < dims[a]
      OBVIOUS
    <3>2. idx[a] \in Nat /\ dims[a] \in Nat /\ idx[a] < dims[a]
      BY <1>2
    <3>3. next[a] = IF a > m THEN 0 ELSE IF a = m THEN idx[a] + 1 ELSE idx[a]
      BY <1>10
    <3>4. QED
      BY <1>9, <3>2, <3>3
  <2>2. next \in [1..n -> Nat]
    BY <1>10, <2>1
  <2>3. QED
    BY <1>1, <2>1, <2>2 DEF Indices
<1>13. PICK r : r = Steps(next, Contiguous(dims))
  OBVIOUS
<1>14. next \in [1..n -> Nat]
  BY <1>1, <1>12 DEF Indices
<1>15. r \in [1..n -> Int] /\ \A a \in 1..n : r[a] = next[a] * Block(dims, a)
  BY <1>1, <1>13, <1>14, DenseSteps
<1>16. Flatten(dims, next) = Total(r)
  BY <1>1, <1>13, <1>14, FlattenIs
<1>17. m \in 0..n /\ m - 1 \in 0..n
  BY <1>9
<1>18. Pre(r, m - 1) = Pre(s, m - 1)
  <2>1. \A a \in 1..(m - 1) : r[a] = s[a]
    BY <1>4, <1>9, <1>10, <1>15, SMTT(40)
  <2>2. QED
    BY <2>1 DEF Pre
<1>19. Total(Post(r, m, n)) = 0
  <2>1. \A a \in (m + 1)..n : r[a] = 0
    <3>1. \A a \in 0..n : Block(dims, a) \in Nat
      BY <1>1, BlockFacts
    <3>2. QED
      BY <1>9, <1>10, <1>15, <3>1
  <2>2. /\ Post(r, m, n) \in [1..(n - m) -> Int] /\ n - m \in Nat
        /\ \A i \in 1..(n - m) : Post(r, m, n)[i] = 0
    BY <1>15, <1>9, <2>1 DEF Post
  <2>3. QED
    BY <2>2, TotalZero
<1>20. Total(Post(s, m, n)) = Block(dims, m) - 1
  BY <1>1, <1>2, <1>3, <1>9, <1>17, TailAtEnd
<1>21. r[m] = s[m] + Block(dims, m) /\ Block(dims, m) \in Nat
  <2>1. PICK b \in Nat : b = Block(dims, m)
    BY <1>1, <1>17, BlockFacts
  <2>2. PICK i \in Nat : i = idx[m]
    BY <1>2, <1>9
  <2>3. (i + 1) * b = i * b + b
    OBVIOUS
  <2>4. next[m] = i + 1
    BY <1>9, <1>10, <2>2
  <2>5. QED
    BY <1>4, <1>9, <1>15, <2>1, <2>2, <2>3, <2>4
<1>22. /\ Total(r) = Total(Pre(r, m - 1)) + r[m] + Total(Post(r, m, n))
       /\ Total(s) = Total(Pre(s, m - 1)) + s[m] + Total(Post(s, m, n))
       /\ Total(Pre(s, m - 1)) \in Int /\ s[m] \in Int
  <2>1. /\ Total(r) = Total(Pre(r, m)) + Total(Post(r, m, n))
        /\ Total(Pre(r, m)) = Total(Pre(r, m - 1)) + r[m]
    BY <1>9, <1>15, <1>17, CutFacts
  <2>2. /\ Total(s) = Total(Pre(s, m)) + Total(Post(s, m, n))
        /\ Total(Pre(s, m)) = Total(Pre(s, m - 1)) + s[m]
        /\ Total(Pre(s, m - 1)) \in Int
    BY <1>4, <1>9, <1>17, CutFacts
  <2>3. QED
    BY <1>4, <1>9, <2>1, <2>2
<1>23. Total(r) = Total(s) + 1
  <2>1. PICK h \in Int : h = Total(Pre(s, m - 1))
    BY <1>22
  <2>2. PICK v \in Int, b \in Nat : v = s[m] /\ b = Block(dims, m)
    BY <1>21, <1>22
  <2>3. Total(r) = h + (v + b) + 0 /\ Total(s) = h + v + (b - 1)
    BY <1>18, <1>19, <1>20, <1>21, <1>22, <2>1, <2>2
  <2>4. QED
    BY <2>3
<1>24. QED
  BY <1>5, <1>11, <1>12, <1>16, <1>23

\* g solves the recursion of the odometer.
Odometer(dims, g) ==
  g = [k \in 1..Product(dims) |->
         IF k = 1 THEN [a \in DOMAIN dims |-> 0] ELSE Advance(dims, g[k - 1])]

\* The odometer shows the indices in row-major order.
LEMMA OdometerIsRowMajor ==
  ASSUME NEW dims \in Seq(Nat), NEW path, path = [k \in 1..Product(dims) |-> Unflatten(dims, k - 1)]
  PROVE  /\ Odometer(dims, path)
         /\ \A g : Odometer(dims, g) => g = path
<1>1. PICK p \in Nat : p = Product(dims)
  BY BlockFacts
<1>2. PICK n \in Nat : n = Len(dims)
  OBVIOUS
<1>3. ASSUME NEW k \in 1..p
      PROVE  path[k] = IF k = 1 THEN [a \in DOMAIN dims |-> 0] ELSE Advance(dims, path[k - 1])
  <2>1. CASE k = 1
    <3>1. /\ Unflatten(dims, 0) \in [1..n -> Nat]
          /\ \A a \in 1..n : Unflatten(dims, 0)[a] = (0 \div Block(dims, a)) % dims[a]
      BY <1>1, <1>2, <1>3, UnflattenType DEF Indices
    <3>2. /\ \A a \in 1..n : dims[a] > 0 /\ dims[a] \in Nat
          /\ \A a \in 1..n : Block(dims, a) > 0 /\ Block(dims, a) \in Nat
      <4>1. Product(dims) > 0 /\ \A a \in 1..n : dims[a] \in Nat /\ a \in 0..n
        BY <1>1, <1>2, <1>3
      <4>2. QED
        BY <1>2, <4>1, BlockPositive, BlockFacts
    <3>3. ASSUME NEW a \in 1..n PROVE (0 \div Block(dims, a)) % dims[a] = 0
      <4>1. PICK b \in Nat, d \in Nat : b = Block(dims, a) /\ d = dims[a] /\ b > 0 /\ d > 0
        BY <3>2
      <4>2. 0 = 0 * b + 0 /\ 0 = 0 * d + 0
        OBVIOUS
      <4>3. 0 \div b = 0 /\ 0 % d = 0
        BY <4>1, <4>2, DivUnique
      <4>4. QED
        BY <4>1, <4>3
    <3>4. Unflatten(dims, 0) = [a \in 1..n |-> 0]
      BY <3>1, <3>3
    <3>5. k - 1 = 0 /\ DOMAIN dims = 1..n
      BY <1>2, <2>1
    <3>6. path[k] = Unflatten(dims, 0)
      BY <1>1, <3>5
    <3>7. QED
      BY <2>1, <3>4, <3>5, <3>6
  <2>2. CASE k # 1
    <3>1. k - 1 \in 1..p /\ k - 2 \in 0..(p - 1) /\ (k - 1) - 1 = k - 2 /\ k - 1 \in 0..(p - 1)
      BY <1>1, <2>2
    <3>2. path[k - 1] = Unflatten(dims, k - 2)
      BY <1>1, <3>1
    <3>3. PICK idx : idx = Unflatten(dims, k - 2)
      OBVIOUS
    <3>4. idx \in Indices(dims) /\ Flatten(dims, idx) = k - 2
      BY <1>1, <3>1, <3>3, UnflattenType, FlattenUnflatten
    <3>5. Flatten(dims, idx) + 1 = k - 1 /\ k - 1 < p
      BY <3>1, <3>4
    <3>6. /\ Advance(dims, idx) \in Indices(dims)
          /\ Flatten(dims, Advance(dims, idx)) = k - 1
      BY <1>1, <3>4, <3>5, AdvanceNext
    <3>7. Unflatten(dims, k - 1) = Advance(dims, idx)
      BY <3>6, UnflattenFlatten
    <3>8. QED
      BY <1>1, <2>2, <3>2, <3>3, <3>7
  <2>3. QED
    BY <2>1, <2>2
<1>4. Odometer(dims, path)
  BY <1>1, <1>3, Zenon DEF Odometer
<1>5. ASSUME NEW g, Odometer(dims, g) PROVE g = path
  <2>1. PICK Q \in SUBSET Nat : Q = {k \in Nat : k \in 1..p /\ g[k] # path[k]}
    OBVIOUS
  <2>2. /\ g = [k \in 1..p |-> g[k]]
        /\ \A k \in 1..p : g[k] = IF k = 1 THEN [a \in DOMAIN dims |-> 0]
                                  ELSE Advance(dims, g[k - 1])
    BY <1>1, <1>5 DEF Odometer
  <2>3. ASSUME NEW k \in Q, \A j \in Q : k <= j PROVE FALSE
    <3>1. k \in 1..p
      BY <2>1
    <3>2. CASE k = 1
      BY <1>3, <2>1, <2>2, <3>1, <3>2
    <3>3. CASE k # 1
      <4>1. k - 1 \in 1..p /\ k - 1 \in Nat /\ k - 1 \notin Q
        BY <2>3, <3>1, <3>3
      <4>2. g[k - 1] = path[k - 1]
        BY <2>1, <4>1
      <4>3. g[k] = Advance(dims, g[k - 1])
        BY <2>2, <3>1, <3>3
      <4>4. path[k] = Advance(dims, path[k - 1])
        BY <1>3, <3>1, <3>3
      <4>5. g[k] # path[k]
        BY <2>1
      <4>6. QED
        BY <4>2, <4>3, <4>4, <4>5
    <3>4. QED
      BY <3>2, <3>3
  <2>4. Q = {}
    BY <2>3, LeastNatural
  <2>5. ASSUME NEW k \in 1..p PROVE g[k] = path[k]
    <3>1. k \in Nat /\ k \notin Q
      BY <2>4
    <3>2. QED
      BY <2>1, <3>1
  <2>6. path = [k \in 1..p |-> path[k]]
    BY <1>1
  <2>7. QED
    BY <2>2, <2>5, <2>6
<1>6. QED
  BY <1>4, <1>5

\* cpu_iter reads the elements of any view in row-major order: position k of
\* what it yields is the element at the k-th multi-index.
THEOREM CpuIterIsRowMajor ==
  ASSUME NEW t, t.dims \in Seq(Nat)
  PROVE  CpuIter(t) = [k \in 1..Product(t.dims) |-> Address(t, Unflatten(t.dims, k - 1))]
<1>1. PICK dims \in Seq(Nat) : dims = t.dims
  OBVIOUS
<1>2. PICK path : path = [k \in 1..Product(dims) |-> Unflatten(dims, k - 1)]
  OBVIOUS
<1>3. CpuIter(t) = [k \in 1..Product(dims) |-> Address(t, (CHOOSE g : Odometer(dims, g))[k])]
  BY <1>1 DEF CpuIter, Odometer, ElemCount
<1>4. (CHOOSE g : Odometer(dims, g)) = path
  <2>1. Odometer(dims, path) /\ \A g : Odometer(dims, g) => g = path
    BY <1>2, OdometerIsRowMajor
  <2>2. QED
    BY <2>1, Zenon
<1>5. \A k \in 1..Product(dims) : path[k] = Unflatten(dims, k - 1)
  BY <1>2
<1>6. QED
  BY <1>1, <1>3, <1>4, <1>5

----------------------------------------------------------------------------
\* Tensors and the values they hold.

Value == Seq(Int)

Strided(dims, strides, off, view, dtype, leaf, store) ==
  [dims |-> dims, strides |-> strides, off |-> off, view |-> view,
   dtype |-> dtype, leaf |-> leaf, store |-> store]

\* A tensor with its fields.
WellFormed(t) ==
  /\ t = Strided(t.dims, t.strides, t.off, t.view, t.dtype, t.leaf, t.store)
  /\ t.dims \in Seq(Nat)
  /\ t.strides \in [1..Len(t.dims) -> Nat]
  /\ t.off \in Nat
  /\ t.view \in BOOLEAN /\ t.leaf \in BOOLEAN
  /\ t.store \in Seq(Value)

\* Only views are strided, offset or share their storage, and a leaf is no view.
DenseUnlessView(t) ==
  /\ ~t.view => /\ t.off = 0
                /\ t.strides = Contiguous(t.dims)
                /\ Len(t.store) = Product(t.dims)
  /\ t.leaf => ~t.view

\* The element of t at every index is the value v has at its flat position.
Holds(t, v) ==
  /\ WellFormed(t)
  /\ DenseUnlessView(t)
  /\ v \in [1..Product(t.dims) -> Value]
  /\ \A idx \in Indices(t.dims) :
       /\ Address(t, idx) \in 0..(Len(t.store) - 1)
       /\ t.store[Address(t, idx) + 1] = v[Flatten(t.dims, idx) + 1]

\* The fields of a view.
LEMMA ViewFields ==
  ASSUME NEW t, WellFormed(t), NEW off, NEW dims, NEW strides
  PROVE  View(t, off, dims, strides) = Strided(dims, strides, off, TRUE, t.dtype, FALSE, t.store)
<1>1. PICK d, s, o, w, ty, l, b : t = Strided(d, s, o, w, ty, l, b)
  BY DEF WellFormed
<1>2. t.dtype = ty /\ t.store = b
  BY <1>1 DEF Strided
<1>3. ASSUME NEW u, NEW m
      PROVE  [t EXCEPT !.off = off, !.dims = dims, !.strides = strides, !.view = u, !.leaf = m]
               = Strided(dims, strides, off, u, t.dtype, m, t.store)
  <2>1. [t EXCEPT !.off = off] = Strided(d, s, off, w, ty, l, b)
    BY <1>1 DEF Strided
  <2>2. [t EXCEPT !.off = off, !.dims = dims] = Strided(dims, s, off, w, ty, l, b)
    <3>1. [Strided(d, s, off, w, ty, l, b) EXCEPT !.dims = dims] = Strided(dims, s, off, w, ty, l, b)
      BY DEF Strided
    <3>2. QED
      BY <2>1, <3>1, Zenon
  <2>3. [t EXCEPT !.off = off, !.dims = dims, !.strides = strides]
          = Strided(dims, strides, off, w, ty, l, b)
    <3>1. [Strided(dims, s, off, w, ty, l, b) EXCEPT !.strides = strides]
            = Strided(dims, strides, off, w, ty, l, b)
      BY DEF Strided
    <3>2. QED
      BY <2>2, <3>1, Zenon
  <2>4. [t EXCEPT !.off = off, !.dims = dims, !.strides = strides, !.view = u]
          = Strided(dims, strides, off, u, ty, l, b)
    <3>1. [Strided(dims, strides, off, w, ty, l, b) EXCEPT !.view = u]
            = Strided(dims, strides, off, u, ty, l, b)
      BY DEF Strided
    <3>2. QED
      BY <2>3, <3>1, Zenon
  <2>5. [Strided(dims, strides, off, u, ty, l, b) EXCEPT !.leaf = m]
          = Strided(dims, strides, off, u, ty, m, b)
    BY DEF Strided
  <2>6. QED
    BY <1>2, <2>4, <2>5, Zenon
<1>4. QED
  BY <1>3, Zenon DEF View

\* Reading the fields of a tensor.
LEMMA StridedFields ==
  ASSUME NEW d, NEW s, NEW o, NEW w, NEW ty, NEW l, NEW b, NEW t,
         t = Strided(d, s, o, w, ty, l, b)
  PROVE  /\ t.dims = d /\ t.strides = s /\ t.off = o /\ t.view = w
         /\ t.dtype = ty /\ t.leaf = l /\ t.store = b
  BY DEF Strided

\* An address is the offset and a step along each axis.
LEMMA AddressIs ==
  ASSUME NEW t, NEW idx
  PROVE  Address(t, idx) = t.off + Total(Steps(idx, t.strides))
  BY DEF Address, Steps

\* A tensor with dense strides counts through its storage.
LEMMA DenseAddress ==
  ASSUME NEW t, t.dims \in Seq(Nat), t.strides = Contiguous(t.dims),
         NEW idx \in Indices(t.dims)
  PROVE  Address(t, idx) = t.off + Flatten(t.dims, idx)
<1>1. idx \in [1..Len(t.dims) -> Nat]
  BY DEF Indices
<1>2. QED
  BY <1>1, AddressIs, FlattenIs

\* What the host reads of a tensor that holds v: cpu_iter stays in the storage
\* and yields v in row-major order; cpu_bytes lends the same elements or nothing.
LEMMA HostReads ==
  ASSUME NEW t, NEW v, Holds(t, v)
  PROVE  /\ \A k \in DOMAIN CpuIter(t) : CpuIter(t)[k] \in 0..(Len(t.store) - 1)
         /\ Fetch(t, CpuIter(t)) = v
         /\ CpuBytes(t) \in {Refused, CpuIter(t)}
<1>1. t.dims \in Seq(Nat) /\ t.off \in Nat
  BY DEF Holds, WellFormed
<1>2. PICK dims \in Seq(Nat) : dims = t.dims
  BY <1>1
<1>3. PICK p \in Nat : p = Product(dims)
  BY BlockFacts
<1>4. CpuIter(t) = [k \in 1..p |-> Address(t, Unflatten(dims, k - 1))]
  BY <1>1, <1>2, <1>3, CpuIterIsRowMajor
<1>5. ASSUME NEW k \in 1..p
      PROVE  /\ Unflatten(dims, k - 1) \in Indices(dims)
             /\ Flatten(dims, Unflatten(dims, k - 1)) = k - 1
             /\ CpuIter(t)[k] = Address(t, Unflatten(dims, k - 1))
  <2>1. k - 1 \in 0..(p - 1)
    OBVIOUS
  <2>2. QED
    BY <1>3, <1>4, <2>1, UnflattenType, FlattenUnflatten
<1>6. ASSUME NEW k \in 1..p
      PROVE  /\ CpuIter(t)[k] \in 0..(Len(t.store) - 1)
             /\ t.store[CpuIter(t)[k] + 1] = v[k]
  <2>1. PICK idx \in Indices(dims) : idx = Unflatten(dims, k - 1)
    BY <1>5
  <2>2. /\ Address(t, idx) \in 0..(Len(t.store) - 1)
        /\ t.store[Address(t, idx) + 1] = v[Flatten(dims, idx) + 1]
    BY <1>2, <2>1 DEF Holds
  <2>3. Flatten(dims, idx) + 1 = k /\ CpuIter(t)[k] = Address(t, idx)
    BY <1>5, <2>1
  <2>4. QED
    BY <2>2, <2>3
<1>7. DOMAIN CpuIter(t) = 1..p
  BY <1>4
<1>8. Fetch(t, CpuIter(t)) = v
  <2>1. v \in [1..p -> Value]
    BY <1>2, <1>3 DEF Holds
  <2>2. Fetch(t, CpuIter(t)) = [k \in 1..p |-> t.store[CpuIter(t)[k] + 1]]
    BY <1>7 DEF Fetch
  <2>3. QED
    BY <1>6, <2>1, <2>2
<1>9. ASSUME IsContiguous(t) PROVE CpuIter(t) = [k \in 1..p |-> t.off + k - 1]
  <2>1. ASSUME NEW k \in 1..p PROVE CpuIter(t)[k] = t.off + k - 1
    <3>1. PICK idx \in Indices(dims) : idx = Unflatten(dims, k - 1)
      BY <1>5
    <3>2. Address(t, idx) = t.off + Flatten(dims, idx)
      BY <1>1, <1>2, <1>9, DenseAddress DEF IsContiguous
    <3>3. QED
      BY <1>1, <1>5, <3>1, <3>2
  <2>2. QED
    BY <1>4, <2>1
<1>10. CpuBytes(t) \in {Refused, CpuIter(t)}
  BY <1>2, <1>3, <1>9 DEF CpuBytes, ElemCount
<1>11. QED
  BY <1>6, <1>7, <1>8, <1>10

\* A tensor that owns its storage holds it.
LEMMA OwnedStore ==
  ASSUME NEW t, NEW v, Holds(t, v), t.strides = Contiguous(t.dims), t.off = 0
  PROVE  /\ Product(t.dims) \in Nat
         /\ \A k \in 1..Product(t.dims) : k <= Len(t.store) /\ t.store[k] = v[k]
         /\ Len(t.store) = Product(t.dims) => t.store = v
<1>1. t.dims \in Seq(Nat) /\ t.store \in Seq(Value)
  BY DEF Holds, WellFormed
<1>2. PICK p \in Nat : p = Product(t.dims)
  BY <1>1, BlockFacts
<1>3. ASSUME NEW k \in 1..p PROVE k <= Len(t.store) /\ t.store[k] = v[k]
  <2>1. k - 1 \in 0..(p - 1)
    OBVIOUS
  <2>2. PICK idx \in Indices(t.dims) : Flatten(t.dims, idx) = k - 1
    BY <1>1, <1>2, <2>1, UnflattenType, FlattenUnflatten
  <2>3. Address(t, idx) = 0 + (k - 1)
    BY <1>1, <2>2, DenseAddress
  <2>4. k - 1 \in 0..(Len(t.store) - 1) /\ t.store[(k - 1) + 1] = v[(k - 1) + 1]
    BY <2>2, <2>3 DEF Holds
  <2>5. Len(t.store) \in Nat /\ (k - 1) + 1 = k
    BY <1>1
  <2>6. QED
    BY <2>4, <2>5
<1>4. ASSUME Len(t.store) = p PROVE t.store = v
  <2>1. t.store \in [1..p -> Value]
    BY <1>1, <1>4
  <2>2. v \in [1..p -> Value]
    BY <1>2 DEF Holds
  <2>3. QED
    BY <1>3, <2>1, <2>2
<1>5. QED
  BY <1>2, <1>3, <1>4

----------------------------------------------------------------------------
\* The builders of views.

\* Each index of a view of t points where an index of t does, and w has the
\* value there that v has for t.
PointsInto(t, v, off, dims, strides, w) ==
  \A idx \in Indices(dims) : \E old \in Indices(t.dims) :
    /\ off + Total(Steps(idx, strides)) = Address(t, old)
    /\ w[Flatten(dims, idx) + 1] = v[Flatten(t.dims, old) + 1]

\* w lists as many items as a tensor of shape dims has.
Lists(w, dims) == w = [k \in 1..Product(dims) |-> w[k]]

\* A view whose indices point into its owner holds the values they point at.
LEMMA ViewHolds ==
  ASSUME NEW t, NEW v, Holds(t, v), NEW dims \in Seq(Nat), NEW off \in Nat,
         NEW strides \in [1..Len(dims) -> Nat], NEW w, Lists(w, dims),
         PointsInto(t, v, off, dims, strides, w)
  PROVE  Holds(View(t, off, dims, strides), w)
<1>1. WellFormed(t)
  BY DEF Holds
<1>2. PICK u : u = View(t, off, dims, strides)
  OBVIOUS
<1>3. u = Strided(dims, strides, off, TRUE, t.dtype, FALSE, t.store)
  BY <1>1, <1>2, ViewFields
<1>4. /\ u.dims = dims /\ u.strides = strides /\ u.off = off /\ u.view = TRUE
      /\ u.dtype = t.dtype /\ u.leaf = FALSE /\ u.store = t.store
  BY <1>3 DEF Strided
<1>5. WellFormed(u)
  <2>1. u = Strided(u.dims, u.strides, u.off, u.view, u.dtype, u.leaf, u.store)
    BY <1>3, <1>4, Zenon
  <2>2. t.store \in Seq(Value)
    BY <1>1 DEF WellFormed
  <2>3. u.view \in BOOLEAN /\ u.leaf \in BOOLEAN
    BY <1>4
  <2>4. u.dims \in Seq(Nat) /\ u.strides \in [1..Len(u.dims) -> Nat] /\ u.off \in Nat
    BY <1>4
  <2>5. QED
    BY <1>4, <2>1, <2>2, <2>3, <2>4 DEF WellFormed
<1>6. DenseUnlessView(u)
  BY <1>4 DEF DenseUnlessView
<1>7. ASSUME NEW idx \in Indices(dims)
      PROVE  /\ Address(u, idx) \in 0..(Len(u.store) - 1)
             /\ u.store[Address(u, idx) + 1] = w[Flatten(dims, idx) + 1]
  <2>1. PICK old \in Indices(t.dims) :
           /\ off + Total(Steps(idx, strides)) = Address(t, old)
           /\ w[Flatten(dims, idx) + 1] = v[Flatten(t.dims, old) + 1]
    BY DEF PointsInto
  <2>2. Address(u, idx) = Address(t, old)
    BY <1>4, <2>1, AddressIs
  <2>3. /\ Address(t, old) \in 0..(Len(t.store) - 1)
        /\ t.store[Address(t, old) + 1] = v[Flatten(t.dims, old) + 1]
    BY DEF Holds
  <2>4. QED
    BY <1>4, <2>1, <2>2, <2>3
<1>8. w \in [1..Product(dims) -> Value]
  <2>1. PICK p \in Nat : p = Product(dims)
    BY BlockFacts
  <2>2. ASSUME NEW k \in 1..p PROVE w[k] \in Value
    <3>1. PICK j \in 0..(p - 1) : j + 1 = k
      <4>1. k - 1 \in 0..(p - 1) /\ (k - 1) + 1 = k
        BY <2>1
      <4>2. QED
        BY <4>1
    <3>2. PICK idx \in Indices(dims) : Flatten(dims, idx) = j
      BY <2>1, UnflattenType, FlattenUnflatten
    <3>3. PICK old \in Indices(t.dims) : w[Flatten(dims, idx) + 1] = v[Flatten(t.dims, old) + 1]
      BY DEF PointsInto
    <3>4. PICK d \in Seq(Nat) : d = t.dims
      BY <1>1 DEF WellFormed
    <3>5. PICK q \in Nat : q = Product(d)
      BY BlockFacts
    <3>6. PICK z \in Nat : z = Flatten(d, old) /\ z < q
      BY <3>4, <3>5, FlattenBelow
    <3>7. v[z + 1] \in Value
      <4>1. z + 1 \in 1..q
        BY <3>6
      <4>2. v \in [1..q -> Value]
        BY <3>4, <3>5 DEF Holds
      <4>3. QED
        BY <4>1, <4>2
    <3>8. QED
      BY <3>1, <3>2, <3>3, <3>4, <3>6, <3>7
  <2>3. QED
    BY <2>1, <2>2 DEF Lists
<1>9. Holds(u, w)
  <2>1. \A idx \in Indices(u.dims) :
          /\ Address(u, idx) \in 0..(Len(u.store) - 1)
          /\ u.store[Address(u, idx) + 1] = w[Flatten(u.dims, idx) + 1]
    BY <1>4, <1>7
  <2>2. w \in [1..Product(u.dims) -> Value]
    BY <1>4, <1>8
  <2>3. QED
    BY <1>5, <1>6, <2>1, <2>2 DEF Holds
<1>10. QED
  BY <1>2, <1>9

\* reshape keeps the values in their order.
LEMMA ReshapeHolds ==
  ASSUME NEW t, NEW v, Holds(t, v), NEW dims \in Seq(Nat), Reshape(t, dims) # Refused
  PROVE  Holds(Reshape(t, dims), v)
<1>1. /\ t.dims \in Seq(Nat) /\ t.off \in Nat
      /\ v \in [1..Product(t.dims) -> Value]
  BY DEF Holds, WellFormed
<1>2. /\ t.strides = Contiguous(t.dims) /\ Product(dims) = Product(t.dims)
      /\ Reshape(t, dims) = View(t, t.off, dims, Contiguous(dims))
  BY DEF Reshape, IsContiguous, ElemCount
<1>3. Contiguous(dims) \in [1..Len(dims) -> Nat]
  BY ContiguousFacts
<1>4. ASSUME NEW idx \in Indices(dims)
      PROVE  \E old \in Indices(t.dims) :
               /\ t.off + Total(Steps(idx, Contiguous(dims))) = Address(t, old)
               /\ v[Flatten(dims, idx) + 1] = v[Flatten(t.dims, old) + 1]
  <2>1. PICK k \in Nat : k = Flatten(dims, idx) /\ k < Product(dims)
    BY FlattenBelow
  <2>2. Product(t.dims) \in Nat /\ k \in 0..(Product(t.dims) - 1)
    BY <1>1, <1>2, <2>1, BlockFacts, SMTT(40)
  <2>3. PICK old \in Indices(t.dims) : Flatten(t.dims, old) = k
    BY <1>1, <2>2, UnflattenType, FlattenUnflatten
  <2>4. Address(t, old) = t.off + k
    BY <1>1, <1>2, <2>3, DenseAddress
  <2>5. Flatten(dims, idx) = Total(Steps(idx, Contiguous(dims)))
    BY FlattenIs DEF Indices
  <2>6. QED
    BY <2>1, <2>3, <2>4, <2>5
<1>5. v \in [1..Product(dims) -> Value]
  BY <1>1, <1>2
<1>6. PICK strides \in [1..Len(dims) -> Nat] : strides = Contiguous(dims)
  BY <1>3
<1>7. PICK off \in Nat : off = t.off
  BY <1>1
<1>8. PointsInto(t, v, off, dims, strides, v)
  BY <1>4, <1>6, <1>7 DEF PointsInto
<1>9. Holds(View(t, off, dims, strides), v)
  <2>1. Lists(v, dims)
    BY <1>5 DEF Lists
  <2>2. QED
    BY <1>8, <2>1, ViewHolds
<1>10. QED
  BY <1>2, <1>6, <1>7, <1>9

\* Sums add up item by item.
LEMMA TotalAdd ==
  ASSUME NEW n \in Nat, NEW s \in [1..n -> Int], NEW r \in [1..n -> Int]
  PROVE  Total([i \in 1..n |-> s[i] + r[i]]) = Total(s) + Total(r)
<1>1. PICK u : u = [i \in 1..n |-> s[i] + r[i]]
  OBVIOUS
<1>2. u \in [1..n -> Int] /\ \A i \in 1..n : u[i] = s[i] + r[i]
  BY <1>1
<1>3. PICK Q \in SUBSET Nat :
        Q = {k \in Nat : k <= n /\ Total(Pre(u, k)) # Total(Pre(s, k)) + Total(Pre(r, k))}
  OBVIOUS
<1>4. ASSUME NEW k \in Q, \A j \in Q : k <= j PROVE FALSE
  <2>1. CASE k = 0
    <3>1. Total(Pre(u, 0)) = 0 /\ Total(Pre(s, 0)) = 0 /\ Total(Pre(r, 0)) = 0
      BY <1>2, CutFacts
    <3>2. QED
      BY <1>3, <2>1, <3>1
  <2>2. CASE k # 0
    <3>1. k \in 1..n /\ k - 1 \in Nat /\ k - 1 \in 0..n /\ k - 1 <= n /\ k - 1 \notin Q
      BY <1>3, <1>4, <2>2
    <3>2. Total(Pre(u, k)) = Total(Pre(u, k - 1)) + u[k]
      BY <1>2, <3>1, CutFacts
    <3>3. Total(Pre(s, k)) = Total(Pre(s, k - 1)) + s[k] /\ Total(Pre(s, k - 1)) \in Int
      BY <3>1, CutFacts
    <3>4. Total(Pre(r, k)) = Total(Pre(r, k - 1)) + r[k] /\ Total(Pre(r, k - 1)) \in Int
      BY <3>1, CutFacts
    <3>5. Total(Pre(u, k - 1)) = Total(Pre(s, k - 1)) + Total(Pre(r, k - 1))
      BY <1>3, <3>1
    <3>6. u[k] = s[k] + r[k] /\ s[k] \in Int /\ r[k] \in Int
      BY <1>2, <3>1
    <3>7. Total(Pre(u, k)) = Total(Pre(s, k)) + Total(Pre(r, k))
      BY <3>2, <3>3, <3>4, <3>5, <3>6
    <3>8. QED
      BY <1>3, <3>7
  <2>3. QED
    BY <2>1, <2>2
<1>5. Q = {}
  BY <1>4, LeastNatural
<1>6. Total(Pre(u, n)) = Total(Pre(s, n)) + Total(Pre(r, n))
  BY <1>3, <1>5
<1>7. Pre(u, n) = u /\ Pre(s, n) = s /\ Pre(r, n) = r
  BY <1>2 DEF Pre
<1>8. QED
  BY <1>1, <1>6, <1>7

\* Replacing an item replaces it in the sum.
LEMMA TotalExcept ==
  ASSUME NEW n \in Nat, NEW s \in [1..n -> Int], NEW r \in [1..n -> Int], NEW j \in 1..n,
         \A i \in (1..n) \ {j} : r[i] = s[i]
  PROVE  Total(r) = Total(s) - s[j] + r[j]
<1>1. j \in 0..n /\ j - 1 \in 0..n
  OBVIOUS
<1>2. Pre(r, j - 1) = Pre(s, j - 1)
  <2>1. \A i \in 1..(j - 1) : r[i] = s[i]
    OBVIOUS
  <2>2. QED
    BY <2>1 DEF Pre
<1>3. Post(r, j, n) = Post(s, j, n)
  <2>1. \A i \in 1..(n - j) : r[j + i] = s[j + i]
    OBVIOUS
  <2>2. QED
    BY <2>1 DEF Post
<1>4. /\ Total(r) = Total(Pre(r, j)) + Total(Post(r, j, n))
      /\ Total(Pre(r, j)) = Total(Pre(r, j - 1)) + r[j]
      /\ Total(Pre(r, j - 1)) \in Int /\ Total(Post(r, j, n)) \in Int /\ r[j] \in Int
  BY <1>1, CutFacts
<1>5. /\ Total(s) = Total(Pre(s, j)) + Total(Post(s, j, n))
      /\ Total(Pre(s, j)) = Total(Pre(s, j - 1)) + s[j]
      /\ s[j] \in Int
  BY <1>1, CutFacts
<1>6. PICK a \in Int : a = Total(Pre(s, j - 1))
  BY <1>2, <1>4
<1>7. PICK b \in Int : b = Total(Post(s, j, n))
  BY <1>3, <1>4
<1>8. Total(r) = a + r[j] + b /\ Total(s) = a + s[j] + b
  BY <1>2, <1>3, <1>4, <1>5, <1>6, <1>7
<1>9. QED
  BY <1>4, <1>5, <1>8, SMTT(40)

\* The value of v at an index of shape dims.
ValueAt(v, dims, idx) == v[Flatten(dims, idx) + 1]

\* w, of shape dims, lists what v has from the start of the ranges on.
Window(w, dims, v, t, ranges) ==
  /\ ranges \in [1..Rank(t) -> Nat \X Nat]
  /\ dims \in [1..Rank(t) -> Nat]
  /\ \A a \in 1..Rank(t) : dims[a] = ranges[a][2] - ranges[a][1]
  /\ Lists(w, dims)
  /\ \A idx \in Indices(dims) :
       w[Flatten(dims, idx) + 1]
         = ValueAt(v, t.dims, [a \in 1..Rank(t) |-> idx[a] + ranges[a][1]])

\* A slice holds the values from the start of its ranges on.
LEMMA SliceHolds ==
  ASSUME NEW t, NEW v, Holds(t, v), NEW ranges, Slice(t, ranges) # Refused,
         NEW w, NEW dims, Window(w, dims, v, t, ranges)
  PROVE  Holds(Slice(t, ranges), w) /\ Slice(t, ranges).dims = dims
<1>1. /\ ranges \in [1..Rank(t) -> Nat \X Nat]
      /\ dims \in [1..Rank(t) -> Nat]
      /\ \A a \in 1..Rank(t) : dims[a] = ranges[a][2] - ranges[a][1]
      /\ Lists(w, dims)
      /\ \A idx \in Indices(dims) :
           w[Flatten(dims, idx) + 1]
             = ValueAt(v, t.dims, [a \in 1..Rank(t) |-> idx[a] + ranges[a][1]])
  BY DEF Window
<1> USE <1>1
<1>2. PICK n \in Nat : n = Rank(t)
  BY DEF Holds, WellFormed, Rank
<1>3. /\ t.dims \in [1..n -> Nat] /\ Len(t.dims) = n /\ t.strides \in [1..n -> Nat] /\ t.off \in Nat
      /\ WellFormed(t)
  BY <1>2, SMTT(40) DEF Holds, WellFormed, Rank
<1>4. DOMAIN ranges = 1..n /\ Len(ranges) = n
  BY <1>2, LenIs
<1>5. PICK starts : starts = [a \in 1..n |-> ranges[a][1]]
  OBVIOUS
<1>6. starts \in [1..n -> Nat] /\ \A a \in 1..n : ranges[a][1] = starts[a] /\ ranges[a][2] \in Nat
  BY <1>2, <1>5
<1>7. PICK r : r = Steps(starts, t.strides)
  OBVIOUS
<1>8. r = [a \in DOMAIN ranges |-> ranges[a][1] * t.strides[a]]
  BY <1>4, <1>5, <1>6, <1>7 DEF Steps
<1>9. r \in [1..n -> Int] /\ Total(r) \in Nat
  BY <1>3, <1>6, <1>7, StepsFacts
<1>10. PICK off \in Nat : off = t.off + Total(r)
  BY <1>3, <1>9
<1>11. /\ Slice(t, ranges) = View(t, off, [a \in DOMAIN ranges |-> ranges[a][2] - ranges[a][1]],
                                  t.strides)
       /\ \A a \in 1..n : ranges[a][1] <= ranges[a][2] /\ ranges[a][2] <= t.dims[a]
  BY <1>4, <1>8, <1>10 DEF Slice
<1>12. [a \in DOMAIN ranges |-> ranges[a][2] - ranges[a][1]] = dims
  BY <1>2, <1>4
<1>13. dims \in Seq(Nat) /\ Len(dims) = n
  BY <1>2
<1>14. PICK strides \in [1..Len(dims) -> Nat] : strides = t.strides
  BY <1>3, <1>13
<1>15. ASSUME NEW idx \in Indices(dims)
       PROVE  \E old \in Indices(t.dims) :
                /\ off + Total(Steps(idx, strides)) = Address(t, old)
                /\ w[Flatten(dims, idx) + 1] = v[Flatten(t.dims, old) + 1]
  <2>1. PICK old : old = [a \in 1..n |-> idx[a] + starts[a]]
    OBVIOUS
  <2>2. idx \in [1..n -> Nat] /\ \A a \in 1..n : idx[a] < dims[a]
    BY <1>13 DEF Indices
  <2>3. \A a \in 1..n : old[a] \in Nat /\ old[a] < t.dims[a]
    <3>1. SUFFICES ASSUME NEW a \in 1..n PROVE old[a] \in Nat /\ old[a] < t.dims[a]
      OBVIOUS
    <3>2. /\ idx[a] \in Nat /\ starts[a] \in Nat /\ ranges[a][2] \in Nat /\ t.dims[a] \in Nat
          /\ idx[a] < ranges[a][2] - starts[a] /\ ranges[a][2] <= t.dims[a]
      BY <1>2, <1>3, <1>6, <1>11, <2>2
    <3>3. old[a] = idx[a] + starts[a]
      BY <2>1
    <3>4. QED
      BY <3>2, <3>3
  <2>4. old \in [1..n -> Nat]
    BY <2>1, <2>3
  <2>5. old \in Indices(t.dims)
    BY <1>3, <2>3, <2>4 DEF Indices
  <2>6. PICK s : s = Steps(idx, t.strides)
    OBVIOUS
  <2>7. s \in [1..n -> Int] /\ Total(s) \in Nat
    BY <1>3, <2>2, <2>6, StepsFacts
  <2>8. Steps(old, t.strides) = [a \in 1..n |-> s[a] + r[a]]
    <3>1. \A a \in 1..n : Steps(old, t.strides)[a] = s[a] + r[a]
      <4>1. SUFFICES ASSUME NEW a \in 1..n PROVE Steps(old, t.strides)[a] = s[a] + r[a]
        OBVIOUS
      <4>2. /\ Steps(old, t.strides)[a] = old[a] * t.strides[a]
            /\ s[a] = idx[a] * t.strides[a] /\ r[a] = starts[a] * t.strides[a]
        <5>1. a \in DOMAIN old /\ a \in DOMAIN idx /\ a \in DOMAIN starts
          BY <1>6, <2>2, <2>4
        <5>2. QED
          BY <1>7, <2>6, <5>1 DEF Steps
      <4>3. PICK i \in Nat, b \in Nat : i = idx[a] /\ b = starts[a]
        BY <1>6, <2>2
      <4>4. PICK z \in Nat : z = t.strides[a]
        BY <1>3
      <4>5. (i + b) * z = i * z + b * z
        OBVIOUS
      <4>6. QED
        BY <2>1, <4>2, <4>3, <4>4, <4>5
    <3>2. Steps(old, t.strides) \in [1..n -> Int]
      BY <1>3, <2>4, StepsFacts
    <3>3. QED
      BY <3>1, <3>2
  <2>9. Total(Steps(old, t.strides)) = Total(s) + Total(r)
    BY <1>9, <2>7, <2>8, TotalAdd, ZenonT(60)
  <2>10. Address(t, old) = off + Total(s)
    BY <1>3, <1>9, <1>10, <2>7, <2>9, AddressIs, SMTT(40)
  <2>11. [a \in 1..n |-> idx[a] + ranges[a][1]] = old
    BY <1>6, <2>1
  <2>12. w[Flatten(dims, idx) + 1] = v[Flatten(t.dims, old) + 1]
    BY <1>2, <2>11 DEF ValueAt
  <2>13. QED
    BY <1>14, <2>5, <2>6, <2>10, <2>12
<1>16. PointsInto(t, v, off, dims, strides, w)
  BY <1>15 DEF PointsInto
<1>17. Holds(View(t, off, dims, strides), w)
  BY <1>13, <1>16, ViewHolds
<1>18. View(t, off, dims, strides).dims = dims
  BY <1>3, ViewFields DEF Strided
<1>19. QED
  BY <1>11, <1>12, <1>14, <1>17, <1>18

\* A copy that copy() elides keeps the values: the strides it drops are those
\* of axes with one element.
LEMMA ElidedHolds ==
  ASSUME NEW t, NEW v, Holds(t, v), CopyElides(t)
  PROVE  Holds(Elided(t), v)
<1>1. PICK dims \in Seq(Nat) : dims = t.dims
  BY DEF Holds, WellFormed
<1>2. PICK n \in Nat : n = Len(dims)
  BY <1>1
<1>3. /\ t.strides \in [1..n -> Nat] /\ t.off = 0 /\ v \in [1..Product(dims) -> Value]
      /\ dims \in [1..n -> Nat]
  BY <1>1, <1>2 DEF Holds, WellFormed, CopyElides
<1>4. PICK strides \in [1..n -> Nat] : strides = Contiguous(dims)
  BY <1>1, <1>2, ContiguousFacts
<1>5. ASSUME NEW idx \in Indices(dims)
      PROVE  \E old \in Indices(t.dims) :
               /\ 0 + Total(Steps(idx, strides)) = Address(t, old)
               /\ v[Flatten(dims, idx) + 1] = v[Flatten(t.dims, old) + 1]
  <2>1. idx \in [1..n -> Nat] /\ \A a \in 1..n : idx[a] < dims[a]
    BY <1>2 DEF Indices
  <2>2. [a \in DOMAIN dims |-> IF dims[a] > 1 THEN dims[a] ELSE 1] = dims
    <3>1. \A a \in 1..n : dims[a] \in Nat /\ idx[a] \in Nat /\ idx[a] < dims[a]
      BY <1>3, <2>1
    <3>2. ASSUME NEW a \in 1..n PROVE (IF dims[a] > 1 THEN dims[a] ELSE 1) = dims[a]
      <4>1. PICK f \in Nat, g \in Nat : f = dims[a] /\ g = idx[a] /\ g < f
        BY <3>1
      <4>2. (IF f > 1 THEN f ELSE 1) = f
        BY ONLY f \in Nat, g \in Nat, <4>1
      <4>3. QED
        BY <4>1, <4>2, Zenon
    <3>3. QED
      BY <1>3, <3>2
  <2>3. \A a \in 1..n : dims[a] > 1 => t.strides[a] = strides[a]
    <3>1. PICK e : e = Contiguous([a \in DOMAIN dims |-> IF dims[a] > 1 THEN dims[a] ELSE 1])
      OBVIOUS
    <3>2. \A a \in DOMAIN dims : dims[a] > 1 => t.strides[a] = e[a]
      BY <1>1, <3>1, Zenon DEF CopyElides, IsContiguousIgnoringUnits
    <3>3. e = strides
      BY <1>4, <2>2, <3>1, Zenon
    <3>4. QED
      BY <1>3, <3>2, <3>3
  <2>4. \A a \in 1..n : idx[a] * strides[a] = idx[a] * t.strides[a]
    <3>1. SUFFICES ASSUME NEW a \in 1..n PROVE idx[a] * strides[a] = idx[a] * t.strides[a]
      OBVIOUS
    <3>2. CASE dims[a] > 1
      BY <2>3, <3>2
    <3>3. CASE ~ (dims[a] > 1)
      <4>1. idx[a] = 0
        BY <1>3, <2>1, <3>3
      <4>2. strides[a] \in Nat /\ t.strides[a] \in Nat
        BY <1>3
      <4>3. QED
        BY <4>1, <4>2
    <3>4. QED
      BY <3>2, <3>3
  <2>5. Steps(idx, strides) = Steps(idx, t.strides)
    BY <2>1, <2>4 DEF Steps
  <2>6. Address(t, idx) = 0 + Total(Steps(idx, strides))
    BY <1>3, <2>5, AddressIs
  <2>7. QED
    BY <1>1, <2>6
<1>6. PICK off \in Nat : off = 0
  OBVIOUS
<1>7. PointsInto(t, v, off, dims, strides, v)
  BY <1>5, <1>6 DEF PointsInto
<1>8. Holds(View(t, off, dims, strides), v)
  <2>1. Lists(v, dims)
    BY <1>3 DEF Lists
  <2>2. QED
    BY <1>2, <1>3, <1>7, <2>1, ViewHolds
<1>9. QED
  BY <1>1, <1>4, <1>6, <1>8 DEF Elided

\* p lists the numbers up to n, each once.
Bijective(p, n) ==
  /\ p \in [1..n -> 1..n]
  /\ \A c \in 1..n : \E b \in 1..n : p[b] = c
  /\ \A a \in 1..n, b \in 1..n : p[a] = p[b] => a = b

\* A list of n numbers that has them all has each once.
LEMMA PermsBijective ==
  ASSUME NEW n \in Nat, NEW p \in Perms(n)
  PROVE  Bijective(p, n)
<1>1. p \in [1..n -> 1..n] /\ {p[i] : i \in 1..n} = 1..n
  BY DEF Perms
<1>2. \A c \in 1..n : \E b \in 1..n : p[b] = c
  BY <1>1
<1>3. \A a \in 1..n, b \in 1..n : p[a] = p[b] => a = b
  BY <1>1, <1>2, OntoOnce
<1>4. QED
  BY <1>1, <1>2, <1>3 DEF Bijective

\* Taking the last number out of a list of the first ones.
LEMMA BijectiveShrinks ==
  ASSUME NEW m \in Nat, NEW p, Bijective(p, m + 1), NEW j \in 1..(m + 1), p[j] = m + 1,
         NEW q, q = [i \in 1..m |-> IF i = j THEN p[m + 1] ELSE p[i]]
  PROVE  Bijective(q, m)
<1>1. /\ p \in [1..(m + 1) -> 1..(m + 1)]
      /\ \A c \in 1..(m + 1) : \E b \in 1..(m + 1) : p[b] = c
      /\ \A a \in 1..(m + 1), b \in 1..(m + 1) : p[a] = p[b] => a = b
  BY DEF Bijective
<1>2. m + 1 \in 1..(m + 1) /\ \A i \in 1..m : i \in 1..(m + 1) /\ i # m + 1
  OBVIOUS
<1>3. \A i \in 1..m : q[i] = IF i = j THEN p[m + 1] ELSE p[i]
  OBVIOUS
<1>4. ASSUME NEW i \in 1..m PROVE q[i] \in 1..m
  <2>1. \A c \in 1..(m + 1) : c # m + 1 => c \in 1..m
    OBVIOUS
  <2>2. CASE i = j
    <3>1. p[m + 1] # m + 1
      BY <1>1, <1>2, <2>2
    <3>2. QED
      BY <1>1, <1>2, <1>3, <2>1, <2>2, <3>1
  <2>3. CASE i # j
    <3>1. p[i] # m + 1
      BY <1>1, <1>2, <2>3
    <3>2. QED
      BY <1>1, <1>2, <1>3, <2>1, <2>3, <3>1
  <2>4. QED
    BY <2>2, <2>3
<1>5. q \in [1..m -> 1..m]
  BY <1>4
<1>6. ASSUME NEW c \in 1..m PROVE \E b \in 1..m : q[b] = c
  <2>1. PICK b \in 1..(m + 1) : p[b] = c
    BY <1>1, <1>2
  <2>2. b # j
    BY <1>2, <2>1
  <2>3. CASE b = m + 1
    <3>1. j \in 1..m
      BY <2>2, <2>3
    <3>2. QED
      BY <1>3, <2>1, <2>3, <3>1
  <2>4. CASE b # m + 1
    <3>1. b \in 1..m
      BY <2>4
    <3>2. QED
      BY <1>3, <2>1, <2>2, <3>1
  <2>5. QED
    BY <2>3, <2>4
<1>7. ASSUME NEW a \in 1..m, NEW b \in 1..m, q[a] = q[b] PROVE a = b
  <2>1. CASE a = j /\ b # j
    <3>1. p[m + 1] = p[b]
      BY <1>3, <1>7, <2>1
    <3>2. QED
      BY <1>1, <1>2, <3>1
  <2>2. CASE a # j /\ b = j
    <3>1. p[m + 1] = p[a]
      BY <1>3, <1>7, <2>2
    <3>2. QED
      BY <1>1, <1>2, <3>1
  <2>3. CASE a # j /\ b # j
    <3>1. p[a] = p[b]
      BY <1>3, <1>7, <2>3
    <3>2. QED
      BY <1>1, <1>2, <3>1
  <2>4. QED
    BY <2>1, <2>2, <2>3
<1>8. QED
  BY <1>5, <1>6, <1>7 DEF Bijective

\* The same items in another order have the same sum.
Reordered(n) == \A p : Bijective(p, n) =>
  \A s \in [1..n -> Int] : Total([i \in 1..n |-> s[p[i]]]) = Total(s)

\* If this holds of m items, it holds of one more.
LEMMA ReorderedStep ==
  ASSUME NEW m \in Nat, Reordered(m)
  PROVE  Reordered(m + 1)
<1>1. PICK n \in Nat : n = m + 1
  OBVIOUS
<1>2. SUFFICES ASSUME NEW p, Bijective(p, n), NEW s \in [1..n -> Int]
               PROVE  Total([i \in 1..n |-> s[p[i]]]) = Total(s)
  BY <1>1 DEF Reordered
<1>3. /\ p \in [1..n -> 1..n] /\ n \in 1..n
      /\ \A i \in 1..m : i \in 1..n
  <2>1. p \in [1..n -> 1..n]
    BY <1>2, Zenon DEF Bijective
  <2>2. QED
    BY <1>1, <2>1
<1>4. PICK j \in 1..n : p[j] = n
  BY <1>2, <1>3 DEF Bijective
<1>5. PICK q : q = [i \in 1..m |-> IF i = j THEN p[n] ELSE p[i]]
  OBVIOUS
<1>6. Bijective(q, m)
  BY <1>1, <1>2, <1>4, <1>5, BijectiveShrinks
<1>7. q \in [1..m -> 1..m]
  BY <1>6 DEF Bijective
<1>8. PICK u : u = Pre(s, m)
  OBVIOUS
<1>9. u \in [1..m -> Int] /\ \A i \in 1..m : u[i] = s[i]
  BY <1>3, <1>8 DEF Pre
<1>10. PICK v : v = [i \in 1..m |-> u[q[i]]]
  OBVIOUS
<1>11. Total(v) = Total(u)
  BY <1>6, <1>9, <1>10 DEF Reordered
<1>12. v \in [1..m -> Int] /\ \A i \in 1..m : v[i] = s[q[i]]
  BY <1>7, <1>9, <1>10
<1>13. PICK r : r = [i \in 1..n |-> s[p[i]]]
  OBVIOUS
<1>14. r \in [1..n -> Int] /\ \A i \in 1..n : r[i] = s[p[i]]
  BY <1>3, <1>13
<1>15. PICK w : w = Pre(r, m)
  OBVIOUS
<1>16. w \in [1..m -> Int] /\ \A i \in 1..m : w[i] = s[p[i]]
  BY <1>3, <1>14, <1>15 DEF Pre
<1>17. n - 1 = m
  BY <1>1
<1>18. Total(Pre(r, n)) = Total(Pre(r, n - 1)) + r[n] /\ Total(Pre(r, n)) = Total(r)
  BY <1>3, <1>14, CutFacts
<1>19. Total(Pre(s, n)) = Total(Pre(s, n - 1)) + s[n] /\ Total(Pre(s, n)) = Total(s)
  BY <1>3, CutFacts
<1>20. Total(r) = Total(w) + r[n] /\ Total(s) = Total(u) + s[n]
  BY <1>8, <1>15, <1>17, <1>18, <1>19
<1>21. Total(w) \in Int /\ Total(u) \in Int /\ r[n] \in Int /\ s[n] \in Int
  <2>1. Total(w) \in Int
    BY <1>16, TotalType
  <2>2. Total(u) \in Int
    BY <1>9, TotalType
  <2>3. QED
    BY <1>3, <1>14, <2>1, <2>2
<1>22. CASE j = n
  <2>1. \A i \in 1..m : v[i] = w[i]
    BY <1>1, <1>5, <1>12, <1>16, <1>22
  <2>2. v = w
    BY <1>12, <1>16, <2>1
  <2>3. r[n] = s[n]
    BY <1>3, <1>4, <1>14, <1>22
  <2>4. QED
    BY <1>11, <1>13, <1>20, <2>2, <2>3
<1>23. CASE j # n
  <2>1. j \in 1..m
    BY <1>1, <1>23
  <2>2. \A i \in (1..m) \ {j} : v[i] = w[i]
    BY <1>5, <1>12, <1>16
  <2>3. w[j] = s[n] /\ v[j] = r[n]
    BY <1>3, <1>4, <1>5, <1>12, <1>14, <1>16, <2>1
  <2>4. Total(v) = Total(w) - w[j] + v[j]
    BY <1>12, <1>16, <2>1, <2>2, TotalExcept
  <2>5. QED
    BY <1>11, <1>13, <1>20, <1>21, <2>3, <2>4, SMTT(40)
<1>24. QED
  BY <1>22, <1>23

\* At every length, the same items in another order have the same sum.
LEMMA TotalPermute ==
  ASSUME NEW n \in Nat, NEW p, Bijective(p, n), NEW s \in [1..n -> Int]
  PROVE  Total([i \in 1..n |-> s[p[i]]]) = Total(s)
<1>1. PICK Q \in SUBSET Nat : Q = {k \in Nat : ~Reordered(k)}
  OBVIOUS
<1>2. ASSUME NEW k \in Q, \A j \in Q : k <= j PROVE FALSE
  <2>1. CASE k = 0
    <3>1. ASSUME NEW f, NEW z \in [1..0 -> Int] PROVE Total([i \in 1..0 |-> z[f[i]]]) = Total(z)
      <4>1. DOMAIN [i \in 1..0 |-> z[f[i]]] = {} /\ DOMAIN z = {}
        OBVIOUS
      <4>2. Total([i \in 1..0 |-> z[f[i]]]) = 0 /\ Total(z) = 0
        BY <4>1, TotalNone
      <4>3. QED
        BY <4>2
    <3>2. Reordered(0)
      BY <3>1 DEF Reordered
    <3>3. QED
      BY <1>1, <2>1, <3>2
  <2>2. CASE k # 0
    <3>1. PICK j \in Nat : k = j + 1
      BY <1>1, <2>2
    <3>2. Reordered(j)
      BY <1>1, <1>2, <3>1
    <3>3. QED
      BY <1>1, <3>1, <3>2, ReorderedStep
  <2>3. QED
    BY <2>1, <2>2
<1>3. Reordered(n)
  BY <1>1, <1>2, LeastNatural
<1>4. QED
  BY <1>3 DEF Reordered

\* The index that a permutation takes to idx.
Unpermuted(p, idx) == [c \in DOMAIN p |-> idx[CHOOSE b \in DOMAIN p : p[b] = c]]

\* w, of shape dims, lists what v has, with the axes in the order of p.
Permuted(w, dims, v, t, p) ==
  /\ dims \in [1..Rank(t) -> Nat]
  /\ \A i \in 1..Rank(t) : dims[i] = t.dims[p[i]]
  /\ Lists(w, dims)
  /\ \A idx \in Indices(dims) :
       w[Flatten(dims, idx) + 1] = ValueAt(v, t.dims, Unpermuted(p, idx))

\* permute holds the values with the axes in another order.
LEMMA PermuteHolds ==
  ASSUME NEW t, NEW v, Holds(t, v), NEW p \in Perms(Rank(t)),
         NEW w, NEW dims, Permuted(w, dims, v, t, p)
  PROVE  /\ Holds(Permute(t, p), w)
         /\ Permute(t, p).dims = dims
<1>1. /\ dims \in [1..Rank(t) -> Nat]
      /\ \A i \in 1..Rank(t) : dims[i] = t.dims[p[i]]
      /\ Lists(w, dims)
      /\ \A idx \in Indices(dims) :
           w[Flatten(dims, idx) + 1] = ValueAt(v, t.dims, Unpermuted(p, idx))
  BY DEF Permuted
<1> USE <1>1
<1>2. PICK n \in Nat : n = Rank(t)
  BY DEF Holds, WellFormed, Rank
<1>3. /\ t.dims \in [1..n -> Nat] /\ Len(t.dims) = n /\ t.strides \in [1..n -> Nat] /\ t.off \in Nat
      /\ WellFormed(t)
  BY <1>2 DEF Holds, WellFormed, Rank
<1>4. p \in Perms(n) /\ Bijective(p, n)
  BY <1>2, PermsBijective
<1>5. /\ p \in [1..n -> 1..n] /\ \A c \in 1..n : \E b \in 1..n : p[b] = c
      /\ \A a \in 1..n, b \in 1..n : p[a] = p[b] => a = b
  BY <1>4 DEF Bijective
<1>6. DOMAIN p = 1..n /\ Len(p) = n /\ {p[i] : i \in 1..n} = 1..n
  <2>1. DOMAIN p = 1..n
    BY <1>5
  <2>2. {p[i] : i \in 1..n} = 1..n
    BY <1>4 DEF Perms
  <2>3. QED
    BY <2>1, <2>2, LenIs
<1>7. [i \in DOMAIN p |-> t.dims[p[i]]] = dims
  BY <1>2, <1>6
<1>8. dims \in Seq(Nat) /\ Len(dims) = n
  BY <1>2
<1>9. PICK strides \in [1..Len(dims) -> Nat] : strides = [i \in 1..n |-> t.strides[p[i]]]
  BY <1>3, <1>5, <1>8
<1>10. PICK off \in Nat : off = t.off
  BY <1>3
<1>11. Permute(t, p) = View(t, off, dims, strides)
  BY <1>2, <1>6, <1>7, <1>9, <1>10, Zenon DEF Permute
<1>12. PICK q : q = [c \in 1..n |-> CHOOSE b \in DOMAIN p : p[b] = c]
  OBVIOUS
<1>13. \A c \in 1..n : q[c] \in 1..n /\ p[q[c]] = c
  BY <1>5, <1>6, <1>12
<1>14. \A i \in 1..n : q[p[i]] = i
  BY <1>5, <1>13
<1>15. ASSUME NEW idx \in Indices(dims)
       PROVE  \E old \in Indices(t.dims) :
                /\ off + Total(Steps(idx, strides)) = Address(t, old)
                /\ w[Flatten(dims, idx) + 1] = v[Flatten(t.dims, old) + 1]
  <2>1. PICK old : old = [c \in 1..n |-> idx[q[c]]]
    OBVIOUS
  <2>2. idx \in [1..n -> Nat] /\ \A a \in 1..n : idx[a] < dims[a]
    BY <1>8 DEF Indices
  <2>3. ASSUME NEW c \in 1..n PROVE old[c] \in Nat /\ old[c] < t.dims[c]
    <3>1. q[c] \in 1..n /\ t.dims[p[q[c]]] = t.dims[c]
      BY <1>13
    <3>2. idx[q[c]] < t.dims[c] /\ idx[q[c]] \in Nat
      BY <1>2, <2>2, <3>1
    <3>3. QED
      BY <2>1, <3>2
  <2>4. old \in [1..n -> Nat]
    BY <2>1, <2>3
  <2>5. old \in Indices(t.dims)
    BY <1>3, <2>3, <2>4 DEF Indices
  <2>6. PICK s : s = Steps(old, t.strides)
    OBVIOUS
  <2>7. s \in [1..n -> Int]
    BY <1>3, <2>4, <2>6, StepsFacts
  <2>8. Steps(idx, strides) = [i \in 1..n |-> s[p[i]]]
    <3>1. Steps(idx, strides) = [i \in 1..n |-> idx[i] * t.strides[p[i]]]
      BY <1>8, <1>9, <2>2 DEF Steps
    <3>2. \A i \in 1..n : s[p[i]] = idx[i] * t.strides[p[i]]
      <4>1. SUFFICES ASSUME NEW i \in 1..n PROVE s[p[i]] = idx[i] * t.strides[p[i]]
        OBVIOUS
      <4>2. p[i] \in 1..n /\ p[i] \in DOMAIN old
        BY <1>5, <2>4
      <4>3. s[p[i]] = old[p[i]] * t.strides[p[i]]
        BY <2>6, <4>2, Zenon DEF Steps
      <4>4. old[p[i]] = idx[i]
        BY <1>14, <2>1, <4>2
      <4>5. QED
        BY <4>3, <4>4
    <3>3. QED
      BY <3>1, <3>2
  <2>9. Total(Steps(idx, strides)) = Total(s)
    <3>1. Total([i \in 1..n |-> s[p[i]]]) = Total(s)
      BY <1>4, <2>7, TotalPermute
    <3>2. QED
      BY <2>8, <3>1, Zenon
  <2>10. off + Total(Steps(idx, strides)) = Address(t, old)
    BY <1>10, <2>6, <2>9, AddressIs
  <2>11. Unpermuted(p, idx) = old
    BY <1>6, <1>12, <2>1 DEF Unpermuted
  <2>12. w[Flatten(dims, idx) + 1] = v[Flatten(t.dims, old) + 1]
    <3>1. w[Flatten(dims, idx) + 1] = ValueAt(v, t.dims, Unpermuted(p, idx))
      OBVIOUS
    <3>2. w[Flatten(dims, idx) + 1] = ValueAt(v, t.dims, old)
      BY <2>11, <3>1, Zenon
    <3>3. QED
      BY <3>2 DEF ValueAt
  <2>13. QED
    BY <2>5, <2>10, <2>12
<1>16. PointsInto(t, v, off, dims, strides, w)
  BY <1>15 DEF PointsInto
<1>17. Holds(View(t, off, dims, strides), w)
  BY <1>8, <1>16, ViewHolds
<1>18. View(t, off, dims, strides).dims = dims
  BY <1>3, ViewFields DEF Strided
<1>19. QED
  BY <1>11, <1>17, <1>18

\* The index that an index of the stretched shape reads.
Squeezed(from, to, idx) ==
  [b \in DOMAIN from |-> IF from[b] = 1 THEN 0 ELSE idx[b + Len(to) - Len(from)]]

\* w, of shape dims, lists what v has at the indices its own are stretched from.
Stretched(w, dims, v, t) ==
  /\ Lists(w, dims)
  /\ \A idx \in Indices(dims) :
       w[Flatten(dims, idx) + 1] = ValueAt(v, t.dims, Squeezed(t.dims, dims, idx))

\* NumPy lets from stretch to dims.
Stretches(from, dims) ==
  /\ Len(dims) - Len(from) >= 0
  /\ \A a \in (Len(dims) - Len(from) + 1)..Len(dims) :
       from[a - (Len(dims) - Len(from))] # dims[a] => from[a - (Len(dims) - Len(from))] = 1

\* broadcast_to holds each value at every index it is stretched over.
LEMMA BroadcastHolds ==
  ASSUME NEW t, NEW v, Holds(t, v), NEW dims \in Seq(Nat), Stretches(t.dims, dims),
         NEW w, Stretched(w, dims, v, t)
  PROVE  /\ Holds(BroadcastTo(t, dims), w)
         /\ BroadcastTo(t, dims).dims = dims
<1>1. /\ Lists(w, dims)
      /\ \A idx \in Indices(dims) :
           w[Flatten(dims, idx) + 1] = ValueAt(v, t.dims, Squeezed(t.dims, dims, idx))
  BY DEF Stretched
<1> USE <1>1
<1>2. PICK n \in Nat : n = Rank(t)
  BY DEF Holds, WellFormed, Rank
<1>3. /\ t.dims \in [1..n -> Nat] /\ Len(t.dims) = n /\ t.strides \in [1..n -> Nat] /\ t.off \in Nat
      /\ WellFormed(t)
  BY <1>2 DEF Holds, WellFormed, Rank
<1>4. PICK m \in Nat : m = Len(dims)
  OBVIOUS
<1>5. dims \in [1..m -> Nat] /\ DOMAIN dims = 1..m
  BY <1>4
<1>6. PICK pad : pad = m - n
  OBVIOUS
<1>7. /\ pad >= 0
      /\ \A a \in (pad + 1)..m :
           (a <= pad \/ t.dims[a - pad] # dims[a]) => t.dims[a - pad] = 1
      /\ BroadcastTo(t, dims)
           = View(t, t.off, dims,
                  [a \in 1..m |-> IF a <= pad \/ t.dims[a - pad] # dims[a] THEN 0
                                  ELSE t.strides[a - pad]])
  BY <1>2, <1>4, <1>5, <1>6 DEF BroadcastTo, Stretches, Rank
<1>8. pad \in Nat /\ m = pad + n
  BY <1>6, <1>7
<1>9. PICK z : z = [a \in 1..m |-> IF a <= pad \/ t.dims[a - pad] # dims[a] THEN 0
                                   ELSE t.strides[a - pad]]
  OBVIOUS
<1>10. ASSUME NEW a \in 1..m, a <= pad PROVE z[a] = 0
  BY <1>9, <1>10
<1>11. ASSUME NEW b \in 1..n
       PROVE  /\ b + pad \in 1..m /\ dims[b + pad] \in Nat /\ t.dims[b] \in Nat
              /\ t.dims[b] # dims[b + pad] => t.dims[b] = 1 /\ z[b + pad] = 0
              /\ t.dims[b] = dims[b + pad] => z[b + pad] = t.strides[b]
  <2>1. /\ b + pad \in 1..m /\ b + pad \in (pad + 1)..m /\ (b + pad) - pad = b
        /\ ~(b + pad <= pad)
    BY <1>8
  <2>2. dims[b + pad] \in Nat /\ t.dims[b] \in Nat
    BY <1>3, <1>5, <2>1
  <2>3. t.dims[b] # dims[b + pad] => t.dims[b] = 1
    BY <1>7, <2>1
  <2>4. z[b + pad] = IF b + pad <= pad \/ t.dims[b] # dims[b + pad] THEN 0 ELSE t.strides[b]
    BY <1>9, <2>1
  <2>5. QED
    BY <2>1, <2>2, <2>3, <2>4
<1>12. ASSUME NEW a \in 1..m PROVE z[a] \in Nat
  <2>1. CASE a <= pad
    BY <1>10, <2>1
  <2>2. CASE ~(a <= pad)
    <3>1. PICK b \in 1..n : a = b + pad
      <4>1. a - pad \in 1..n /\ a = (a - pad) + pad
        BY <1>8, <2>2
      <4>2. QED
        BY <4>1
    <3>2. t.strides[b] \in Nat
      BY <1>3
    <3>3. QED
      BY <1>11, <3>1, <3>2
  <2>3. QED
    BY <2>1, <2>2
<1>13. PICK strides \in [1..Len(dims) -> Nat] : strides = z
  BY <1>4, <1>9, <1>12
<1>14. PICK off \in Nat : off = t.off
  BY <1>3
<1>15. BroadcastTo(t, dims) = View(t, off, dims, strides)
  BY <1>7, <1>9, <1>13, <1>14, Zenon
<1>16. ASSUME NEW idx \in Indices(dims)
       PROVE  \E old \in Indices(t.dims) :
                /\ off + Total(Steps(idx, strides)) = Address(t, old)
                /\ w[Flatten(dims, idx) + 1] = v[Flatten(t.dims, old) + 1]
  <2>1. PICK old : old = Squeezed(t.dims, dims, idx)
    OBVIOUS
  <2>2. idx \in [1..m -> Nat] /\ \A a \in 1..m : idx[a] < dims[a]
    BY <1>4 DEF Indices
  <2>3. DOMAIN old = 1..n /\ \A b \in 1..n : old[b] = IF t.dims[b] = 1 THEN 0 ELSE idx[b + pad]
    <3>1. \A b \in 1..n : b + m - n = b + pad
      BY <1>8
    <3>2. QED
      BY <1>3, <1>4, <2>1, <3>1 DEF Squeezed
  <2>4. ASSUME NEW b \in 1..n PROVE old[b] \in Nat /\ old[b] < t.dims[b]
    <3>1. /\ b + pad \in 1..m /\ t.dims[b] \in Nat
          /\ t.dims[b] # dims[b + pad] => t.dims[b] = 1
      BY <1>11
    <3>2. idx[b + pad] \in Nat /\ idx[b + pad] < dims[b + pad]
      BY <2>2, <3>1
    <3>3. CASE t.dims[b] = 1
      BY <2>3, <3>3
    <3>4. CASE t.dims[b] # 1
      BY <2>3, <3>1, <3>2, <3>4
    <3>5. QED
      BY <3>3, <3>4
  <2>5. old \in [1..n -> Nat]
    <3>1. old = [b \in 1..n |-> old[b]]
      BY <1>3, <2>1, <2>3 DEF Squeezed
    <3>2. QED
      BY <2>4, <3>1
  <2>6. old \in Indices(t.dims)
    BY <1>3, <2>4, <2>5 DEF Indices
  <2>7. PICK s : s = Steps(idx, strides)
    OBVIOUS
  <2>8. /\ s \in [1..m -> Int]
        /\ \A a \in 1..m : s[a] = idx[a] * z[a]
    BY <1>4, <1>13, <2>2, <2>7, StepsFacts, ZenonT(40)
  <2>9. Post(s, pad, m) = Steps(old, t.strides)
    <3>1. Post(s, pad, m) = [b \in 1..n |-> s[b + pad]]
      <4>1. m - pad = n /\ \A b \in 1..n : pad + b = b + pad
        BY <1>8
      <4>2. QED
        BY <4>1 DEF Post
    <3>2. Steps(old, t.strides) = [b \in 1..n |-> old[b] * t.strides[b]]
      BY <2>3 DEF Steps
    <3>3. ASSUME NEW b \in 1..n PROVE s[b + pad] = old[b] * t.strides[b]
      <4>1. /\ b + pad \in 1..m /\ s[b + pad] = idx[b + pad] * z[b + pad]
            /\ idx[b + pad] \in Nat /\ idx[b + pad] < dims[b + pad]
        BY <1>11, <2>2, <2>8
      <4>2. t.strides[b] \in Nat
        BY <1>3
      <4>3. CASE t.dims[b] # dims[b + pad]
        <5>1. z[b + pad] = 0 /\ old[b] = 0
          BY <1>11, <2>3, <4>3
        <5>2. QED
          BY <4>1, <4>2, <5>1
      <4>4. CASE t.dims[b] = dims[b + pad]
        <5>1. z[b + pad] = t.strides[b]
          BY <1>11, <4>4
        <5>2. old[b] = idx[b + pad]
          BY <2>3, <4>1, <4>4
        <5>3. QED
          BY <4>1, <5>1, <5>2
      <4>5. QED
        BY <4>3, <4>4
    <3>4. QED
      BY <3>1, <3>2, <3>3
  <2>10. Total(Pre(s, pad)) = 0
    <3>1. ASSUME NEW a \in 1..pad PROVE s[a] = 0
      <4>1. a \in 1..m /\ a <= pad
        BY <1>8
      <4>2. z[a] = 0 /\ s[a] = idx[a] * z[a] /\ idx[a] \in Nat
        BY <1>10, <2>2, <2>8, <4>1
      <4>3. QED
        BY <4>2
    <3>2. Pre(s, pad) \in [1..pad -> Int] /\ \A a \in 1..pad : Pre(s, pad)[a] = 0
      BY <3>1 DEF Pre
    <3>3. QED
      BY <1>8, <3>2, TotalZero
  <2>11. Total(s) = Total(Steps(old, t.strides))
    <3>1. /\ pad \in 0..m /\ Total(Post(s, pad, m)) \in Int
          /\ Total(s) = Total(Pre(s, pad)) + Total(Post(s, pad, m))
      <4>1. pad \in 0..m
        BY <1>8
      <4>2. s \in [1..m -> Int]
        BY <2>8, Zenon
      <4>3. Total(Post(s, pad, m)) \in Int
        BY ONLY <4>1, <4>2, m \in Nat, CutFacts
      <4>4. Total(s) = Total(Pre(s, pad)) + Total(Post(s, pad, m))
        BY ONLY <4>1, <4>2, m \in Nat, CutFacts
      <4>5. QED
        BY <4>1, <4>3, <4>4
    <3>2. QED
      BY <2>9, <2>10, <3>1
  <2>12. off + Total(Steps(idx, strides)) = Address(t, old)
    BY <1>14, <2>7, <2>11, AddressIs
  <2>13. w[Flatten(dims, idx) + 1] = v[Flatten(t.dims, old) + 1]
    BY <2>1 DEF ValueAt
  <2>14. QED
    BY <2>6, <2>12, <2>13
<1>17. PointsInto(t, v, off, dims, strides, w)
  BY <1>16 DEF PointsInto
<1>18. Holds(View(t, off, dims, strides), w)
  BY <1>17, ViewHolds
<1>19. View(t, off, dims, strides).dims = dims
  BY <1>3, ViewFields DEF Strided
<1>20. QED
  BY <1>15, <1>18, <1>19

----------------------------------------------------------------------------
\* What the strided grids write.

\* The writes stay below n, and write what v has there.
Agree(writes, n, v) == \A w \in writes : w[1] \in 0..(n - 1) /\ w[2] = v[w[1] + 1]

\* Some thread writes item i.
Hit(writes, i) == \E w \in writes : w[1] = i - 1

\* The writes of threads that agree with v, over a buffer of n items.
Merge(buf, v, writes, n, S) ==
  n \in Nat /\ buf \in [1..n -> S] /\ v \in [1..n -> S] /\ Agree(writes, n, v)

\* Threads that agree with v write v where they write, and nothing else.
LEMMA WrittenIs ==
  ASSUME NEW n, NEW S, NEW buf, NEW v, NEW writes, Merge(buf, v, writes, n, S)
  PROVE  /\ Written(buf, writes) \in [1..n -> S]
         /\ \A i \in 1..n : Hit(writes, i) => Written(buf, writes)[i] = v[i]
         /\ \A i \in 1..n : ~Hit(writes, i) => Written(buf, writes)[i] = buf[i]
<1>1. n \in Nat /\ buf \in [1..n -> S] /\ v \in [1..n -> S] /\ Agree(writes, n, v)
  BY DEF Merge
<1>2. Len(buf) = n
  BY <1>1, LenIs
<1>3. PICK here : here = [i \in 1..n |-> {w[2] : w \in {u \in writes : u[1] = i - 1}}]
  OBVIOUS
<1>4. PICK W : W = Written(buf, writes)
  OBVIOUS
<1>5. W = [i \in 1..n |-> CASE here[i] = {} -> buf[i]
                            [] Cardinality(here[i]) = 1 -> CHOOSE u \in here[i] : TRUE
                            [] OTHER -> Junk]
  <2>1. ~ \E w \in writes : w[1] \notin 0..(Len(buf) - 1)
    BY <1>1, <1>2 DEF Agree
  <2>2. QED
    BY <1>1, <1>3, <1>4, <2>1 DEF Written
<1>6. ASSUME NEW i \in 1..n, Hit(writes, i)
      PROVE  W[i] = v[i]
  <2>1. \A u \in writes : u[1] = i - 1 => u[2] = v[i]
    <3>1. (i - 1) + 1 = i
      BY <1>1
    <3>2. QED
      BY <1>1, <3>1 DEF Agree
  <2>2. here[i] = {v[i]}
    BY <1>3, <1>6, <2>1 DEF Hit
  <2>3. Cardinality(here[i]) = 1
    BY <2>2, FS_Singleton
  <2>4. (CHOOSE u \in here[i] : TRUE) = v[i]
    BY <2>2
  <2>5. here[i] # {}
    BY <2>2
  <2>6. QED
    BY <1>5, <2>3, <2>4, <2>5
<1>7. ASSUME NEW i \in 1..n, ~Hit(writes, i)
      PROVE  W[i] = buf[i]
  <2>1. here[i] = {}
    BY <1>3, <1>7 DEF Hit
  <2>2. QED
    BY <1>1, <1>5, <2>1
<1>8. \A i \in 1..n : W[i] \in S
  BY <1>1, <1>6, <1>7
<1>9. W \in [1..n -> S]
  BY <1>1, <1>5, <1>8
<1>20. QED
  BY <1>4, <1>6, <1>7, <1>9

\* Threads that agree with v and between them write every position write v.
LEMMA WrittenAll ==
  ASSUME NEW n \in Nat, NEW S, NEW buf \in [1..n -> S], NEW v \in [1..n -> S], NEW writes,
         Agree(writes, n, v),
         \A k \in 0..(n - 1) : \E w \in writes : w[1] = k
  PROVE  Written(buf, writes) = v
<1>1. PICK W : W = Written(buf, writes)
  OBVIOUS
<1>2. /\ W \in [1..n -> S]
      /\ \A i \in 1..n : Hit(writes, i) => W[i] = v[i]
  <2>1. Merge(buf, v, writes, n, S)
    BY DEF Merge
  <2>2. W \in [1..n -> S]
    BY <1>1, <2>1, WrittenIs
  <2>3. \A i \in 1..n : Hit(writes, i) => W[i] = v[i]
    BY <1>1, <2>1, WrittenIs
  <2>4. QED
    BY <2>2, <2>3
<1>3. \A i \in 1..n : Hit(writes, i)
  <2>1. \A i \in 1..n : i - 1 \in 0..(n - 1)
    OBVIOUS
  <2>2. QED
    BY <2>1 DEF Hit
<1>4. QED
  BY <1>1, <1>2, <1>3

\* Threads that write every position where v is not what the buffer had leave v.
LEMMA WrittenOver ==
  ASSUME NEW n, NEW S, NEW buf, NEW v, NEW writes, Merge(buf, v, writes, n, S),
         \A i \in 1..n : ~Hit(writes, i) => buf[i] = v[i]
  PROVE  Written(buf, writes) = v
<1>1. PICK W : W = Written(buf, writes)
  OBVIOUS
<1>2. W \in [1..n -> S]
  BY <1>1, WrittenIs
<1>3. \A i \in 1..n : Hit(writes, i) => W[i] = v[i]
  BY <1>1, WrittenIs
<1>4. \A i \in 1..n : ~Hit(writes, i) => W[i] = buf[i]
  BY <1>1, WrittenIs
<1>5. v \in [1..n -> S] /\ buf \in [1..n -> S] /\ n \in Nat
  BY DEF Merge
<1>6. QED
  BY <1>1, <1>2, <1>3, <1>4, <1>5

\* head has the axes of dims before its last two.
HeadOf(head, dims, n) ==
  dims \in Seq(Nat) /\ n = Len(dims) /\ n >= 2 /\ head = SubSeq(dims, 1, n - 2)

\* Those axes are a shape of its own.
LEMMA HeadFacts ==
  ASSUME NEW dims, NEW n, NEW head, HeadOf(head, dims, n)
  PROVE  /\ n \in Nat /\ n - 2 \in Nat /\ n >= 2 /\ n = Len(dims) /\ dims \in [1..n -> Nat]
         /\ dims \in Seq(Nat) /\ head \in Seq(Nat) /\ Len(head) = n - 2
         /\ \A a \in 1..(n - 2) : head[a] = dims[a]
<1>1. dims \in Seq(Nat) /\ n = Len(dims) /\ n >= 2 /\ n \in Nat /\ n - 2 \in Nat
  BY DEF HeadOf
<1>2. dims \in [1..n -> Nat] /\ \A a \in 1..(n - 2) : a \in 1..n
  BY <1>1
<1>3. head = [a \in 1..(n - 2) |-> dims[a]]
  BY <1>1, <1>2 DEF HeadOf
<1>4. head \in [1..(n - 2) -> Nat] /\ \A a \in 1..(n - 2) : head[a] = dims[a]
  BY <1>2, <1>3
<1>5. head \in Seq(Nat) /\ Len(head) = n - 2
  BY <1>1, <1>4
<1>6. QED
  BY <1>1, <1>2, <1>4, <1>5

\* Along x every column has its thread.
LEMMA ThreadColumns ==
  ASSUME NEW shape \in Seq(Nat), shape # <<>>
  PROVE  /\ Dim0(shape) \in Nat
         /\ Threads(shape)
              = (0..(Dim0(shape) - 1)) \X (0..(Dim1(shape) - 1)) \X (0..(Rest(shape) - 1))
<1>1. Len(shape) \in Nat /\ Len(shape) # 0
  OBVIOUS
<1>2. Dim0(shape) \in Nat
  BY <1>1 DEF Dim0
<1>3. PICK d \in Nat : d = Dim0(shape)
  BY <1>2
<1>4. PICK even : even = UNION {{2 * col, 2 * col + 1} : col \in 0..(d - 1)}
  OBVIOUS
<1>5. PICK xs : xs = IF Len(shape) <= 3 THEN 0..(d - 1) ELSE even \cap 0..(d - 1)
  OBVIOUS
<1>6. Threads(shape) = xs \X (0..(Dim1(shape) - 1)) \X (0..(Rest(shape) - 1))
  BY <1>3, <1>4, <1>5, Zenon DEF Threads
<1>7. xs = 0..(d - 1)
  <2>1. ASSUME NEW k \in 0..(d - 1) PROVE k \in even
    <3>1. k \div 2 \in 0..(d - 1) /\ (k = 2 * (k \div 2) \/ k = 2 * (k \div 2) + 1)
      OBVIOUS
    <3>2. QED
      BY <1>4, <3>1
  <2>2. even \cap (0..(d - 1)) = 0..(d - 1)
    BY <2>1
  <2>3. QED
    BY <1>5, <2>2
<1>8. QED
  BY <1>2, <1>3, <1>6, <1>7, Zenon

\* w is u with two more items, n in all.
TwoAppended(w, u, a, b, n) ==
  /\ n \in Nat /\ n >= 2 /\ u \in [1..(n - 2) -> Nat] /\ a \in Nat /\ b \in Nat
  /\ w = u \o <<a, b>>

\* An index of n axes, the last two of them appended.
LEMMA TwoMore ==
  ASSUME NEW w, NEW u, NEW a, NEW b, NEW n, TwoAppended(w, u, a, b, n)
  PROVE  /\ w \in [1..n -> Nat]
         /\ \A i \in 1..(n - 2) : w[i] = u[i]
         /\ w[n - 1] = a
         /\ w[n] = b
<1>1. PICK m \in Nat : m = n - 2
  BY DEF TwoAppended
<1>2. PICK h \in [1..m -> Nat] : h = u
  BY <1>1 DEF TwoAppended
<1>3. h \in Seq(Nat) /\ Len(h) = m /\ <<a, b>> \in Seq(Nat) /\ Len(<<a, b>>) = 2
  BY DEF TwoAppended
<1>4. w = h \o <<a, b>>
  BY <1>2 DEF TwoAppended
<1>5. w \in Seq(Nat) /\ Len(w) = n
  BY <1>1, <1>3, <1>4 DEF TwoAppended
<1>6. \A i \in 1..m : w[i] = h[i]
  BY <1>3, <1>4
<1>7. w[m + 1] = <<a, b>>[1] /\ w[m + 2] = <<a, b>>[2]
  BY <1>3, <1>4
<1>8. w[m + 1] = a /\ w[m + 2] = b
  BY <1>7
<1>9. w \in [1..n -> Nat]
  <2>1. \A k \in Nat, q \in Seq(Nat) : Len(q) = k => q \in [1..k -> Nat]
    OBVIOUS
  <2>2. n \in Nat
    BY DEF TwoAppended
  <2>3. QED
    BY <1>5, <2>1, <2>2, Zenon
<1>10. \A i \in 1..(n - 2) : w[i] = u[i]
  BY <1>1, <1>2, <1>6
<1>11. m + 1 = n - 1 /\ m + 2 = n
  <2>1. n \in Nat
    BY DEF TwoAppended
  <2>2. QED
    BY <1>1, <2>1
<1>12. w[n - 1] = a /\ w[n] = b
  BY <1>8, <1>11, Zenon
<1>13. QED
  BY <1>9, <1>10, <1>12

\* A product with two more axes, and the steps of the axes before them.
LEMMA TwoInner ==
  ASSUME NEW dims, NEW n, NEW head, HeadOf(head, dims, n)
  PROVE  /\ Block(dims, n) = 1 /\ Block(dims, n - 1) = dims[n]
         /\ Block(dims, n - 2) = dims[n - 1] * dims[n]
         /\ \A a \in 0..(n - 2) : Block(dims, a) = Block(head, a) * Block(dims, n - 2)
<1>1. /\ head \in Seq(Nat) /\ Len(head) = n - 2 /\ n - 2 \in Nat
      /\ dims \in Seq(Nat) /\ n \in Nat /\ Len(dims) = n
      /\ \A a \in 1..(n - 2) : head[a] = dims[a]
  BY HeadFacts
<1>2. n \in 1..n /\ n - 1 \in 1..n /\ (n - 1) - 1 = n - 2 /\ dims[n] \in Nat /\ dims[n - 1] \in Nat
  <2>1. n \in Nat /\ n >= 2 /\ dims \in [1..n -> Nat]
    BY HeadFacts
  <2>2. QED
    BY <2>1
<1>3. /\ Block(dims, n) = 1 /\ Block(dims, n - 1) = dims[n] * Block(dims, n)
      /\ Block(dims, n - 2) = dims[n - 1] * Block(dims, n - 1)
  BY <1>1, <1>2, BlockFacts
<1>4. Block(dims, n - 1) = dims[n]
  BY <1>2, <1>3
<1>5. PICK r \in Nat : r = Block(dims, n - 2)
  <2>1. n - 2 \in 0..n
    BY <1>1
  <2>2. QED
    BY <1>1, <2>1, BlockFacts
<1>6. PICK Q \in SUBSET Nat :
        Q = {k \in Nat : k <= n - 2 /\ Block(dims, n - 2 - k) # Block(head, n - 2 - k) * r}
  OBVIOUS
<1>7. ASSUME NEW k \in Q, \A j \in Q : k <= j PROVE FALSE
  <2>1. CASE k = 0
    <3>1. Block(head, n - 2) = 1
      BY <1>1, BlockFacts
    <3>2. n - 2 - 0 = n - 2 /\ 1 * r = r
      BY <1>1
    <3>3. QED
      BY <1>5, <1>6, <2>1, <3>1, <3>2
  <2>2. CASE k # 0
    <3>1. PICK j \in Nat : k = j + 1
      BY <1>6, <2>2
    <3>2. PICK a \in 1..(n - 2) : a = n - 2 - j /\ a - 1 = n - 2 - k
      BY <1>1, <1>6, <3>1
    <3>3. Block(dims, a) = Block(head, a) * r
      <4>1. j \notin Q /\ j <= n - 2
        BY <1>1, <1>6, <1>7, <3>1
      <4>2. QED
        BY <1>6, <3>2, <4>1
    <3>4. a \in 1..n /\ a \in 0..(n - 2) /\ head[a] = dims[a] /\ dims[a] \in Nat
      BY <1>1
    <3>5. Block(dims, a - 1) = dims[a] * Block(dims, a)
      BY <1>1, <3>4, BlockFacts
    <3>6. Block(head, a - 1) = head[a] * Block(head, a) /\ Block(head, a) \in Nat
      BY <1>1, <3>4, BlockFacts
    <3>7. PICK d \in Nat, b \in Nat : d = dims[a] /\ b = Block(head, a)
      BY <3>4, <3>6
    <3>8. d * (b * r) = (d * b) * r
      OBVIOUS
    <3>9. Block(dims, a - 1) = Block(head, a - 1) * r
      BY <3>3, <3>4, <3>5, <3>6, <3>7, <3>8
    <3>10. QED
      BY <1>6, <3>2, <3>9
  <2>3. QED
    BY <2>1, <2>2
<1>8. Q = {}
  BY <1>7, LeastNatural
<1>9. ASSUME NEW a \in 0..(n - 2) PROVE Block(dims, a) = Block(head, a) * r
  <2>1. n - 2 - a \in Nat /\ n - 2 - a <= n - 2 /\ n - 2 - (n - 2 - a) = a
    BY <1>1
  <2>2. QED
    BY <1>6, <1>8, <2>1
<1>10. QED
  BY <1>3, <1>4, <1>5, <1>9

\* u is r times s, item by item.
Multiple(u, s, n, r) == \A i \in 1..n : u[i] = s[i] * r

\* A sum of multiples is the multiple of the sum.
LEMMA TotalScale ==
  ASSUME NEW n \in Nat, NEW s \in [1..n -> Int], NEW r \in Int, NEW u \in [1..n -> Int],
         Multiple(u, s, n, r)
  PROVE  Total(u) = Total(s) * r
<1>1. PICK Q \in SUBSET Nat : Q = {k \in Nat : k <= n /\ Total(Pre(u, k)) # Total(Pre(s, k)) * r}
  OBVIOUS
<1>2. ASSUME NEW k \in Q, \A j \in Q : k <= j PROVE FALSE
  <2>1. CASE k = 0
    <3>1. Total(Pre(u, 0)) = 0 /\ Total(Pre(s, 0)) = 0
      BY CutFacts
    <3>2. 0 * r = 0
      OBVIOUS
    <3>3. QED
      BY <1>1, <2>1, <3>1, <3>2
  <2>2. CASE k # 0
    <3>1. k \in 1..n /\ k - 1 \in Nat /\ k - 1 \in 0..n /\ k - 1 <= n /\ k - 1 \notin Q
      BY <1>1, <1>2, <2>2
    <3>2. Total(Pre(u, k)) = Total(Pre(u, k - 1)) + u[k]
      BY <3>1, CutFacts
    <3>3. Total(Pre(s, k)) = Total(Pre(s, k - 1)) + s[k] /\ Total(Pre(s, k - 1)) \in Int
      BY <3>1, CutFacts
    <3>4. Total(Pre(u, k - 1)) = Total(Pre(s, k - 1)) * r
      BY <1>1, <3>1
    <3>5. PICK e \in Int, f \in Int : e = Total(Pre(s, k - 1)) /\ f = s[k]
      BY <3>1, <3>3
    <3>6. (e + f) * r = e * r + f * r
      OBVIOUS
    <3>7. u[k] = f * r
      BY <3>1, <3>5 DEF Multiple
    <3>8. Total(Pre(u, k)) = Total(Pre(s, k)) * r
      BY <3>2, <3>3, <3>4, <3>5, <3>6, <3>7
    <3>9. QED
      BY <1>1, <3>8
  <2>3. QED
    BY <2>1, <2>2
<1>3. Q = {}
  BY <1>2, LeastNatural
<1>4. Total(Pre(u, n)) = Total(Pre(s, n)) * r
  BY <1>1, <1>3
<1>5. Pre(u, n) = u /\ Pre(s, n) = s
  BY DEF Pre
<1>6. QED
  BY <1>4, <1>5

\* The sum of the dense steps of an index, its last two axes apart.
LEMMA FlattenTwoMore ==
  ASSUME NEW dims, NEW n, NEW head, HeadOf(head, dims, n),
         NEW idx, NEW u, NEW b, NEW a, TwoAppended(idx, u, b, a, n)
  PROVE  /\ Flatten(head, u) \in Nat
         /\ Flatten(dims, idx) = a + dims[n] * (b + dims[n - 1] * Flatten(head, u))
<1>1. /\ head \in Seq(Nat) /\ Len(head) = n - 2 /\ n - 2 \in Nat
      /\ dims \in Seq(Nat) /\ n \in Nat /\ Len(dims) = n /\ n >= 2 /\ dims \in [1..n -> Nat]
      /\ \A i \in 1..(n - 2) : head[i] = dims[i]
  BY HeadFacts
<1>2. PICK m \in Nat : m = n - 2
  BY <1>1
<1>3. n \in 1..n /\ n - 1 \in 1..n
  BY <1>1
<1>4. u \in [1..(n - 2) -> Nat] /\ a \in Nat /\ b \in Nat
  BY DEF TwoAppended
<1>5. /\ idx \in [1..n -> Nat] /\ idx[n - 1] = b /\ idx[n] = a
      /\ \A i \in 1..(n - 2) : idx[i] = u[i]
  <2>1. idx \in [1..n -> Nat]
    BY TwoMore
  <2>2. idx[n - 1] = b /\ idx[n] = a
    BY TwoMore
  <2>3. \A i \in 1..(n - 2) : idx[i] = u[i]
    BY TwoMore
  <2>4. QED
    BY <2>1, <2>2, <2>3
<1>6. PICK s : s = Steps(idx, Contiguous(dims))
  OBVIOUS
<1>7. /\ s \in [1..n -> Int]
      /\ \A i \in 1..n : s[i] = idx[i] * Block(dims, i)
  BY <1>1, <1>5, <1>6, DenseSteps
<1>8. Flatten(dims, idx) = Total(s)
  BY <1>1, <1>5, <1>6, FlattenIs
<1>9. /\ Block(dims, n) = 1 /\ Block(dims, n - 1) = dims[n]
      /\ Block(dims, n - 2) = dims[n - 1] * dims[n]
      /\ \A i \in 0..(n - 2) : Block(dims, i) = Block(head, i) * Block(dims, n - 2)
  BY TwoInner
<1>10. PICK d \in Nat, e \in Nat : d = dims[n] /\ e = dims[n - 1]
  BY <1>1, <1>3
<1>11. s[n] = a /\ s[n - 1] = b * d
  <2>1. n \in 1..n /\ n - 1 \in 1..n
    BY <1>3
  <2>2. QED
    BY <1>5, <1>7, <1>9, <1>10, <2>1
<1>12. n \in 1..n /\ n - 1 \in 1..n /\ (n - 1) - 1 = n - 2
  BY <1>1, <1>3
<1>13. Total(s) = Total(Pre(s, n - 2)) + s[n - 1] + s[n]
  <2>1. Total(Pre(s, n)) = Total(Pre(s, n - 1)) + s[n] /\ Total(Pre(s, n)) = Total(s)
    BY <1>1, <1>7, <1>12, CutFacts
  <2>2. Total(Pre(s, n - 1)) = Total(Pre(s, n - 2)) + s[n - 1]
    <3>1. PICK k \in 1..n : k = n - 1
      BY <1>12
    <3>2. Total(Pre(s, k)) = Total(Pre(s, k - 1)) + s[k]
      BY <1>1, <1>7, CutFacts
    <3>3. QED
      BY <1>12, <3>1, <3>2
  <2>3. QED
    BY <2>1, <2>2
<1>14. PICK z : z = Steps(u, Contiguous(head))
  OBVIOUS
<1>15. u \in [1..Len(head) -> Nat]
  BY <1>1, <1>4
<1>16. /\ z \in [1..(n - 2) -> Int]
       /\ \A i \in 1..(n - 2) : z[i] = u[i] * Block(head, i)
  BY <1>1, <1>14, <1>15, DenseSteps
<1>17. Flatten(head, u) = Total(z)
  BY <1>1, <1>14, <1>15, FlattenIs
<1>18. Total(z) \in Nat
  <2>1. Contiguous(head) \in [1..Len(head) -> Nat]
    BY <1>1, ContiguousFacts
  <2>2. QED
    BY <1>1, <1>14, <1>15, <2>1, StepsFacts
<1>19. Total(Pre(s, n - 2)) = Total(z) * (e * d)
  <2>1. PICK r \in Nat : r = e * d
    OBVIOUS
  <2>2. Block(dims, n - 2) = r
    BY <1>9, <1>10, <2>1
  <2>3. Pre(s, n - 2) \in [1..(n - 2) -> Int] /\ \A i \in 1..(n - 2) : Pre(s, n - 2)[i] = s[i]
    <3>1. \A i \in 1..(n - 2) : i \in 1..n
      BY <1>1
    <3>2. QED
      BY <1>7, <3>1 DEF Pre
  <2>4. ASSUME NEW i \in 1..(n - 2) PROVE Pre(s, n - 2)[i] = z[i] * r
    <3>1. i \in 1..n /\ i \in 0..(n - 2) /\ i \in 0..Len(head)
      BY <1>1
    <3>2. s[i] = u[i] * (Block(head, i) * r)
      BY <1>5, <1>7, <1>9, <2>2, <3>1
    <3>3. Block(head, i) \in Nat
      BY <1>1, <3>1, BlockFacts
    <3>4. PICK f \in Nat, g \in Nat : f = u[i] /\ g = Block(head, i)
      BY <1>4, <3>3
    <3>5. f * (g * r) = (f * g) * r
      OBVIOUS
    <3>6. QED
      BY <1>16, <2>3, <3>2, <3>4, <3>5
  <2>5. Total(Pre(s, n - 2)) = Total(z) * r
    <3>1. PICK w \in [1..m -> Int] : w = Pre(s, n - 2)
      BY <1>2, <2>3
    <3>2. PICK q \in [1..m -> Int] : q = z /\ \A i \in 1..m : w[i] = q[i] * r
      BY <1>2, <1>16, <2>4, <3>1
    <3>3. Total(w) = Total(z) * r
      <4>1. Multiple(w, q, m, r)
        BY <3>2 DEF Multiple
      <4>2. QED
        <5>1. Total(w) = Total(q) * r
          BY ONLY m \in Nat, r \in Nat, w \in [1..m -> Int], q \in [1..m -> Int], <4>1, TotalScale
        <5>2. QED
          BY <3>2, <5>1
    <3>4. QED
      BY <3>1, <3>3
  <2>6. QED
    BY <2>1, <2>5
<1>20. PICK t \in Nat : t = Total(z)
  BY <1>18
<1>21. t * (e * d) + b * d + a = a + d * (b + e * t)
  BY <1>4
<1>22. Flatten(dims, idx) = a + d * (b + e * t)
  <2>1. Total(s) = t * (e * d) + b * d + a
    BY <1>11, <1>13, <1>19, <1>20
  <2>2. QED
    BY <1>8, <1>21, <2>1
<1>23. QED
  BY <1>4, <1>10, <1>17, <1>18, <1>20, <1>22

\* With one axis, a thread's column is the index and the position.
LEMMA ThreadsOfOne ==
  ASSUME NEW shape \in Seq(Nat), Len(shape) = 1, NEW c \in Nat
  PROVE  /\ Rest(shape) = 1 /\ Dim1(shape) = 1 /\ Dim0(shape) = shape[1] /\ shape[1] \in Nat
         /\ <<c>> \in [1..1 -> Nat]
         /\ Flatten(shape, <<c>>) = c
<1>1. shape \in [1..1 -> Nat] /\ shape[1] \in Nat
  <2>1. PICK k \in Nat : k = Len(shape)
    OBVIOUS
  <2>2. shape \in [1..k -> Nat] /\ k = 1
    BY <2>1
  <2>3. QED
    BY <2>2
<1>2. Rest(shape) = 1
  <2>1. SubSeq(shape, 1, Len(shape) - 2) = <<>>
    BY <1>1
  <2>2. DOMAIN <<>> = {}
    OBVIOUS
  <2>3. Product(<<>>) = 1
    BY <2>2, ProductNone
  <2>4. QED
    BY <2>1, <2>3 DEF Rest
<1>3. Dim1(shape) = 1 /\ Dim0(shape) = shape[1]
  BY DEF Dim1, Dim0
<1>4. PICK idx : idx = <<c>>
  OBVIOUS
<1>5. idx \in [1..1 -> Nat] /\ idx[1] = c
  BY <1>4
<1>6. idx \in [1..Len(shape) -> Nat]
  BY <1>5
<1>7. PICK s : s = Steps(idx, Contiguous(shape))
  OBVIOUS
<1>8. /\ s \in [1..Len(shape) -> Int]
      /\ \A i \in 1..Len(shape) : s[i] = idx[i] * Block(shape, i)
  BY <1>6, <1>7, DenseSteps
<1>9. Block(shape, 1) = 1
  BY BlockFacts
<1>10. DOMAIN s = 1..1 /\ s[1] = c
  BY <1>5, <1>8, <1>9
<1>11. Total(s) = c
  BY <1>10, SingleItem
<1>12. Flatten(shape, idx) = c
  BY <1>6, <1>7, <1>11, FlattenIs
<1>13. QED
  BY <1>1, <1>2, <1>3, <1>4, <1>5, <1>12

\* The grid of shape has the axes before the last two in its third dimension.
Layered(shape, n, head) ==
  /\ Rest(shape) = Product(head) /\ Product(head) \in Nat
  /\ Dim1(shape) = shape[n - 1] /\ Dim0(shape) = shape[n]
  /\ shape[n - 1] \in Nat /\ shape[n] \in Nat
  /\ \A t : IndexOf(shape, t) = Unflatten(head, t[3]) \o <<t[2], t[1]>>

\* With more, the other axes are the digits of its layer.
LEMMA ThreadsOfMore ==
  ASSUME NEW shape, NEW n, NEW head, HeadOf(head, shape, n)
  PROVE  Layered(shape, n, head)
<1>1. n \in Nat /\ n = Len(shape) /\ n >= 2 /\ head = SubSeq(shape, 1, n - 2)
  BY HeadFacts DEF HeadOf
<1>2. shape \in [1..n -> Nat] /\ head \in Seq(Nat)
  BY HeadFacts
<1>3. n \in 1..n /\ n - 1 \in 1..n /\ n > 1 /\ n # 1
  BY <1>1
<1>4. Rest(shape) = Product(head)
  BY <1>1, Zenon DEF Rest
<1>5. Product(head) \in Nat
  BY <1>2, BlockFacts
<1>6. Dim1(shape) = shape[n - 1] /\ Dim0(shape) = shape[n]
  BY <1>1, <1>3 DEF Dim1, Dim0
<1>7. \A t : IndexOf(shape, t) = Unflatten(head, t[3]) \o <<t[2], t[1]>>
  BY <1>1, <1>3 DEF IndexOf
<1>8. shape[n - 1] \in Nat /\ shape[n] \in Nat
  BY <1>2, <1>3
<1>9. QED
  BY <1>4, <1>5, <1>6, <1>7, <1>8, Zenon DEF Layered

\* Every thread has an index of the shape, and the position it counts to on the
\* grid is that of the index.
LEMMA ThreadIndex ==
  ASSUME NEW shape \in Seq(Nat), shape # <<>>, NEW t \in Threads(shape)
  PROVE  /\ IndexOf(shape, t) \in Indices(shape)
         /\ GridPosition(shape, t) = Flatten(shape, IndexOf(shape, t))
<1>1. PICK n \in Nat : n = Len(shape)
  OBVIOUS
<1>2. n # 0
  BY <1>1
<1>3. /\ t[1] \in 0..(Dim0(shape) - 1) /\ t[2] \in 0..(Dim1(shape) - 1)
      /\ t[3] \in 0..(Rest(shape) - 1)
  BY ThreadColumns
<1>4. CASE n = 1
  <2>1. Rest(shape) = 1 /\ Dim1(shape) = 1 /\ Dim0(shape) = shape[1] /\ shape[1] \in Nat
    <3>1. 0 \in Nat
      OBVIOUS
    <3>2. QED
      BY <1>1, <1>4, <3>1, ThreadsOfOne
  <2>2. t[3] = 0 /\ t[2] = 0 /\ t[1] \in Nat /\ t[1] < shape[1]
    BY <1>3, <2>1
  <2>3. IndexOf(shape, t) = <<t[1]>>
    BY <1>1, <1>4 DEF IndexOf
  <2>4. PICK c \in Nat : c = t[1]
    BY <2>2
  <2>5. <<c>> \in [1..1 -> Nat] /\ Flatten(shape, <<c>>) = c
    BY <1>1, <1>4, ThreadsOfOne
  <2>6. <<c>> \in Indices(shape)
    <3>1. <<c>>[1] < shape[1]
      BY <2>2, <2>4
    <3>2. \A i \in 1..Len(shape) : i = 1
      BY <1>1, <1>4
    <3>3. \A i \in 1..Len(shape) : <<c>>[i] < shape[i]
      BY <3>1, <3>2
    <3>4. <<c>> \in [1..Len(shape) -> Nat]
      BY <1>1, <1>4, <2>5
    <3>5. QED
      BY <3>3, <3>4 DEF Indices
  <2>7. GridPosition(shape, t) = c
    BY <2>1, <2>2, <2>4 DEF GridPosition
  <2>8. QED
    BY <2>3, <2>4, <2>5, <2>6, <2>7
<1>5. CASE n # 1
  <2>1. PICK head : head = SubSeq(shape, 1, n - 2)
    OBVIOUS
  <2>2. HeadOf(head, shape, n)
    BY <1>1, <1>2, <1>5, <2>1 DEF HeadOf
  <2>3. /\ head \in Seq(Nat) /\ Len(head) = n - 2 /\ n - 2 \in Nat /\ n >= 2
        /\ \A i \in 1..(n - 2) : head[i] = shape[i]
    BY <2>2, HeadFacts
  <2>4. /\ Rest(shape) = Product(head) /\ Product(head) \in Nat
        /\ Dim1(shape) = shape[n - 1] /\ Dim0(shape) = shape[n]
        /\ shape[n - 1] \in Nat /\ shape[n] \in Nat
        /\ IndexOf(shape, t) = Unflatten(head, t[3]) \o <<t[2], t[1]>>
    <3>1. Layered(shape, n, head)
      BY <2>2, ThreadsOfMore, Zenon
    <3>2. IndexOf(shape, t) = Unflatten(head, t[3]) \o <<t[2], t[1]>>
      BY <3>1, Zenon DEF Layered
    <3>3. QED
      BY <3>1, <3>2, Zenon DEF Layered
  <2>5. PICK a \in Nat, b \in Nat : a = t[1] /\ b = t[2] /\ a < shape[n] /\ b < shape[n - 1]
    <3>1. t[1] \in 0..(shape[n] - 1) /\ t[2] \in 0..(shape[n - 1] - 1)
      BY <1>3, <2>4, Zenon
    <3>2. PICK d \in Nat, e \in Nat : d = shape[n] /\ e = shape[n - 1]
      BY <2>4
    <3>3. t[1] \in 0..(d - 1) /\ t[2] \in 0..(e - 1)
      BY <3>1, <3>2, Zenon
    <3>4. t[1] \in Nat /\ t[1] < d /\ t[2] \in Nat /\ t[2] < e
      BY ONLY <3>3, d \in Nat, e \in Nat
    <3>5. QED
      BY <3>2, <3>4
  <2>6. t[3] \in 0..(Product(head) - 1)
    BY <1>3, <2>4
  <2>7. PICK u : u = Unflatten(head, t[3])
    OBVIOUS
  <2>8. u \in Indices(head)
    BY <2>3, <2>4, <2>6, <2>7, UnflattenType
  <2>9. Flatten(head, u) = t[3]
    BY <2>3, <2>4, <2>6, <2>7, FlattenUnflatten
  <2>10. u \in [1..(n - 2) -> Nat] /\ \A i \in 1..(n - 2) : u[i] < shape[i]
    BY <2>3, <2>8 DEF Indices
  <2>11. PICK idx : idx = IndexOf(shape, t)
    OBVIOUS
  <2>12. TwoAppended(idx, u, b, a, n)
    BY <1>1, <2>3, <2>4, <2>5, <2>7, <2>10, <2>11 DEF TwoAppended
  <2>13. /\ idx \in [1..n -> Nat] /\ idx[n - 1] = b /\ idx[n] = a
         /\ \A i \in 1..(n - 2) : idx[i] = u[i]
    <3>1. idx \in [1..n -> Nat]
      BY <2>12, TwoMore
    <3>2. idx[n - 1] = b /\ idx[n] = a
      BY <2>12, TwoMore
    <3>3. \A i \in 1..(n - 2) : idx[i] = u[i]
      BY <2>12, TwoMore
    <3>4. QED
      BY <3>1, <3>2, <3>3
  <2>14. \A i \in 1..n : idx[i] < shape[i]
    <3>1. \A i \in 1..n : i \in 1..(n - 2) \/ i = n - 1 \/ i = n
      BY <2>3
    <3>2. QED
      BY <2>5, <2>10, <2>13, <3>1
  <2>15. idx \in Indices(shape)
    BY <1>1, <2>13, <2>14 DEF Indices
  <2>16. Flatten(shape, idx) = a + shape[n] * (b + shape[n - 1] * Flatten(head, u))
    BY <2>2, <2>12, FlattenTwoMore
  <2>17. GridPosition(shape, t) = a + shape[n] * (b + shape[n - 1] * t[3])
    BY <2>4, <2>5 DEF GridPosition
  <2>18. QED
    BY <2>9, <2>11, <2>15, <2>16, <2>17
<1>6. QED
  BY <1>4, <1>5

\* Every index of the shape has its thread.
LEMMA IndexThread ==
  ASSUME NEW shape \in Seq(Nat), shape # <<>>, NEW idx \in Indices(shape)
  PROVE  \E t \in Threads(shape) : IndexOf(shape, t) = idx
<1>1. PICK n \in Nat : n = Len(shape)
  OBVIOUS
<1>2. n # 0
  BY <1>1
<1>3. /\ idx \in [1..n -> Nat] /\ \A i \in 1..n : idx[i] < shape[i]
      /\ shape \in [1..n -> Nat]
  BY <1>1 DEF Indices
<1>4. CASE n = 1
  <2>1. Rest(shape) = 1 /\ Dim1(shape) = 1 /\ Dim0(shape) = shape[1] /\ shape[1] \in Nat
    <3>1. 0 \in Nat
      OBVIOUS
    <3>2. QED
      BY <1>1, <1>4, <3>1, ThreadsOfOne
  <2>2. PICK t : t = <<idx[1], 0, 0>>
    OBVIOUS
  <2>3. 1 \in 1..n
    BY <1>4
  <2>4. /\ idx[1] \in 0..(Dim0(shape) - 1) /\ 0 \in 0..(Dim1(shape) - 1)
        /\ 0 \in 0..(Rest(shape) - 1)
    BY <1>3, <2>1, <2>3
  <2>5. t \in Threads(shape)
    BY <2>2, <2>4, ThreadColumns
  <2>6. <<idx[1]>> = idx
    BY <1>3, <1>4
  <2>7. IndexOf(shape, t) = <<idx[1]>>
    BY <1>1, <1>4, <2>2 DEF IndexOf
  <2>8. QED
    BY <2>5, <2>6, <2>7
<1>5. CASE n # 1
  <2>1. PICK head : head = SubSeq(shape, 1, n - 2)
    OBVIOUS
  <2>2. HeadOf(head, shape, n)
    BY <1>1, <1>2, <1>5, <2>1 DEF HeadOf
  <2>3. /\ head \in Seq(Nat) /\ Len(head) = n - 2 /\ n - 2 \in Nat /\ n >= 2
        /\ \A i \in 1..(n - 2) : head[i] = shape[i]
    BY <2>2, HeadFacts
  <2>4. /\ Rest(shape) = Product(head) /\ Product(head) \in Nat
        /\ Dim1(shape) = shape[n - 1] /\ Dim0(shape) = shape[n]
        /\ \A t : IndexOf(shape, t) = Unflatten(head, t[3]) \o <<t[2], t[1]>>
    BY <2>2, ThreadsOfMore, SMTT(40) DEF Layered
  <2>5. PICK u : u = [i \in 1..(n - 2) |-> idx[i]]
    OBVIOUS
  <2>6. \A i \in 1..(n - 2) : i \in 1..n
    BY <2>3
  <2>7. u \in Indices(head)
    BY <1>3, <2>3, <2>5, <2>6 DEF Indices
  <2>8. PICK z : z = Flatten(head, u)
    OBVIOUS
  <2>9. z \in Nat /\ z < Product(head)
    BY <2>3, <2>7, <2>8, FlattenBelow
  <2>10. Unflatten(head, z) = u
    BY <2>3, <2>7, <2>8, UnflattenFlatten
  <2>11. n \in 1..n /\ n - 1 \in 1..n
    BY <2>3
  <2>12. PICK t : t = <<idx[n], idx[n - 1], z>>
    OBVIOUS
  <2>13. /\ idx[n] \in 0..(Dim0(shape) - 1) /\ idx[n - 1] \in 0..(Dim1(shape) - 1)
         /\ z \in 0..(Rest(shape) - 1)
    BY <1>3, <2>4, <2>9, <2>11
  <2>14. t \in Threads(shape)
    BY <2>12, <2>13, ThreadColumns
  <2>15. IndexOf(shape, t) = u \o <<idx[n - 1], idx[n]>>
    <3>1. t[1] = idx[n] /\ t[2] = idx[n - 1] /\ t[3] = z
      BY <2>12
    <3>2. IndexOf(shape, t) = Unflatten(head, t[3]) \o <<t[2], t[1]>>
      BY <2>4, Zenon
    <3>3. QED
      BY <2>10, <3>1, <3>2, Zenon
  <2>16. PICK a \in Nat, b \in Nat : a = idx[n] /\ b = idx[n - 1]
    BY <1>3, <2>11
  <2>17. PICK w : w = IndexOf(shape, t)
    OBVIOUS
  <2>18. TwoAppended(w, u, b, a, n)
    <3>1. u \in [1..(n - 2) -> Nat]
      BY <2>3, <2>7 DEF Indices
    <3>2. QED
      BY <1>1, <2>3, <2>15, <2>16, <2>17, <3>1 DEF TwoAppended
  <2>19. w \in [1..n -> Nat]
    BY <2>18, TwoMore
  <2>20. w[n - 1] = b /\ w[n] = a
    BY <2>18, TwoMore
  <2>21. \A i \in 1..(n - 2) : w[i] = u[i]
    BY <2>18, TwoMore
  <2>22. \A i \in 1..n : w[i] = idx[i]
    <3>1. \A i \in 1..n : i \in 1..(n - 2) \/ i = n - 1 \/ i = n
      BY <2>3
    <3>2. QED
      BY <2>5, <2>16, <2>20, <2>21, <3>1
  <2>23. w = idx
    BY <1>3, <2>19, <2>22
  <2>24. QED
    BY <2>14, <2>17, <2>23
<1>6. QED
  BY <1>4, <1>5

\* A fresh output buffer.
LEMMA OutFacts ==
  ASSUME NEW dims \in Seq(Nat)
  PROVE  /\ Product(dims) \in Nat
         /\ Out(dims) \in [1..Product(dims) -> Value]
         /\ Len(Out(dims)) = Product(dims)
<1>1. PICK p \in Nat : p = Product(dims)
  BY BlockFacts
<1>2. Junk \in Value
  BY DEF Junk, Value
<1>3. Out(dims) = [i \in 1..p |-> Junk]
  BY <1>1 DEF Out, Fresh
<1>4. Out(dims) \in [1..p -> Value] /\ DOMAIN Out(dims) = 1..p
  BY <1>2, <1>3
<1>5. Len(Out(dims)) = p
  BY <1>4, LenIs
<1>6. QED
  BY <1>1, <1>4, <1>5

\* A kernel that follows the offset and the strides of t reads what t says.
LEMMA StridedRead ==
  ASSUME NEW t, NEW v, Holds(t, v), NEW idx \in Indices(t.dims)
  PROVE  /\ Read(t.store, t.off + Along(t.strides, idx)) = ValueAt(v, t.dims, idx)
         /\ Along(Contiguous(t.dims), idx) = Flatten(t.dims, idx)
<1>1. Along(t.strides, idx) = Total(Steps(idx, t.strides))
  BY DEF Along, Steps
<1>2. t.off + Along(t.strides, idx) = Address(t, idx)
  BY <1>1, AddressIs
<1>3. /\ Address(t, idx) \in 0..(Len(t.store) - 1)
      /\ t.store[Address(t, idx) + 1] = v[Flatten(t.dims, idx) + 1]
  BY DEF Holds
<1>4. Along(Contiguous(t.dims), idx) = Total(Steps(idx, Contiguous(t.dims)))
  BY DEF Along, Steps
<1>5. t.dims \in Seq(Nat) /\ idx \in [1..Len(t.dims) -> Nat]
  BY DEF Holds, WellFormed, Indices
<1>6. QED
  BY <1>2, <1>3, <1>4, <1>5, FlattenIs DEF Read, ValueAt

\* One write per thread: at the position of its index, what v has there.
Copies(shape, writes, v) ==
  /\ \A w \in writes : \E t \in Threads(shape) :
       /\ w[1] = Flatten(shape, IndexOf(shape, t))
       /\ w[2] = ValueAt(v, shape, IndexOf(shape, t))
  /\ \A t \in Threads(shape) : \E w \in writes : w[1] = Flatten(shape, IndexOf(shape, t))

\* Such a dispatch leaves v in a fresh buffer.
LEMMA GridWrites ==
  ASSUME NEW shape \in Seq(Nat), shape # <<>>, NEW v \in [1..Product(shape) -> Value],
         NEW writes, Copies(shape, writes, v)
  PROVE  Written(Out(shape), writes) = v
<1>1. PICK p \in Nat : p = Product(shape)
  BY BlockFacts
<1>2. Out(shape) \in [1..p -> Value] /\ v \in [1..p -> Value]
  BY <1>1, OutFacts
<1>3. \A w \in writes : w[1] \in 0..(p - 1) /\ w[2] = v[w[1] + 1]
  <2>1. SUFFICES ASSUME NEW w \in writes PROVE w[1] \in 0..(p - 1) /\ w[2] = v[w[1] + 1]
    OBVIOUS
  <2>2. PICK t \in Threads(shape) : /\ w[1] = Flatten(shape, IndexOf(shape, t))
                                    /\ w[2] = ValueAt(v, shape, IndexOf(shape, t))
    BY DEF Copies
  <2>3. IndexOf(shape, t) \in Indices(shape)
    BY ThreadIndex
  <2>4. w[1] \in Nat /\ w[1] < p
    BY <1>1, <2>2, <2>3, FlattenBelow
  <2>5. w[2] = v[w[1] + 1]
    BY <2>2 DEF ValueAt
  <2>6. QED
    BY <2>4, <2>5
<1>4. ASSUME NEW k \in 0..(p - 1) PROVE \E w \in writes : w[1] = k
  <2>1. PICK idx \in Indices(shape) : Flatten(shape, idx) = k
    BY <1>1, UnflattenType, FlattenUnflatten
  <2>2. PICK t \in Threads(shape) : IndexOf(shape, t) = idx
    BY IndexThread
  <2>3. PICK w \in writes : w[1] = Flatten(shape, IndexOf(shape, t))
    BY DEF Copies
  <2>4. QED
    BY <2>1, <2>2, <2>3
<1>5. Agree(writes, p, v)
  BY <1>3 DEF Agree
<1>6. QED
  BY <1>2, <1>4, <1>5, WrittenAll

\* copy leaves the values of its input in the output buffer, through any view;
\* a view of rank 0 is refused.
LEMMA CopyComputes ==
  ASSUME NEW t, NEW v, Holds(t, v)
  PROVE  /\ t.view /\ t.dims = <<>> => DispatchCopy(t) = Refused
         /\ ~(t.view /\ t.dims = <<>>) => DispatchCopy(t) = v
<1>1. PICK dims \in Seq(Nat) : dims = t.dims
  BY DEF Holds, WellFormed
<1>2. v \in [1..Product(dims) -> Value]
  BY <1>1 DEF Holds
<1>3. CASE t.view /\ t.dims = <<>>
  BY <1>3 DEF DispatchCopy, EncodeGCopy
<1>4. CASE t.view /\ t.dims # <<>>
  <2>1. PICK writes : writes = {<<0 + Along(Contiguous(dims), IndexOf(dims, th)),
                                  Read(t.store, t.off + Along(t.strides, IndexOf(dims, th)))>> :
                                  th \in Threads(dims)}
    OBVIOUS
  <2>2. DispatchCopy(t) = Written(Out(dims), writes)
    BY <1>1, <1>4, <2>1 DEF DispatchCopy, EncodeGCopy, Storage
  <2>3. ASSUME NEW th \in Threads(dims)
        PROVE  /\ 0 + Along(Contiguous(dims), IndexOf(dims, th)) = Flatten(dims, IndexOf(dims, th))
               /\ Read(t.store, t.off + Along(t.strides, IndexOf(dims, th)))
                    = ValueAt(v, dims, IndexOf(dims, th))
    <3>1. PICK idx \in Indices(dims) : idx = IndexOf(dims, th)
      BY <1>1, <1>4, ThreadIndex
    <3>2. Along(Contiguous(dims), idx) = Flatten(dims, idx)
      BY <1>1, <3>1, StridedRead
    <3>3. Read(t.store, t.off + Along(t.strides, idx)) = ValueAt(v, dims, idx)
      BY <1>1, <3>1, StridedRead
    <3>4. Flatten(dims, idx) \in Nat
      BY <3>1, FlattenBelow
    <3>5. QED
      BY <3>1, <3>2, <3>3, <3>4
  <2>4. Copies(dims, writes, v)
    <3>1. ASSUME NEW w \in writes
          PROVE  \E th \in Threads(dims) : /\ w[1] = Flatten(dims, IndexOf(dims, th))
                                           /\ w[2] = ValueAt(v, dims, IndexOf(dims, th))
      <4>1. PICK th \in Threads(dims) :
              w = <<0 + Along(Contiguous(dims), IndexOf(dims, th)),
                    Read(t.store, t.off + Along(t.strides, IndexOf(dims, th)))>>
        BY <2>1
      <4>2. PICK a, b : /\ a = 0 + Along(Contiguous(dims), IndexOf(dims, th))
                        /\ b = Read(t.store, t.off + Along(t.strides, IndexOf(dims, th)))
        OBVIOUS
      <4>3. w = <<a, b>>
        BY <4>1, <4>2
      <4>4. w[1] = a /\ w[2] = b
        BY <4>3
      <4>5. QED
        BY <2>3, <4>2, <4>4, Zenon
    <3>2. ASSUME NEW th \in Threads(dims)
          PROVE  \E w \in writes : w[1] = Flatten(dims, IndexOf(dims, th))
      <4>1. PICK a, b : /\ a = 0 + Along(Contiguous(dims), IndexOf(dims, th))
                        /\ b = Read(t.store, t.off + Along(t.strides, IndexOf(dims, th)))
        OBVIOUS
      <4>2. <<a, b>> \in writes
        BY <2>1, <4>1
      <4>3. PICK w \in writes : w = <<a, b>>
        BY <4>2
      <4>4. w[1] = a
        BY <4>3
      <4>5. QED
        BY <2>3, <4>1, <4>4, Zenon
    <3>3. QED
      BY <3>1, <3>2 DEF Copies
  <2>5. Written(Out(dims), writes) = v
    BY <1>1, <1>2, <1>4, <2>4, GridWrites
  <2>6. QED
    BY <1>4, <2>2, <2>5
<1>5. CASE ~t.view
  <2>1. t.off = 0 /\ t.strides = Contiguous(t.dims) /\ Len(t.store) = Product(t.dims)
    BY <1>5 DEF Holds, DenseUnlessView
  <2>2. t.store = v
    BY <2>1, OwnedStore
  <2>3. Len(Out(t.dims)) = Product(t.dims)
    BY <1>1, OutFacts
  <2>4. QED
    BY <1>5, <2>1, <2>2, <2>3 DEF DispatchCopy, EncodeVCopy
<1>6. QED
  BY <1>3, <1>4, <1>5

\* So does cast; a view of another rank than 1, 2 or 3 is refused.
LEMMA CastComputes ==
  ASSUME NEW t, NEW v, Holds(t, v)
  PROVE  /\ t.view /\ Rank(t) \notin 1..3 => DispatchCast(t) = Refused
         /\ ~(t.view /\ Rank(t) \notin 1..3) => DispatchCast(t) = v
<1>1. PICK dims \in Seq(Nat) : dims = t.dims
  BY DEF Holds, WellFormed
<1>2. v \in [1..Product(dims) -> Value]
  BY <1>1 DEF Holds
<1>3. CASE t.view /\ Rank(t) \notin 1..3
  BY <1>3 DEF DispatchCast, EncodeGeneralCopy, Rank
<1>4. CASE t.view /\ Rank(t) \in 1..3
  <2>1. PICK writes : writes = {<<0 + GridPosition(dims, th),
                                  Read(t.store, t.off + Along(t.strides, IndexOf(dims, th)))>> :
                                  th \in Threads(dims)}
    OBVIOUS
  <2>2. DispatchCast(t) = Written(Out(dims), writes)
    BY <1>1, <1>4, <2>1 DEF DispatchCast, EncodeGeneralCopy, Storage, Rank
  <2>3. dims # <<>>
    BY <1>1, <1>4 DEF Rank
  <2>4. ASSUME NEW th \in Threads(dims)
        PROVE  /\ 0 + GridPosition(dims, th) = Flatten(dims, IndexOf(dims, th))
               /\ Read(t.store, t.off + Along(t.strides, IndexOf(dims, th)))
                    = ValueAt(v, dims, IndexOf(dims, th))
    <3>1. PICK idx \in Indices(dims) : idx = IndexOf(dims, th)
      BY <2>3, ThreadIndex
    <3>2. GridPosition(dims, th) = Flatten(dims, idx)
      BY <2>3, <3>1, ThreadIndex
    <3>3. Read(t.store, t.off + Along(t.strides, idx)) = ValueAt(v, dims, idx)
      BY <1>1, <3>1, StridedRead
    <3>4. Flatten(dims, idx) \in Nat
      BY <3>1, FlattenBelow
    <3>5. QED
      BY <3>1, <3>2, <3>3, <3>4
  <2>5. Copies(dims, writes, v)
    <3>1. ASSUME NEW w \in writes
          PROVE  \E th \in Threads(dims) : /\ w[1] = Flatten(dims, IndexOf(dims, th))
                                           /\ w[2] = ValueAt(v, dims, IndexOf(dims, th))
      <4>1. PICK th \in Threads(dims) :
              w = <<0 + GridPosition(dims, th),
                    Read(t.store, t.off + Along(t.strides, IndexOf(dims, th)))>>
        BY <2>1
      <4>2. PICK a, b : /\ a = 0 + GridPosition(dims, th)
                        /\ b = Read(t.store, t.off + Along(t.strides, IndexOf(dims, th)))
        OBVIOUS
      <4>3. w = <<a, b>>
        BY <4>1, <4>2
      <4>4. w[1] = a /\ w[2] = b
        BY <4>3
      <4>5. QED
        BY <2>4, <4>2, <4>4, Zenon
    <3>2. ASSUME NEW th \in Threads(dims)
          PROVE  \E w \in writes : w[1] = Flatten(dims, IndexOf(dims, th))
      <4>1. PICK a, b : /\ a = 0 + GridPosition(dims, th)
                        /\ b = Read(t.store, t.off + Along(t.strides, IndexOf(dims, th)))
        OBVIOUS
      <4>2. <<a, b>> \in writes
        BY <2>1, <4>1
      <4>3. PICK w \in writes : w = <<a, b>>
        BY <4>2
      <4>4. w[1] = a
        BY <4>3
      <4>5. QED
        BY <2>4, <4>1, <4>4, Zenon
    <3>3. QED
      BY <3>1, <3>2 DEF Copies
  <2>6. Written(Out(dims), writes) = v
    BY <1>1, <1>2, <2>3, <2>5, GridWrites
  <2>7. QED
    BY <1>4, <2>2, <2>6
<1>5. CASE ~t.view
  <2>1. t.off = 0 /\ t.strides = Contiguous(t.dims) /\ Len(t.store) = Product(t.dims)
    BY <1>5 DEF Holds, DenseUnlessView
  <2>2. t.store = v
    BY <2>1, OwnedStore
  <2>3. Len(Out(t.dims)) = Product(t.dims)
    BY <1>1, OutFacts
  <2>4. QED
    BY <1>5, <2>1, <2>2, <2>3 DEF DispatchCast, EncodeVCopy
<1>6. QED
  BY <1>3, <1>4, <1>5

\* A tensor that owns its storage, dense and row-major, holds it.
LEMMA OwnerHolds ==
  ASSUME NEW dims \in Seq(Nat), NEW dtype, NEW leaf \in BOOLEAN,
         NEW v \in [1..Product(dims) -> Value],
         NEW t, t = Strided(dims, Contiguous(dims), 0, FALSE, dtype, leaf, v)
  PROVE  Holds(t, v)
<1>1. t.dims = dims /\ t.strides = Contiguous(dims) /\ t.off = 0 /\ t.store = v
  BY DEF Strided
<1>2. /\ t.view = FALSE /\ t.leaf = leaf
      /\ t = Strided(t.dims, t.strides, t.off, t.view, t.dtype, t.leaf, t.store)
  <2>1. t.view = FALSE /\ t.leaf = leaf /\ t.dtype = dtype
    BY DEF Strided
  <2>2. QED
    BY <1>1, <2>1, Zenon
<1>3. PICK p \in Nat : p = Product(dims)
  BY BlockFacts
<1>4. v \in Seq(Value) /\ Len(v) = p
  BY <1>3
<1>5. Contiguous(dims) \in [1..Len(dims) -> Nat]
  BY ContiguousFacts
<1>6. WellFormed(t)
  <2>1. t.strides \in [1..Len(t.dims) -> Nat] /\ t.dims \in Seq(Nat) /\ t.store \in Seq(Value)
    BY <1>1, <1>4, <1>5
  <2>2. t.view \in BOOLEAN /\ t.leaf \in BOOLEAN /\ t.off \in Nat
    <3>1. t.off \in Nat
      BY ONLY <1>1
    <3>2. t.view \in BOOLEAN /\ t.leaf \in BOOLEAN
      BY <1>2, Zenon
    <3>3. QED
      BY <3>1, <3>2
  <2>3. QED
    BY <1>2, <2>1, <2>2 DEF WellFormed
<1>7. DenseUnlessView(t)
  BY <1>1, <1>2, <1>3, <1>4 DEF DenseUnlessView
<1>8. ASSUME NEW idx \in Indices(t.dims)
      PROVE  /\ Address(t, idx) \in 0..(Len(t.store) - 1)
             /\ t.store[Address(t, idx) + 1] = v[Flatten(t.dims, idx) + 1]
  <2>1. Address(t, idx) = 0 + Flatten(dims, idx)
    BY <1>1, DenseAddress
  <2>2. Flatten(dims, idx) \in Nat /\ Flatten(dims, idx) < p
    BY <1>1, <1>3, FlattenBelow
  <2>3. Address(t, idx) \in 0..(p - 1) /\ Len(t.store) = p
    BY ONLY <1>1, <1>3, <1>4, <2>1, <2>2
  <2>4. t.store[Address(t, idx) + 1] = v[Flatten(t.dims, idx) + 1]
    BY ONLY <1>1, <2>1, <2>2
  <2>5. QED
    BY <2>3, <2>4, Zenon
<1>9. QED
  BY <1>1, <1>6, <1>7, <1>8 DEF Holds

\* A dense tensor holds its buffer.
LEMMA DenseHolds ==
  ASSUME NEW dims \in Seq(Nat), NEW dtype, NEW v \in [1..Product(dims) -> Value]
  PROVE  Holds(Dense(dims, dtype, v), v)
<1>1. Dense(dims, dtype, v) = Strided(dims, Contiguous(dims), 0, FALSE, dtype, FALSE, v)
  BY DEF Dense, Strided
<1>2. QED
  BY <1>1, OwnerHolds

\* The last axis counts one, the one before as many as it is long.
LEMMA FlattenThree ==
  ASSUME NEW dims \in Seq(Nat), Len(dims) = 3, NEW idx \in [1..3 -> Nat]
  PROVE  Flatten(dims, idx) = idx[3] + dims[3] * (idx[2] + dims[2] * idx[1])
<1>1. PICK head : head = SubSeq(dims, 1, 3 - 2)
  OBVIOUS
<1>2. HeadOf(head, dims, 3)
  BY <1>1 DEF HeadOf
<1>3. head \in Seq(Nat) /\ Len(head) = 3 - 2
  BY <1>2, HeadFacts
<1>4. PICK a \in Nat, b \in Nat, c \in Nat : a = idx[1] /\ b = idx[2] /\ c = idx[3]
  OBVIOUS
<1>5. PICK u : u = <<a>>
  OBVIOUS
<1>6. u \in [1..1 -> Nat]
  BY <1>5
<1>7. idx = u \o <<b, c>>
  BY <1>4, <1>5
<1>8. TwoAppended(idx, u, b, c, 3)
  BY <1>6, <1>7 DEF TwoAppended
<1>9. Flatten(dims, idx) = c + dims[3] * (b + dims[3 - 1] * Flatten(head, u))
  BY <1>2, <1>8, FlattenTwoMore
<1>10. Flatten(head, u) = a
  <2>1. Len(head) = 1
    BY <1>3
  <2>2. QED
    BY <1>3, <1>5, <2>1, ThreadsOfOne
<1>11. QED
  BY <1>4, <1>9, <1>10

\* The row of y that slice_update writes to row idx of x; a fourth axis of y
\* has one element.
Source(idx, offset, n) ==
  <<idx[1] - offset>> \o Tail(idx) \o [j \in 1..(n - 3) |-> 0]

\* w is p, of m items, and q, of k.
Joins(w, p, q, m, k) ==
  /\ m \in Nat /\ k \in Nat
  /\ p \in Seq(Nat) /\ Len(p) = m
  /\ q \in Seq(Nat) /\ Len(q) = k
  /\ w = p \o q

\* The items of a concatenation.
LEMMA Joined ==
  ASSUME NEW w, NEW p, NEW q, NEW m, NEW k, Joins(w, p, q, m, k)
  PROVE  /\ w \in Seq(Nat) /\ Len(w) = m + k
         /\ w \in [1..(m + k) -> Nat]
         /\ \A i \in 1..m : w[i] = p[i]
         /\ \A i \in 1..k : w[m + i] = q[i]
<1>1. m \in Nat /\ k \in Nat
  BY DEF Joins
<1>2. PICK r \in Seq(Nat), u \in Seq(Nat) : r = p /\ u = q /\ Len(r) = m /\ Len(u) = k
  BY DEF Joins
<1>3. w = r \o u
  BY <1>2 DEF Joins
<1>4. w \in Seq(Nat) /\ Len(w) = m + k
  <2>1. w \in Seq(Nat)
    BY <1>3
  <2>2. Len(w) = Len(r) + Len(u)
    BY <1>3
  <2>3. QED
    BY <1>2, <2>1, <2>2, Zenon
<1>5. w \in [1..(m + k) -> Nat]
  <2>1. \A c \in Nat, h \in Seq(Nat) : Len(h) = c => h \in [1..c -> Nat]
    OBVIOUS
  <2>2. m + k \in Nat
    BY <1>1
  <2>3. QED
    BY <1>4, <2>1, <2>2, Zenon
<1>6. \A i \in 1..m : w[i] = r[i]
  BY <1>1, <1>2, <1>3
<1>7. \A i \in 1..k : w[m + i] = u[i]
  BY <1>1, <1>2, <1>3
<1>8. QED
  BY <1>2, <1>4, <1>5, <1>6, <1>7

\* The same row, item by item.
LEMMA SourceFacts ==
  ASSUME NEW idx \in [1..3 -> Nat], NEW o \in Nat, idx[1] >= o, NEW n \in {3, 4}
  PROVE  /\ Source(idx, o, n) \in [1..n -> Nat]
         /\ Source(idx, o, n)[1] = idx[1] - o
         /\ Source(idx, o, n)[2] = idx[2]
         /\ Source(idx, o, n)[3] = idx[3]
         /\ n = 4 => Source(idx, o, n)[4] = 0
<1>1. PICK a \in Nat, b \in Nat, c \in Nat : a = idx[1] - o /\ b = idx[2] /\ c = idx[3]
  OBVIOUS
<1>2. PICK e \in Nat : e = idx[1]
  OBVIOUS
<1>3. idx = <<e, b, c>>
  BY <1>1, <1>2
<1>4. Tail(idx) = <<b, c>>
  BY <1>3
<1>5. PICK z : z = [j \in 1..(n - 3) |-> 0]
  OBVIOUS
<1>6. z \in Seq(Nat) /\ Len(z) = n - 3 /\ n - 3 \in Nat
  BY <1>5
<1>7. PICK p : p = <<a>>
  OBVIOUS
<1>8. PICK q : q = <<b, c>>
  OBVIOUS
<1>9. PICK w : w = p \o q
  OBVIOUS
<1>10. p \in Seq(Nat) /\ Len(p) = 1 /\ p[1] = a
  BY <1>7
<1>11. q \in Seq(Nat) /\ Len(q) = 2 /\ q[1] = b /\ q[2] = c
  BY <1>8
<1>12. Joins(w, p, q, 1, 2)
  BY <1>9, <1>10, <1>11 DEF Joins
<1>13. w \in Seq(Nat) /\ Len(w) = 1 + 2
  BY <1>12, Joined, SMTT(40)
<1>14. w[1] = a /\ w[2] = b /\ w[3] = c
  <2>1. \A i \in 1..1 : w[i] = p[i]
    BY <1>12, Joined
  <2>2. \A i \in 1..2 : w[1 + i] = q[i]
    BY <1>12, Joined, SMTT(40)
  <2>3. QED
    BY <1>10, <1>11, <2>1, <2>2
<1>15. Source(idx, o, n) = w \o z
  BY <1>1, <1>4, <1>5, <1>7, <1>8, <1>9, Zenon DEF Source
<1>16. PICK g : g = w \o z
  OBVIOUS
<1>17. Joins(g, w, z, 3, n - 3)
  BY <1>6, <1>13, <1>16 DEF Joins
<1>18. g \in [1..n -> Nat]
  <2>1. g \in [1..(3 + (n - 3)) -> Nat]
    BY <1>17, Joined
  <2>2. 3 + (n - 3) = n
    OBVIOUS
  <2>3. QED
    BY <2>1, <2>2, Zenon
<1>19. \A i \in 1..3 : g[i] = w[i]
  BY <1>17, Joined, SMTT(40)
<1>20. ASSUME n = 4 PROVE g[4] = 0
  <2>1. Len(z) = 1 /\ z[1] = 0
    BY <1>5, <1>6, <1>20
  <2>2. \A i \in 1..(n - 3) : g[3 + i] = z[i]
    BY <1>17, Joined, SMTT(40)
  <2>3. QED
    BY <1>20, <2>1, <2>2
<1>21. Source(idx, o, n) = g
  BY <1>15, <1>16, Zenon
<1>22. g[1] = idx[1] - o /\ g[2] = idx[2] /\ g[3] = idx[3]
  BY <1>1, <1>14, <1>19
<1>23. QED
  BY <1>18, <1>20, <1>21, <1>22, Zenon

\* Reading three axes of a tensor of rank 3, or of rank 4 with one element
\* along the last.
LEMMA LeadingRead ==
  ASSUME NEW t, NEW v, Holds(t, v), NEW n \in {3, 4}, n = Len(t.dims), n = 4 => t.dims[4] = 1,
         NEW idx \in [1..3 -> Nat], NEW old \in Indices(t.dims),
         \A a \in 1..3 : old[a] = idx[a]
  PROVE  Read(t.store, t.off + Along(SubSeq(t.strides, 1, 3), idx)) = ValueAt(v, t.dims, old)
<1>1. PICK strides \in [1..n -> Nat] : strides = t.strides
  BY DEF Holds, WellFormed
<1>2. PICK lead : lead = SubSeq(strides, 1, 3)
  OBVIOUS
<1>3. lead \in [1..3 -> Nat] /\ \A a \in 1..3 : lead[a] = strides[a]
  <2>1. n \in Nat /\ 3 <= n
    <3>1. n \in Nat
      OBVIOUS
    <3>2. \A j \in Nat : j = 3 \/ j = 4 => 3 <= j
      BY ONLY TRUE
    <3>3. n = 3 \/ n = 4
      OBVIOUS
    <3>4. 3 <= n
      BY ONLY <3>1, <3>2, <3>3, Zenon
    <3>5. QED
      BY <3>1, <3>4
  <2>2. strides \in Seq(Nat) /\ Len(strides) = n
    BY <2>1
  <2>3. lead = [i \in 1..3 |-> strides[i]]
    BY <1>2, <2>1, <2>2
  <2>4. \A i \in 1..3 : i \in 1..n
    BY <2>1
  <2>5. QED
    BY <2>3, <2>4
<1>4. old \in [1..n -> Nat] /\ \A a \in 1..n : old[a] < t.dims[a]
  BY DEF Indices
<1>5. Along(lead, idx) = Total(Steps(idx, lead))
  BY DEF Along, Steps
<1>6. Total(Steps(idx, lead)) = Total(Steps(old, strides))
  <2>1. CASE n = 3
    <3>1. old = idx /\ lead = strides
      BY <1>1, <1>3, <1>4, <2>1
    <3>2. QED
      BY <3>1
  <2>2. CASE n = 4
    <3>1. PICK s, r : s = Steps(old, strides) /\ r = Steps(idx, lead)
      OBVIOUS
    <3>2. DOMAIN s = 1..(3 + 1) /\ DOMAIN r = 1..3
      BY <1>4, <2>2, <3>1 DEF Steps
    <3>3. \A i \in 1..3 : s[i] = old[i] * strides[i]
      BY <1>4, <2>2, <3>1 DEF Steps
    <3>4. \A i \in 1..3 : r[i] = idx[i] * lead[i]
      BY <3>1 DEF Steps
    <3>5. \A i \in 1..3 : r[i] = s[i]
      BY <1>3, <3>3, <3>4, SMTT(40)
    <3>6. s[4] = 0
      <4>1. old[4] = 0
        BY <1>4, <2>2
      <4>2. s[4] = old[4] * strides[4]
        BY <1>4, <2>2, <3>1 DEF Steps
      <4>3. strides[4] \in Nat
        BY <2>2
      <4>4. QED
        BY <4>1, <4>2, <4>3
    <3>7. Total(s) = Total(r) + s[3 + 1]
      BY <3>2, <3>5, TotalStep
    <3>8. Total(r) \in Nat
      BY <1>3, <3>1, StepsFacts
    <3>9. QED
      BY <3>1, <3>6, <3>7, <3>8
  <2>3. QED
    BY <2>1, <2>2
<1>7. Address(t, old) = t.off + Along(lead, idx)
  BY <1>1, <1>5, <1>6, AddressIs
<1>8. /\ Address(t, old) \in 0..(Len(t.store) - 1)
      /\ t.store[Address(t, old) + 1] = v[Flatten(t.dims, old) + 1]
  BY DEF Holds
<1>9. QED
  BY <1>1, <1>2, <1>7, <1>8 DEF Read, ValueAt

\* The items of a shape of rank 3.
LEMMA ThreeItems ==
  ASSUME NEW q \in Seq(Nat), Len(q) = 3
  PROVE  /\ q[1] \in Nat /\ q[2] \in Nat /\ q[3] \in Nat
         /\ Tail(q)[1] = q[2] /\ Tail(q)[2] = q[3]
<1>1. PICK k \in Nat : k = Len(q)
  OBVIOUS
<1>2. q \in [1..k -> Nat]
  BY <1>1, SMTT(40)
<1>3. 1 \in 1..k /\ 2 \in 1..k /\ 3 \in 1..k
  BY <1>1
<1>4. q[1] \in Nat /\ q[2] \in Nat /\ q[3] \in Nat
  BY <1>2, <1>3
<1>5. PICK a \in Nat, b \in Nat, c \in Nat : a = q[1] /\ b = q[2] /\ c = q[3]
  BY <1>4
<1>6. q = <<a, b, c>>
  <2>1. q \in [1..3 -> Nat]
    BY <1>1, <1>2
  <2>2. QED
    BY <1>5, <2>1
<1>7. Tail(<<a, b, c>>) = <<b, c>>
  OBVIOUS
<1>8. Tail(q)[1] = b /\ Tail(q)[2] = c
  <2>1. <<b, c>>[1] = b /\ <<b, c>>[2] = c
    OBVIOUS
  <2>2. QED
    BY <1>6, <1>7, <2>1, Zenon
<1>9. QED
  BY <1>4, <1>5, <1>8, Zenon

\* The shape of the rows slice_update writes: core of src, in a slab of shape
\* dims, from row o on.
RowsFit(core, dims, o) ==
  /\ core \in Seq(Nat) /\ Len(core) = 3
  /\ dims \in Seq(Nat) /\ Len(dims) = 3
  /\ o \in Nat /\ o + core[1] <= dims[1]
  /\ core[2] = dims[2] /\ core[3] = dims[3]

\* Index idx of the rows is index big of the slab.
Lands(idx, big, o) ==
  big \in [1..3 -> Nat] /\ big[1] = o + idx[1] /\ big[2] = idx[2] /\ big[3] = idx[3]

\* The rows lie in the slab, one after the other.
LEMMA RowsLand ==
  ASSUME NEW core, NEW dims, NEW o, RowsFit(core, dims, o),
         NEW idx \in Indices(core), NEW big, Lands(idx, big, o)
  PROVE  /\ big \in Indices(dims)
         /\ Along(Contiguous(core), idx) \in Nat
         /\ o * core[2] * core[3] + Along(Contiguous(core), idx) = Flatten(dims, big)
<1>1. PICK c1 \in Nat, c2 \in Nat, c3 \in Nat : c1 = core[1] /\ c2 = core[2] /\ c3 = core[3]
  <2>1. core \in Seq(Nat) /\ Len(core) = 3
    BY DEF RowsFit
  <2>2. core[1] \in Nat /\ core[2] \in Nat /\ core[3] \in Nat
    BY <2>1, ThreeItems
  <2>3. QED
    BY <2>2
<1>2. PICK i1 \in Nat, i2 \in Nat, i3 \in Nat : i1 = idx[1] /\ i2 = idx[2] /\ i3 = idx[3]
  BY DEF Indices, RowsFit
<1>3. i1 < c1 /\ i2 < c2 /\ i3 < c3
  BY <1>1, <1>2 DEF Indices, RowsFit
<1>4. o \in Nat /\ core \in Seq(Nat) /\ dims \in Seq(Nat) /\ Len(core) = 3 /\ Len(dims) = 3
  BY DEF RowsFit
<1>5. PICK d1 \in Nat : d1 = dims[1]
  BY <1>4
<1>6. o + c1 <= d1 /\ dims[2] = c2 /\ dims[3] = c3
  BY <1>1, <1>5 DEF RowsFit
<1>7. big \in [1..3 -> Nat] /\ big[1] = o + i1 /\ big[2] = i2 /\ big[3] = i3
  BY <1>2 DEF Lands
<1>8. big \in Indices(dims)
  <2>1. big[1] < dims[1] /\ big[2] < dims[2] /\ big[3] < dims[3]
    BY <1>3, <1>4, <1>5, <1>6, <1>7
  <2>2. \A a \in 1..3 : big[a] < dims[a]
    <3>1. \A a \in 1..3 : a = 1 \/ a = 2 \/ a = 3
      OBVIOUS
    <3>2. QED
      BY <2>1, <3>1
  <2>3. QED
    BY <1>4, <1>7, <2>2 DEF Indices
<1>9. idx \in [1..3 -> Nat]
  BY <1>4 DEF Indices
<1>10. Along(Contiguous(core), idx) = Flatten(core, idx)
  <2>1. Along(Contiguous(core), idx) = Total(Steps(idx, Contiguous(core)))
    BY DEF Along, Steps
  <2>2. QED
    BY <1>4, <1>9, <2>1, FlattenIs
<1>11. Flatten(core, idx) = i3 + c3 * (i2 + c2 * i1)
  BY <1>1, <1>2, <1>4, <1>9, FlattenThree
<1>12. Flatten(dims, big) = i3 + c3 * (i2 + c2 * (o + i1))
  <2>1. Flatten(dims, big) = big[3] + dims[3] * (big[2] + dims[2] * big[1])
    BY <1>4, <1>7, FlattenThree
  <2>2. QED
    BY <1>6, <1>7, <2>1
<1>13. Along(Contiguous(core), idx) \in Nat
  BY <1>4, <1>10, FlattenBelow
<1>14. o * c2 * c3 + (i3 + c3 * (i2 + c2 * i1)) = i3 + c3 * (i2 + c2 * (o + i1))
  BY <1>4
<1>15. QED
  BY <1>1, <1>8, <1>10, <1>11, <1>12, <1>13, <1>14

\* What slice_update asks of its operands, and its values.
UpdateOf(s, t, o, vs, vt, w) ==
  /\ Holds(s, vs) /\ Holds(t, vt)
  /\ o \in Nat /\ SliceUpdateAccepts(s, t, o)
  /\ Lists(w, s.dims)
  /\ \A idx \in Indices(s.dims) :
       w[Flatten(s.dims, idx) + 1] =
         IF idx[1] \in o..(o + t.dims[1] - 1)
         THEN ValueAt(vt, t.dims, Source(idx, o, Rank(t))) ELSE ValueAt(vs, s.dims, idx)

\* The rows fit, and the slab is dense.
LEMMA UpdateFacts ==
  ASSUME NEW s, NEW t, NEW o, NEW vs, NEW vt, NEW w, UpdateOf(s, t, o, vs, vt, w),
         NEW core, core = SubSeq(t.dims, 1, 3)
  PROVE  /\ RowsFit(core, s.dims, o)
         /\ core[1] = t.dims[1]
         /\ Len(t.dims) \in {3, 4}
         /\ \A a \in 1..3 : core[a] = t.dims[a]
         /\ Len(t.dims) = 4 => t.dims[4] = 1
         /\ s.store = vs /\ ~s.view
<1>1. PICK d \in Seq(Nat), e \in Seq(Nat) : d = s.dims /\ e = t.dims
  BY DEF UpdateOf, Holds, WellFormed
<1>2. /\ Len(d) = 3
      /\ Len(e) = 3 \/ (Len(e) = 4 /\ e[4] = 1)
  BY <1>1 DEF UpdateOf, SliceUpdateAccepts, Rank
<1>3. /\ Tail(d) = SubSeq(e, 2, 3)
      /\ o + e[1] <= d[1]
  BY <1>1 DEF UpdateOf, SliceUpdateAccepts
<1>4. o \in Nat /\ s.leaf
  BY DEF UpdateOf, SliceUpdateAccepts
<1>5. PICK n \in {3, 4} : n = Len(e)
  BY <1>2
<1>6. n \in Nat /\ 1 <= n /\ 2 <= n /\ 3 <= n
  <2>1. CASE n = 3
    BY <2>1
  <2>2. CASE n = 4
    BY <2>2
  <2>3. QED
    BY <2>1, <2>2
<1>7. core = [i \in 1..3 |-> e[i]]
  BY <1>1, <1>5, <1>6
<1>8. core \in Seq(Nat) /\ Len(core) = 3
  <2>1. \A i \in 1..3 : i \in 1..n
    BY <1>6
  <2>2. \A i \in 1..3 : e[i] \in Nat
    BY <1>5, <2>1
  <2>3. QED
    BY <1>7, <2>2
<1>9. core[2] = d[2] /\ core[3] = d[3]
  <2>1. Tail(d)[1] = d[1 + 1] /\ Tail(d)[2] = d[2 + 1]
    BY <1>2, ThreeItems
  <2>2. SubSeq(e, 2, 3) = [i \in 1..2 |-> e[i + 1]]
    BY <1>5, <1>6
  <2>3. SubSeq(e, 2, 3)[1] = e[1 + 1] /\ SubSeq(e, 2, 3)[2] = e[2 + 1]
    BY <2>2
  <2>4. d[1 + 1] = e[1 + 1] /\ d[2 + 1] = e[2 + 1]
    BY <1>3, <2>1, <2>3, Zenon
  <2>5. QED
    BY <1>7, <2>4
<1>10. core[1] = e[1]
  BY <1>7
<1>11. RowsFit(core, d, o)
  BY <1>2, <1>3, <1>4, <1>8, <1>9, <1>10 DEF RowsFit
<1>12. s.view \in BOOLEAN /\ ~s.view
  BY <1>4 DEF UpdateOf, Holds, WellFormed, DenseUnlessView
<1>13. s.store = vs
  <2>1. s.off = 0 /\ s.strides = Contiguous(s.dims) /\ Len(s.store) = Product(s.dims)
    BY <1>12 DEF UpdateOf, Holds, DenseUnlessView
  <2>2. Holds(s, vs)
    BY DEF UpdateOf
  <2>3. QED
    BY <2>1, <2>2, OwnedStore
<1>14. \A a \in 1..3 : core[a] = e[a]
  BY <1>7
<1>15. Len(e) \in {3, 4} /\ (Len(e) = 4 => e[4] = 1)
  <2>1. Len(e) = 3 => Len(e) # 4
    OBVIOUS
  <2>2. Len(e) \in {3, 4}
    BY <1>5, Zenon
  <2>3. QED
    BY <1>2, <2>1, <2>2, Zenon
<1>16. QED
  BY <1>1, <1>10, <1>11, <1>12, <1>13, <1>14, <1>15, Zenon

\* A row of the slab that is updated has its row in src.
LEMMA SourceInside ==
  ASSUME NEW s, NEW t, NEW o, NEW vs, NEW vt, NEW w, UpdateOf(s, t, o, vs, vt, w),
         NEW idx \in Indices(s.dims), idx[1] \in o..(o + t.dims[1] - 1)
  PROVE  Source(idx, o, Rank(t)) \in Indices(t.dims)
<1>1. PICK core : core = SubSeq(t.dims, 1, 3)
  OBVIOUS
<1>2. RowsFit(core, s.dims, o)
  BY <1>1, UpdateFacts
<1>3. core[1] = t.dims[1]
  BY <1>1, UpdateFacts
<1>4. PICK n \in {3, 4} : n = Len(t.dims)
  BY <1>1, UpdateFacts
<1>5. n = 4 => t.dims[4] = 1
  BY <1>1, <1>4, UpdateFacts, ZenonT(40)
<1>6. \A a \in 1..3 : core[a] = t.dims[a]
  BY <1>1, UpdateFacts
<1>7. /\ o \in Nat /\ core \in Seq(Nat) /\ Len(core) = 3
      /\ Len(s.dims) = 3 /\ core[2] = s.dims[2] /\ core[3] = s.dims[3]
  BY <1>2 DEF RowsFit
<1>8. idx \in [1..3 -> Nat] /\ \A a \in 1..3 : idx[a] < s.dims[a]
  BY <1>7 DEF Indices
<1>9. PICK e \in Nat, c \in Nat : e = idx[1] /\ c = core[1]
  BY <1>7, <1>8, ThreeItems
<1>10. e >= o /\ e - o < c
  <2>1. e \in o..(o + c - 1)
    BY <1>3, <1>9, Zenon
  <2>2. QED
    BY <1>7, <2>1
<1>11. PICK old : old = Source(idx, o, n)
  OBVIOUS
<1>12. old \in [1..n -> Nat]
  BY <1>7, <1>8, <1>9, <1>10, <1>11, SourceFacts
<1>13. old[1] = idx[1] - o /\ old[2] = idx[2] /\ old[3] = idx[3]
  BY <1>7, <1>8, <1>9, <1>10, <1>11, SourceFacts, ZenonT(60)
<1>14. n = 4 => old[4] = 0
  BY <1>7, <1>8, <1>9, <1>10, <1>11, SourceFacts
<1>15. old[1] < core[1] /\ old[2] < core[2] /\ old[3] < core[3]
  BY <1>7, <1>8, <1>9, <1>10, <1>13
<1>16. \A a \in 1..3 : old[a] < t.dims[a]
  <2>1. \A a \in 1..3 : a = 1 \/ a = 2 \/ a = 3
    OBVIOUS
  <2>2. \A a \in 1..3 : old[a] < core[a]
    BY <1>15, <2>1
  <2>3. QED
    BY <1>6, <2>2, Zenon
<1>17. ASSUME NEW a \in 1..n PROVE old[a] < t.dims[a]
  <2>1. CASE a \in 1..3
    BY <1>16, <2>1
  <2>2. CASE a \notin 1..3
    <3>1. n = 4 /\ a = 4
      BY <1>17, <2>2
    <3>2. QED
      BY <1>5, <1>14, <3>1
  <2>3. QED
    BY <2>1, <2>2
<1>18. QED
  BY <1>4, <1>11, <1>12, <1>17 DEF Indices, Rank

\* The updated slab holds values.
LEMMA UpdateType ==
  ASSUME NEW s, NEW t, NEW o, NEW vs, NEW vt, NEW w, UpdateOf(s, t, o, vs, vt, w)
  PROVE  w \in [1..Product(s.dims) -> Value]
<1>1. PICK d \in Seq(Nat), e \in Seq(Nat) : d = s.dims /\ e = t.dims
  BY DEF UpdateOf, Holds, WellFormed
<1>2. PICK p \in Nat, q \in Nat : p = Product(d) /\ q = Product(e)
  BY BlockFacts
<1>3. vs \in [1..p -> Value] /\ vt \in [1..q -> Value]
  BY <1>1, <1>2 DEF UpdateOf, Holds
<1>4. ASSUME NEW k \in 1..p PROVE w[k] \in Value
  <2>1. PICK j \in 0..(p - 1) : j = k - 1
    OBVIOUS
  <2>2. PICK idx : idx = Unflatten(d, j)
    OBVIOUS
  <2>3. idx \in Indices(d)
    BY <1>2, <2>2, UnflattenType
  <2>4. Flatten(d, idx) = j
    BY <1>2, <2>2, FlattenUnflatten
  <2>5. j + 1 = k
    BY <2>1
  <2>6. w[k] = IF idx[1] \in o..(o + t.dims[1] - 1)
               THEN ValueAt(vt, e, Source(idx, o, Rank(t))) ELSE ValueAt(vs, d, idx)
    BY <1>1, <2>3, <2>4, <2>5, Zenon DEF UpdateOf
  <2>7. CASE idx[1] \notin o..(o + t.dims[1] - 1)
    <3>1. w[k] = vs[k]
      BY <2>4, <2>5, <2>6, <2>7, Zenon DEF ValueAt
    <3>2. QED
      BY <1>3, <3>1
  <2>8. CASE idx[1] \in o..(o + t.dims[1] - 1)
    <3>1. PICK old : old = Source(idx, o, Rank(t))
      OBVIOUS
    <3>2. old \in Indices(e)
      BY <1>1, <2>3, <2>8, <3>1, SourceInside
    <3>3. PICK z \in Nat : z = Flatten(e, old) /\ z < q
      BY <1>2, <3>2, FlattenBelow
    <3>4. w[k] = vt[z + 1]
      BY <2>6, <2>8, <3>1, <3>3, Zenon DEF ValueAt
    <3>5. QED
      BY <1>3, <3>3, <3>4
  <2>9. QED
    BY <2>7, <2>8
<1>5. w = [k \in 1..p |-> w[k]]
  BY <1>1, <1>2 DEF UpdateOf, Lists
<1>6. QED
  BY <1>1, <1>2, <1>4, <1>5

\* Index idx of the rows of t goes to index big of the slab.
SourceOf(t, core, idx, big, o) ==
  core = SubSeq(t.dims, 1, 3) /\ idx \in Indices(core) /\ Lands(idx, big, o)

\* Each thread of slice_update writes the value its row is to have.
LEMMA UpdateAgrees ==
  ASSUME NEW s, NEW t, NEW o, NEW vs, NEW vt, NEW w, UpdateOf(s, t, o, vs, vt, w),
         NEW core, NEW idx, NEW big, SourceOf(t, core, idx, big, o)
  PROVE  Read(t.store, t.off + Along(SubSeq(t.strides, 1, 3), idx))
           = w[Flatten(s.dims, big) + 1]
<1> core = SubSeq(t.dims, 1, 3) /\ idx \in Indices(core) /\ Lands(idx, big, o)
  BY DEF SourceOf
<1>1. RowsFit(core, s.dims, o)
  BY UpdateFacts
<1>2. core[1] = t.dims[1]
  BY UpdateFacts
<1>3. PICK n \in {3, 4} : n = Len(t.dims)
  BY UpdateFacts
<1>4. n = 4 => t.dims[4] = 1
  BY <1>3, UpdateFacts, ZenonT(40)
<1>5. \A a \in 1..3 : core[a] = t.dims[a]
  BY UpdateFacts
<1>6. big \in Indices(s.dims)
  BY <1>1, RowsLand
<1>7. o \in Nat /\ core \in Seq(Nat) /\ Len(core) = 3
  BY <1>1 DEF RowsFit
<1>8. idx \in [1..3 -> Nat] /\ \A a \in 1..3 : idx[a] < core[a]
  BY <1>7 DEF Indices
<1>9. big \in [1..3 -> Nat] /\ big[1] = o + idx[1] /\ big[2] = idx[2] /\ big[3] = idx[3]
  BY DEF Lands
<1>10. PICK i1 \in Nat, c1 \in Nat : i1 = idx[1] /\ c1 = core[1]
  BY <1>7, <1>8
<1>11. i1 < c1
  BY <1>8, <1>10
<1>12. big[1] \in o..(o + t.dims[1] - 1) /\ big[1] >= o
  BY <1>2, <1>7, <1>9, <1>10, <1>11
<1>13. PICK old : old = Source(big, o, n)
  OBVIOUS
<1>14. w[Flatten(s.dims, big) + 1] = ValueAt(vt, t.dims, old)
  <2>1. w[Flatten(s.dims, big) + 1] =
         IF big[1] \in o..(o + t.dims[1] - 1)
         THEN ValueAt(vt, t.dims, Source(big, o, Rank(t))) ELSE ValueAt(vs, s.dims, big)
    BY <1>6, Zenon DEF UpdateOf
  <2>2. QED
    BY <1>3, <1>12, <1>13, <2>1, Zenon DEF Rank
<1>15. old \in [1..n -> Nat]
  BY <1>7, <1>9, <1>12, <1>13, SourceFacts
<1>16. old[1] = big[1] - o /\ old[2] = big[2] /\ old[3] = big[3]
  BY <1>7, <1>9, <1>12, <1>13, SourceFacts
<1>17. n = 4 => old[4] = 0
  BY <1>7, <1>9, <1>12, <1>13, SourceFacts
<1>18. \A a \in 1..3 : old[a] = idx[a]
  <2>1. old[1] = idx[1] /\ old[2] = idx[2] /\ old[3] = idx[3]
    BY <1>7, <1>9, <1>10, <1>16
  <2>2. \A a \in 1..3 : a = 1 \/ a = 2 \/ a = 3
    OBVIOUS
  <2>3. QED
    BY <2>1, <2>2
<1>19. old \in Indices(t.dims)
  <2>1. ASSUME NEW a \in 1..n PROVE old[a] < t.dims[a]
    <3>1. CASE a \in 1..3
      BY <1>5, <1>8, <1>18, <3>1
    <3>2. CASE a \notin 1..3
      <4>1. n = 4 /\ a = 4
        BY <2>1, <3>2
      <4>2. QED
        BY <1>4, <1>17, <4>1
    <3>3. QED
      BY <3>1, <3>2
  <2>2. QED
    BY <1>3, <1>15, <2>1 DEF Indices
<1>20. Holds(t, vt)
  BY DEF UpdateOf
<1>21. Read(t.store, t.off + Along(SubSeq(t.strides, 1, 3), idx)) = ValueAt(vt, t.dims, old)
  BY <1>3, <1>4, <1>8, <1>18, <1>19, <1>20, LeadingRead
<1>22. QED
  BY <1>14, <1>21

\* One write per thread: the row of src at its index, where that row lands.
RowWrites(t, core, o) ==
  {<<o * core[2] * core[3] + Along(Contiguous(core), IndexOf(core, th)),
     Read(t.store, t.off + Along(SubSeq(t.strides, 1, 3), IndexOf(core, th)))>> :
     th \in Threads(core)}

\* slice_update leaves in the slab the rows of src from row o on, and what it
\* had elsewhere.
LEMMA SliceUpdateComputes ==
  ASSUME NEW s, NEW t, NEW o, NEW vs, NEW vt, NEW w, UpdateOf(s, t, o, vs, vt, w),
         DispatchSliceUpdate(s, t, o) # Refused
  PROVE  DispatchSliceUpdate(s, t, o) = w
<1>1. PICK core : core = SubSeq(t.dims, 1, 3)
  OBVIOUS
<1>2. PICK dims : dims = s.dims
  OBVIOUS
<1>3. RowsFit(core, dims, o)
  BY <1>1, <1>2, UpdateFacts
<1>4. s.store = vs /\ ~s.view
  BY <1>1, UpdateFacts
<1>5. /\ core \in Seq(Nat) /\ Len(core) = 3 /\ core # <<>>
      /\ dims \in Seq(Nat) /\ Len(dims) = 3 /\ o \in Nat
  BY <1>3 DEF RowsFit
<1>6. PICK writes : writes = RowWrites(t, core, o)
  OBVIOUS
<1>7. DispatchSliceUpdate(s, t, o) = Written(vs, writes)
  BY <1>1, <1>4, <1>5, <1>6
     DEF DispatchSliceUpdate, Unless, DenseInput, EncodeGCopy, Storage, RowWrites
<1>8. PICK p \in Nat : p = Product(dims)
  BY <1>5, BlockFacts
<1>9. vs \in [1..p -> Value] /\ w \in [1..p -> Value]
  <2>1. vs \in [1..p -> Value]
    BY <1>2, <1>8 DEF UpdateOf, Holds
  <2>2. w \in [1..Product(s.dims) -> Value]
    BY UpdateType
  <2>3. QED
    BY <1>2, <1>8, <2>1, <2>2
<1>10. ASSUME NEW th \in Threads(core), NEW idx, idx = IndexOf(core, th)
       PROVE  \E big \in Indices(dims) :
                /\ Lands(idx, big, o)
                /\ o * core[2] * core[3] + Along(Contiguous(core), idx) = Flatten(dims, big)
                /\ Read(t.store, t.off + Along(SubSeq(t.strides, 1, 3), idx))
                     = w[Flatten(dims, big) + 1]
  <2>1. idx \in Indices(core)
    BY <1>5, <1>10, ThreadIndex
  <2>2. idx \in [1..3 -> Nat]
    BY <1>5, <2>1 DEF Indices
  <2>3. PICK big : big = [a \in 1..3 |-> IF a = 1 THEN o + idx[1] ELSE idx[a]]
    OBVIOUS
  <2>4. Lands(idx, big, o)
    BY <1>5, <2>2, <2>3 DEF Lands
  <2>5. big \in Indices(dims)
    BY <1>3, <2>1, <2>4, RowsLand
  <2>6. o * core[2] * core[3] + Along(Contiguous(core), idx) = Flatten(dims, big)
    BY <1>3, <2>1, <2>4, RowsLand
  <2>7. Read(t.store, t.off + Along(SubSeq(t.strides, 1, 3), idx)) = w[Flatten(dims, big) + 1]
    <3>1. Read(t.store, t.off + Along(SubSeq(t.strides, 1, 3), idx))
            = w[Flatten(s.dims, big) + 1]
      <4>1. SourceOf(t, core, idx, big, o)
        BY <1>1, <2>1, <2>4 DEF SourceOf
      <4>2. QED
        BY <4>1, UpdateAgrees
    <3>2. QED
      BY <1>2, <3>1, Zenon
  <2>8. QED
    BY <2>4, <2>5, <2>6, <2>7
<1>11. Agree(writes, p, w)
  <2>1. ASSUME NEW pair \in writes
        PROVE  pair[1] \in 0..(p - 1) /\ pair[2] = w[pair[1] + 1]
    <3>1. PICK th \in Threads(core) :
            pair = <<o * core[2] * core[3] + Along(Contiguous(core), IndexOf(core, th)),
                     Read(t.store, t.off + Along(SubSeq(t.strides, 1, 3), IndexOf(core, th)))>>
      BY <1>6 DEF RowWrites
    <3>2. PICK idx : idx = IndexOf(core, th)
      OBVIOUS
    <3>3. PICK a, b : /\ a = o * core[2] * core[3] + Along(Contiguous(core), idx)
                      /\ b = Read(t.store, t.off + Along(SubSeq(t.strides, 1, 3), idx))
      OBVIOUS
    <3>4. pair = <<a, b>>
      BY <3>1, <3>2, <3>3
    <3>5. pair[1] = a /\ pair[2] = b
      BY <3>4
    <3>6. PICK big \in Indices(dims) : a = Flatten(dims, big) /\ b = w[Flatten(dims, big) + 1]
      BY <1>10, <3>2, <3>3, Zenon
    <3>7. a \in Nat /\ a < p
      BY <1>5, <1>8, <3>6, FlattenBelow
    <3>8. QED
      BY <3>5, <3>6, <3>7
  <2>2. QED
    BY <2>1 DEF Agree
<1>12. ASSUME NEW i \in 1..p, ~Hit(writes, i)
       PROVE  vs[i] = w[i]
  <2>1. PICK k \in 0..(p - 1) : k = i - 1
    OBVIOUS
  <2>2. PICK big : big = Unflatten(dims, k)
    OBVIOUS
  <2>3. big \in Indices(dims)
    BY <1>5, <1>8, <2>2, UnflattenType
  <2>4. Flatten(dims, big) = k
    BY <1>5, <1>8, <2>2, FlattenUnflatten
  <2>5. k + 1 = i
    BY <2>1
  <2>6. CASE big[1] \notin o..(o + t.dims[1] - 1)
    <3>1. w[Flatten(dims, big) + 1] = ValueAt(vs, dims, big)
      BY <1>2, <2>3, <2>6, Zenon DEF UpdateOf
    <3>2. QED
      BY <2>4, <2>5, <3>1 DEF ValueAt
  <2>7. CASE big[1] \in o..(o + t.dims[1] - 1)
    <3>1. core[1] = t.dims[1]
      BY <1>1, UpdateFacts
    <3>2. /\ big \in [1..3 -> Nat]
          /\ big[2] < dims[2] /\ big[3] < dims[3]
      BY <1>5, <2>3 DEF Indices
    <3>3. PICK idx : idx = [a \in 1..3 |-> IF a = 1 THEN big[1] - o ELSE big[a]]
      OBVIOUS
    <3>4. PICK c \in Nat, e \in Nat : c = core[1] /\ e = big[1]
      BY <1>5, <3>2, ThreeItems
    <3>5. e >= o /\ e - o < c /\ e - o \in Nat
      <4>1. e \in o..(o + c - 1)
        BY <2>7, <3>1, <3>4, Zenon
      <4>2. QED
        BY <1>5, <4>1
    <3>6. idx \in [1..3 -> Nat] /\ idx[1] = e - o /\ idx[2] = big[2] /\ idx[3] = big[3]
      BY <3>2, <3>3, <3>4, <3>5
    <3>7. idx[1] < core[1] /\ idx[2] < core[2] /\ idx[3] < core[3]
      BY <1>3, <3>2, <3>4, <3>5, <3>6 DEF RowsFit
    <3>8. idx \in Indices(core)
      <4>1. \A a \in 1..3 : a = 1 \/ a = 2 \/ a = 3
        OBVIOUS
      <4>2. \A a \in 1..3 : idx[a] < core[a]
        BY <3>7, <4>1
      <4>3. QED
        BY <1>5, <3>6, <4>2 DEF Indices
    <3>9. Lands(idx, big, o)
      BY <1>5, <3>2, <3>4, <3>5, <3>6 DEF Lands
    <3>10. PICK th \in Threads(core) : IndexOf(core, th) = idx
      BY <1>5, <3>8, IndexThread
    <3>11. PICK a, b : /\ a = o * core[2] * core[3] + Along(Contiguous(core), idx)
                       /\ b = Read(t.store, t.off + Along(SubSeq(t.strides, 1, 3), idx))
      OBVIOUS
    <3>12. <<a, b>> \in RowWrites(t, core, o)
      BY <3>10, <3>11 DEF RowWrites
    <3>13. <<a, b>>[1] = a
      OBVIOUS
    <3>14. a = Flatten(dims, big)
      BY <1>3, <3>8, <3>9, <3>11, RowsLand
    <3>15. a = i - 1
      BY <2>1, <2>4, <3>14
    <3>16. QED
      BY <1>6, <1>12, <3>12, <3>13, <3>15 DEF Hit
  <2>8. QED
    BY <2>6, <2>7
<1>13. \A i \in 1..p : ~Hit(writes, i) => vs[i] = w[i]
  BY <1>12
<1>14. Written(vs, writes) = w
  <2>1. Merge(vs, w, writes, p, Value)
    BY <1>9, <1>11 DEF Merge
  <2>2. QED
    BY <1>13, <2>1, WrittenOver
<1>15. QED
  BY <1>7, <1>14

----------------------------------------------------------------------------
\* The state machine: whatever is done to them, the operands hold what they say.

\* Every operand holds, through its strides and its offset, the values it says.
OperandsHold == \A a \in Arg : Holds(arg[a], says[a])

IInv ==
  /\ steps \in 0..MaxSteps
  /\ DOMAIN arg = Arg /\ DOMAIN says = Arg
  /\ OperandsHold

\* t is an uploaded operand.
IsLeaf(t, dims, dtype, v) ==
  /\ dims \in Seq(Nat) /\ v \in [1..Product(dims) -> Value]
  /\ t = [Dense(dims, dtype, v) EXCEPT !.leaf = TRUE]

\* An uploaded operand holds its buffer.
LEMMA LeafHolds ==
  ASSUME NEW t, NEW dims, NEW dtype, NEW v, IsLeaf(t, dims, dtype, v)
  PROVE  Holds(t, v) /\ t.store = v
<1>1. t = Strided(dims, Contiguous(dims), 0, FALSE, dtype, TRUE, v)
  BY DEF IsLeaf, Dense, Strided
<1>2. dims \in Seq(Nat) /\ v \in [1..Product(dims) -> Value]
  BY DEF IsLeaf
<1>3. Holds(t, v)
  BY <1>1, <1>2, OwnerHolds
<1>4. t.store = v
  BY <1>1 DEF Strided
<1>5. QED
  BY <1>3, <1>4

\* Uploaded operands hold the labels of their elements.
LEMMA InitHolds == Init => IInv
<1>1. SUFFICES ASSUME Init PROVE IInv
  OBVIOUS
<1>2. PICK p \in Leaves :
        arg = [x |-> Leaf(p[1], p[2], LAMBDA i : i),
               y |-> Leaf(p[3], p[4], LAMBDA i : IF p[4] = "U32" THEN Product(p[3]) - i
                                                 ELSE 100 + i)]
  BY <1>1 DEF Init
<1>3. PICK d \in Seq(Nat), e \in Seq(Nat) : d = p[1] /\ e = p[3]
  BY OperandAssumption
<1>4. PICK m \in Nat, n \in Nat : m = Product(d) /\ n = Product(e)
  BY BlockFacts
<1>5. PICK v : v = [i \in 1..m |-> <<i>>]
  OBVIOUS
<1>6. PICK w : w = [i \in 1..n |-> <<IF p[4] = "U32" THEN n - i ELSE 100 + i>>]
  OBVIOUS
<1>7. v \in [1..m -> Value]
  BY <1>5 DEF Value
<1>8. w \in [1..n -> Value]
  <2>1. \A i \in 1..n : <<IF p[4] = "U32" THEN n - i ELSE 100 + i>> \in Value
    BY DEF Value
  <2>2. QED
    BY <1>6, <2>1
<1>9. PICK s : s = [Dense(d, p[2], v) EXCEPT !.leaf = TRUE]
  OBVIOUS
<1>10. PICK t : t = [Dense(e, p[4], w) EXCEPT !.leaf = TRUE]
  OBVIOUS
<1>11. arg = [x |-> s, y |-> t]
  BY <1>2, <1>3, <1>4, <1>5, <1>6, <1>9, <1>10 DEF Leaf
<1>12. DOMAIN arg = Arg /\ arg["x"] = s /\ arg["y"] = t
  BY <1>11 DEF Arg
<1>13. says = [a \in Arg |-> arg[a].store] /\ steps = 0
  BY <1>1 DEF Init
<1>14. Holds(s, v) /\ s.store = v
  <2>1. IsLeaf(s, d, p[2], v)
    BY <1>4, <1>7, <1>9 DEF IsLeaf
  <2>2. QED
    BY <2>1, LeafHolds
<1>15. Holds(t, w) /\ t.store = w
  <2>1. IsLeaf(t, e, p[4], w)
    BY <1>4, <1>8, <1>10 DEF IsLeaf
  <2>2. QED
    BY <2>1, LeafHolds
<1>16. says["x"] = v /\ says["y"] = w /\ DOMAIN says = Arg
  BY <1>12, <1>13, <1>14, <1>15 DEF Arg
<1>17. OperandsHold
  BY <1>12, <1>14, <1>15, <1>16 DEF OperandsHold, Arg
<1>18. steps \in 0..MaxSteps
  BY <1>13, OperandAssumption
<1>19. QED
  BY <1>12, <1>16, <1>17, <1>18 DEF IInv

\* Replacing an operand by one that holds its values.
LEMMA BecomeHolds ==
  ASSUME IInv, NEW a \in Arg, NEW t, NEW v, Become(a, t, v), Holds(t, v)
  PROVE  IInv'
<1>1. /\ arg' = [arg EXCEPT ![a] = t] /\ says' = [says EXCEPT ![a] = v]
      /\ steps' = steps + 1 /\ steps < MaxSteps
  BY DEF Become
<1>2. DOMAIN arg = Arg /\ DOMAIN says = Arg /\ steps \in 0..MaxSteps
  BY DEF IInv
<1>3. DOMAIN arg' = Arg /\ DOMAIN says' = Arg
  BY <1>1, <1>2
<1>4. steps' \in 0..MaxSteps
  BY <1>1, <1>2, OperandAssumption
<1>5. ASSUME NEW b \in Arg PROVE Holds(arg'[b], says'[b])
  <2>1. CASE b = a
    <3>1. arg'[b] = t /\ says'[b] = v
      BY <1>1, <1>2, <2>1
    <3>2. QED
      BY <3>1
  <2>2. CASE b # a
    <3>1. arg'[b] = arg[b] /\ says'[b] = says[b]
      BY <1>1, <1>2, <2>2
    <3>2. Holds(arg[b], says[b])
      BY DEF IInv, OperandsHold
    <3>3. QED
      BY <3>1, <3>2
  <2>3. QED
    BY <2>1, <2>2
<1>6. QED
  BY <1>3, <1>4, <1>5 DEF IInv, OperandsHold

\* The shape of a view.
LEMMA ViewDims ==
  ASSUME NEW t, NEW v, Holds(t, v), NEW off, NEW dims, NEW strides
  PROVE  View(t, off, dims, strides).dims = dims
<1>1. WellFormed(t)
  BY DEF Holds
<1>2. View(t, off, dims, strides) = Strided(dims, strides, off, TRUE, t.dtype, FALSE, t.store)
  BY <1>1, ViewFields
<1>3. QED
  BY <1>2 DEF Strided

\* Item k of a list by multi-index is the one at the k-th index.
LEMMA TabulatedAt ==
  ASSUME NEW dims \in Seq(Nat), NEW idx \in Indices(dims)
  PROVE  \E k \in 1..Product(dims) :
           Flatten(dims, idx) + 1 = k /\ Unflatten(dims, k - 1) = idx
<1>1. PICK p \in Nat : p = Product(dims)
  BY BlockFacts
<1>2. PICK z \in Nat : z = Flatten(dims, idx) /\ z < p
  BY <1>1, FlattenBelow
<1>3. Unflatten(dims, z) = idx
  BY <1>2, UnflattenFlatten
<1>4. z + 1 \in 1..p /\ (z + 1) - 1 = z
  BY <1>2
<1>5. Unflatten(dims, (z + 1) - 1) = idx
  BY <1>3, <1>4, Zenon
<1>6. QED
  BY <1>1, <1>2, <1>4, <1>5

\* An operand and what it says.
LEMMA OperandFacts ==
  ASSUME IInv, NEW a \in Arg
  PROVE  /\ Holds(arg[a], says[a])
         /\ arg[a].dims \in Seq(Nat)
         /\ \A idx : Says(a, idx) = ValueAt(says[a], arg[a].dims, idx)
<1>1. Holds(arg[a], says[a])
  BY DEF IInv, OperandsHold
<1>2. arg[a].dims \in Seq(Nat)
  BY <1>1 DEF Holds, WellFormed
<1>3. QED
  BY <1>1, <1>2 DEF Says, At, Dims, ValueAt

\* reshape.
LEMMA ReshapeStep ==
  ASSUME IInv, NEW a \in Arg, ReshapeArg(a)
  PROVE  IInv'
<1>1. PICK dims \in Shapes : Become(a, Reshape(arg[a], dims), says[a])
  BY DEF ReshapeArg
<1>2. dims \in Seq(Nat)
  BY OperandAssumption
<1>3. Reshape(arg[a], dims) # Refused
  BY <1>1 DEF Become
<1>4. Holds(arg[a], says[a])
  BY OperandFacts
<1>5. Holds(Reshape(arg[a], dims), says[a])
  BY <1>2, <1>3, <1>4, ReshapeHolds
<1>6. QED
  BY <1>1, <1>5, BecomeHolds

\* permute.
LEMMA PermuteStep ==
  ASSUME IInv, NEW a \in Arg, PermuteArg(a)
  PROVE  IInv'
<1>1. PICK u, v : u = arg[a] /\ v = says[a]
  OBVIOUS
<1>2. Holds(u, v)
  BY <1>1, OperandFacts
<1>3. \A idx : Says(a, idx) = ValueAt(v, u.dims, idx)
  BY <1>1, OperandFacts
<1>4. PICK p \in Perms(Rank(arg[a])) :
        Become(a, Permute(arg[a], p),
               [k \in 1..Product(Permute(arg[a], p).dims) |->
                  Says(a, [c \in DOMAIN p |->
                     Unflatten(Permute(arg[a], p).dims, k - 1)[CHOOSE b \in DOMAIN p : p[b] = c]])])
  BY DEF PermuteArg, Tabulate
<1>5. PICK w : w = [k \in 1..Product(Permute(arg[a], p).dims) |->
                      Says(a, [c \in DOMAIN p |->
                         Unflatten(Permute(arg[a], p).dims, k - 1)[CHOOSE b \in DOMAIN p : p[b] = c]])]
  OBVIOUS
<1>6. PICK t, dims : t = Permute(u, p) /\ dims = t.dims
  OBVIOUS
<1>7. /\ DOMAIN w = 1..Product(dims)
      /\ w = [k \in 1..Product(dims) |-> w[k]]
      /\ \A k \in 1..Product(dims) : w[k] = Says(a, Unpermuted(p, Unflatten(dims, k - 1)))
  <2>1. PICK q : q = 1..Product(Permute(arg[a], p).dims)
    OBVIOUS
  <2>2. w = [k \in q |-> w[k]] /\ DOMAIN w = q
    BY <1>5, <2>1
  <2>3. \A k \in q : w[k] = Says(a, Unpermuted(p, Unflatten(Permute(arg[a], p).dims, k - 1)))
    BY <1>5, <2>1, Zenon DEF Unpermuted
  <2>4. Permute(arg[a], p).dims = dims
    BY <1>1, <1>6
  <2>5. q = 1..Product(dims)
    BY <2>1, <2>4, Zenon
  <2>6. w = [k \in 1..Product(dims) |-> w[k]] /\ DOMAIN w = 1..Product(dims)
    BY <2>2, <2>5, Zenon
  <2>7. \A k \in 1..Product(dims) : w[k] = Says(a, Unpermuted(p, Unflatten(dims, k - 1)))
    BY <2>3, <2>4, <2>5, Zenon
  <2>8. QED
    BY <2>6, <2>7
<1>8. Become(a, t, w) /\ p \in Perms(Rank(u))
  BY <1>1, <1>4, <1>5, <1>6, Zenon
<1>9. PICK n \in Nat : n = Rank(u) /\ u.dims \in [1..n -> Nat]
  <2>1. PICK d \in Seq(Nat) : d = u.dims
    BY <1>2 DEF Holds, WellFormed
  <2>2. PICK n \in Nat : n = Len(d)
    OBVIOUS
  <2>3. d \in [1..n -> Nat]
    BY <2>2
  <2>4. QED
    BY <2>1, <2>2, <2>3 DEF Rank
<1>10. p \in [1..n -> 1..n]
  BY <1>8, <1>9 DEF Perms
<1>11. dims = [i \in 1..n |-> u.dims[p[i]]]
  <2>1. t # Refused
    BY <1>8 DEF Become
  <2>2. t = View(u, u.off, [i \in DOMAIN p |-> u.dims[p[i]]], [i \in DOMAIN p |-> u.strides[p[i]]])
    BY <1>6, <2>1, Zenon DEF Permute
  <2>3. t.dims = [i \in DOMAIN p |-> u.dims[p[i]]]
    BY <1>2, <2>2, ViewDims
  <2>4. QED
    BY <1>6, <1>10, <2>3
<1>12. dims \in [1..n -> Nat] /\ \A i \in 1..n : dims[i] = u.dims[p[i]]
  BY <1>9, <1>10, <1>11
<1>13. dims \in Seq(Nat)
  BY <1>12
<1>14. Lists(w, dims)
  BY <1>7 DEF Lists
<1>15. ASSUME NEW idx \in Indices(dims)
       PROVE  w[Flatten(dims, idx) + 1] = ValueAt(v, u.dims, Unpermuted(p, idx))
  <2>1. PICK k \in 1..Product(dims) : Flatten(dims, idx) + 1 = k /\ Unflatten(dims, k - 1) = idx
    BY <1>13, TabulatedAt
  <2>2. w[k] = Says(a, Unpermuted(p, Unflatten(dims, k - 1)))
    BY <1>7, Zenon
  <2>3. QED
    BY <1>3, <2>1, <2>2, Zenon
<1>16. Permuted(w, dims, v, u, p)
  BY <1>9, <1>12, <1>14, <1>15 DEF Permuted
<1>17. Holds(t, w)
  BY <1>2, <1>6, <1>8, <1>16, PermuteHolds
<1>18. QED
  BY <1>8, <1>17, BecomeHolds

\* slice.
LEMMA SliceStep ==
  ASSUME IInv, NEW a \in Arg, SliceArg(a)
  PROVE  IInv'
<1>1. PICK u, v : u = arg[a] /\ v = says[a]
  OBVIOUS
<1>2. Holds(u, v)
  BY <1>1, OperandFacts
<1>3. \A idx : Says(a, idx) = ValueAt(v, u.dims, idx)
  BY <1>1, OperandFacts
<1>4. PICK c \in 1..Rank(arg[a]) : \E s \in 0..Dims(a)[c] : \E e \in s..Dims(a)[c] :
        LET t == Slice(arg[a], [b \in 1..Rank(arg[a]) |->
                                  IF b = c THEN <<s, e>> ELSE <<0, Dims(a)[b]>>])
        IN  /\ s < e
            /\ Become(a, t, [k \in 1..Product(t.dims) |->
                               Says(a, [Unflatten(t.dims, k - 1) EXCEPT ![c] = @ + s])])
  BY DEF SliceArg, Tabulate
<1>5. PICK s \in 0..Dims(a)[c] : \E e \in s..Dims(a)[c] :
        LET t == Slice(arg[a], [b \in 1..Rank(arg[a]) |->
                                  IF b = c THEN <<s, e>> ELSE <<0, Dims(a)[b]>>])
        IN  /\ s < e
            /\ Become(a, t, [k \in 1..Product(t.dims) |->
                               Says(a, [Unflatten(t.dims, k - 1) EXCEPT ![c] = @ + s])])
  BY <1>4
<1>6. PICK e \in s..Dims(a)[c] :
        LET t == Slice(arg[a], [b \in 1..Rank(arg[a]) |->
                                  IF b = c THEN <<s, e>> ELSE <<0, Dims(a)[b]>>])
        IN  /\ s < e
            /\ Become(a, t, [k \in 1..Product(t.dims) |->
                               Says(a, [Unflatten(t.dims, k - 1) EXCEPT ![c] = @ + s])])
  BY <1>5
<1>7. PICK ranges : ranges = [b \in 1..Rank(arg[a]) |->
                                IF b = c THEN <<s, e>> ELSE <<0, Dims(a)[b]>>]
  OBVIOUS
<1>8. PICK t : t = Slice(arg[a], ranges)
  OBVIOUS
<1>9. PICK w : w = [k \in 1..Product(t.dims) |->
                      Says(a, [Unflatten(t.dims, k - 1) EXCEPT ![c] = @ + s])]
  OBVIOUS
<1>10. s < e /\ Become(a, t, w)
  BY <1>6, <1>7, <1>8, <1>9
<1>11. PICK n \in Nat : n = Rank(u) /\ u.dims \in [1..n -> Nat]
  <2>1. PICK d \in Seq(Nat) : d = u.dims
    BY <1>2 DEF Holds, WellFormed
  <2>2. PICK n \in Nat : n = Len(d)
    OBVIOUS
  <2>3. d \in [1..n -> Nat]
    BY <2>2
  <2>4. QED
    BY <2>1, <2>2, <2>3 DEF Rank
<1>12. c \in 1..n /\ Dims(a) = u.dims /\ t = Slice(u, ranges)
  BY <1>1, <1>8, <1>11 DEF Dims
<1>13. s \in Nat /\ e \in Nat
  <2>1. u.dims[c] \in Nat
    BY <1>11, <1>12
  <2>2. s \in 0..u.dims[c] /\ e \in s..u.dims[c]
    BY <1>12
  <2>3. QED
    BY <2>1, <2>2
<1>14. /\ ranges = [b \in 1..n |-> IF b = c THEN <<s, e>> ELSE <<0, u.dims[b]>>]
       /\ ranges \in [1..n -> Nat \X Nat]
  <2>1. ranges = [b \in 1..n |-> IF b = c THEN <<s, e>> ELSE <<0, u.dims[b]>>]
    BY <1>1, <1>7, <1>11, <1>12
  <2>2. QED
    BY <1>11, <1>13, <2>1
<1>15. \A b \in 1..n : /\ ranges[b][1] = IF b = c THEN s ELSE 0
                       /\ ranges[b][2] - ranges[b][1] = IF b = c THEN e - s ELSE u.dims[b]
  BY <1>11, <1>13, <1>14
<1>16. PICK dims : dims = t.dims
  OBVIOUS
<1>17. dims = [b \in 1..n |-> ranges[b][2] - ranges[b][1]]
  <2>1. t # Refused
    BY <1>10 DEF Become
  <2>2. PICK off : t = View(u, off, [b \in DOMAIN ranges |-> ranges[b][2] - ranges[b][1]], u.strides)
    BY <1>12, <2>1 DEF Slice
  <2>3. t.dims = [b \in DOMAIN ranges |-> ranges[b][2] - ranges[b][1]]
    BY <1>2, <2>2, ViewDims
  <2>4. DOMAIN ranges = 1..n
    BY <1>14
  <2>5. QED
    BY <1>16, <2>3, <2>4, Zenon
<1>18. dims \in [1..n -> Nat] /\ \A b \in 1..n : dims[b] = ranges[b][2] - ranges[b][1]
  <2>1. \A b \in 1..n : (IF b = c THEN e - s ELSE u.dims[b]) \in Nat
    BY <1>10, <1>11, <1>13
  <2>2. QED
    BY <1>15, <1>17, <2>1
<1>19. dims \in Seq(Nat) /\ Len(dims) = n
  BY <1>18
<1>20. Lists(w, dims)
  BY <1>9, <1>16 DEF Lists
<1>21. ASSUME NEW idx \in Indices(dims)
       PROVE  w[Flatten(dims, idx) + 1]
                = ValueAt(v, u.dims, [b \in 1..Rank(u) |-> idx[b] + ranges[b][1]])
  <2>1. PICK k \in 1..Product(dims) : Flatten(dims, idx) + 1 = k /\ Unflatten(dims, k - 1) = idx
    BY <1>19, TabulatedAt
  <2>2. w[k] = Says(a, [Unflatten(dims, k - 1) EXCEPT ![c] = @ + s])
    BY <1>9, <1>16
  <2>3. w[k] = Says(a, [idx EXCEPT ![c] = @ + s])
    BY <2>1, <2>2
  <2>4. idx \in [1..n -> Nat]
    BY <1>19 DEF Indices
  <2>5. [idx EXCEPT ![c] = @ + s] = [b \in 1..n |-> idx[b] + ranges[b][1]]
    <3>1. \A b \in 1..n : idx[b] + ranges[b][1] = IF b = c THEN idx[c] + s ELSE idx[b]
      <4> SUFFICES ASSUME NEW b \in 1..n
                   PROVE  idx[b] + ranges[b][1] = IF b = c THEN idx[c] + s ELSE idx[b]
        OBVIOUS
      <4>1. PICK i \in Nat : i = idx[b]
        BY <2>4
      <4>2. PICK r : r = ranges[b][1]
        OBVIOUS
      <4>3. r = IF b = c THEN s ELSE 0
        BY <1>15, <4>2
      <4>4. i + r = IF b = c THEN i + s ELSE i
        BY ONLY <4>3, <1>13, i \in Nat
      <4>5. QED
        BY <4>1, <4>2, <4>4
    <3>2. [b \in 1..n |-> idx[b] + ranges[b][1]]
            = [b \in 1..n |-> IF b = c THEN idx[c] + s ELSE idx[b]]
      BY <3>1, Zenon
    <3>3. [idx EXCEPT ![c] = @ + s] = [b \in 1..n |-> IF b = c THEN idx[c] + s ELSE idx[b]]
      BY ONLY <2>4, <1>12
    <3>4. QED
      BY <3>2, <3>3, Zenon
  <2>6. w[k] = ValueAt(v, u.dims, [b \in 1..n |-> idx[b] + ranges[b][1]])
    BY <1>3, <2>3, <2>5, Zenon
  <2>7. QED
    BY <1>11, <2>1, <2>6, Zenon
<1>22. Window(w, dims, v, u, ranges)
  <2>1. /\ ranges \in [1..Rank(u) -> Nat \X Nat]
        /\ dims \in [1..Rank(u) -> Nat]
        /\ \A b \in 1..Rank(u) : dims[b] = ranges[b][2] - ranges[b][1]
    BY <1>11, <1>14, <1>18, Zenon
  <2>2. QED
    BY <1>20, <1>21, <2>1, Zenon DEF Window
<1>23. Slice(u, ranges) # Refused
  BY <1>10, <1>12 DEF Become
<1>24. Holds(t, w)
  BY <1>2, <1>12, <1>22, <1>23, SliceHolds
<1>25. QED
  BY <1>10, <1>24, BecomeHolds

\* Broadcasted lists them.
LEMMA BroadcastedIs ==
  ASSUME NEW u, NEW v, NEW dims \in Seq(Nat), NEW w, w = Broadcasted(v, u.dims, dims)
  PROVE  Stretched(w, dims, v, u)
<1>1. w = [k \in 1..Product(dims) |->
             At(v, u.dims, [b \in DOMAIN u.dims |->
                IF u.dims[b] = 1 THEN 0
                ELSE Unflatten(dims, k - 1)[b + Len(dims) - Len(u.dims)]])]
  BY DEF Broadcasted, Tabulate
<1>2. Lists(w, dims)
  BY <1>1 DEF Lists
<1>3. \A k \in 1..Product(dims) :
        w[k] = ValueAt(v, u.dims, Squeezed(u.dims, dims, Unflatten(dims, k - 1)))
  BY <1>1, Zenon DEF Squeezed, ValueAt, At
<1>4. ASSUME NEW idx \in Indices(dims)
      PROVE  w[Flatten(dims, idx) + 1] = ValueAt(v, u.dims, Squeezed(u.dims, dims, idx))
  <2>1. PICK k \in 1..Product(dims) : Flatten(dims, idx) + 1 = k /\ Unflatten(dims, k - 1) = idx
    BY TabulatedAt
  <2>2. QED
    BY <1>3, <2>1, Zenon
<1>5. QED
  BY <1>2, <1>4 DEF Stretched

\* broadcast_to.
LEMMA BroadcastStep ==
  ASSUME IInv, NEW a \in Arg, BroadcastArg(a)
  PROVE  IInv'
<1>1. PICK u, v : u = arg[a] /\ v = says[a]
  OBVIOUS
<1>2. Holds(u, v)
  BY <1>1, OperandFacts
<1>3. PICK dims \in Shapes : /\ BroadcastTo(arg[a], dims) # Refused
                             /\ Become(a, BroadcastTo(arg[a], dims),
                                       Broadcasted(says[a], Dims(a), dims))
  BY DEF BroadcastArg
<1>4. dims \in Seq(Nat)
  BY OperandAssumption
<1>5. PICK w : w = Broadcasted(v, u.dims, dims)
  OBVIOUS
<1>8. Stretched(w, dims, v, u)
  BY <1>4, <1>5, BroadcastedIs
<1>9. Stretches(u.dims, dims)
  BY <1>1, <1>3 DEF BroadcastTo, Stretches, Rank
<1>10. Holds(BroadcastTo(u, dims), w)
  BY <1>2, <1>4, <1>8, <1>9, BroadcastHolds
<1>11. Become(a, BroadcastTo(u, dims), w)
  BY <1>1, <1>3, <1>5 DEF Dims
<1>12. QED
  BY <1>10, <1>11, BecomeHolds

\* What eval leaves in place of an operand.
LEMMA ComputedHolds ==
  ASSUME NEW dims \in Seq(Nat), NEW dtype, NEW buffer, NEW v \in [1..Product(dims) -> Value],
         Computed(dims, dtype, buffer) # Refused, buffer # Refused => buffer = v
  PROVE  Holds(Computed(dims, dtype, buffer), v)
<1>1. buffer # Refused /\ Computed(dims, dtype, buffer) = Dense(dims, dtype, buffer)
  BY DEF Computed
<1>2. QED
  BY <1>1, DenseHolds

\* copy.
LEMMA CopyStep ==
  ASSUME IInv, NEW a \in Arg, CopyArg(a)
  PROVE  IInv'
<1>1. PICK u, v : u = arg[a] /\ v = says[a]
  OBVIOUS
<1>2. Holds(u, v)
  BY <1>1, OperandFacts
<1>3. Become(a, Copied(u), v)
  BY <1>1 DEF CopyArg
<1>4. Copied(u) # Refused
  BY <1>3 DEF Become
<1>5. Holds(Copied(u), v)
  <2>1. CASE CopyElides(u)
    BY <1>2, <2>1, ElidedHolds DEF Copied
  <2>2. CASE ~CopyElides(u)
    <3>1. Copied(u) = Computed(u.dims, u.dtype, DispatchCopy(u))
      BY <2>2 DEF Copied
    <3>2. u.dims \in Seq(Nat) /\ v \in [1..Product(u.dims) -> Value]
      BY <1>2 DEF Holds, WellFormed
    <3>3. DispatchCopy(u) # Refused => DispatchCopy(u) = v
      BY <1>2, CopyComputes
    <3>4. QED
      BY <1>4, <3>1, <3>2, <3>3, ComputedHolds
  <2>3. QED
    BY <2>1, <2>2
<1>6. QED
  BY <1>3, <1>5, BecomeHolds

\* cast.
LEMMA CastStep ==
  ASSUME IInv, NEW a \in Arg, CastArg(a)
  PROVE  IInv'
<1>1. PICK u, v : u = arg[a] /\ v = says[a]
  OBVIOUS
<1>2. Holds(u, v)
  BY <1>1, OperandFacts
<1>3. PICK dtype : dtype # u.dtype /\ Become(a, Casted(u, dtype), v)
  BY <1>1 DEF CastArg
<1>4. Casted(u, dtype) # Refused
  BY <1>3 DEF Become
<1>5. Casted(u, dtype) = Computed(u.dims, dtype, DispatchCast(u))
  BY <1>3, <1>4 DEF Casted
<1>6. u.dims \in Seq(Nat) /\ v \in [1..Product(u.dims) -> Value]
  BY <1>2 DEF Holds, WellFormed
<1>7. DispatchCast(u) # Refused => DispatchCast(u) = v
  BY <1>2, CastComputes
<1>8. Holds(Casted(u, dtype), v)
  BY <1>4, <1>5, <1>6, <1>7, ComputedHolds
<1>9. QED
  BY <1>3, <1>8, BecomeHolds

\* slice_update.
LEMMA SliceUpdateStep ==
  ASSUME IInv, SliceUpdate
  PROVE  IInv' /\ DispatchComputes'
<1>1. PICK s, t, vs, vt : s = arg["x"] /\ t = arg["y"] /\ vs = says["x"] /\ vt = says["y"]
  OBVIOUS
<1>2. "x" \in Arg /\ "y" \in Arg
  BY DEF Arg
<1>3. Holds(s, vs) /\ Holds(t, vt)
  BY <1>1, <1>2, OperandFacts
<1>4. PICK o \in 0..2 :
        LET Row0(i) == <<i[1] - o>> \o Tail(i) \o [j \in 1..(Rank(y) - 3) |-> 0]
            updated == [k \in 1..Product(x.dims) |->
                          IF Unflatten(x.dims, k - 1)[1] \in o..(o + y.dims[1] - 1)
                          THEN Says("y", Row0(Unflatten(x.dims, k - 1)))
                          ELSE Says("x", Unflatten(x.dims, k - 1))]
            buffer == DispatchSliceUpdate(x, y, o)
        IN  /\ SliceUpdateAccepts(x, y, o)
            /\ buffer # Refused
            /\ steps < MaxSteps
            /\ arg' = [arg EXCEPT !["x"].store = buffer]
            /\ says' = [says EXCEPT !["x"] = updated]
            /\ steps' = steps + 1
            /\ last' = [op |-> "slice_update", denoted |-> updated, got |-> buffer]
  BY DEF SliceUpdate, Tabulate
<1>5. PICK w : w = [k \in 1..Product(s.dims) |->
                      IF Unflatten(s.dims, k - 1)[1] \in o..(o + t.dims[1] - 1)
                      THEN Says("y", Source(Unflatten(s.dims, k - 1), o, Rank(t)))
                      ELSE Says("x", Unflatten(s.dims, k - 1))]
  OBVIOUS
<1>6. PICK buffer : buffer = DispatchSliceUpdate(s, t, o)
  OBVIOUS
<1>7. /\ SliceUpdateAccepts(s, t, o)
      /\ buffer # Refused
      /\ steps < MaxSteps /\ steps' = steps + 1
      /\ arg' = [arg EXCEPT !["x"].store = buffer]
  BY <1>1, <1>4, <1>6 DEF x, y
<1>8. /\ says' = [says EXCEPT !["x"] = w]
      /\ last' = [op |-> "slice_update", denoted |-> w, got |-> buffer]
  BY <1>1, <1>4, <1>5, <1>6 DEF x, y, Source
<1>9. PICK d \in Seq(Nat) : d = s.dims
  BY <1>3 DEF Holds, WellFormed
<1>10. \A k \in 1..Product(d) :
         w[k] = IF Unflatten(d, k - 1)[1] \in o..(o + t.dims[1] - 1)
                THEN ValueAt(vt, t.dims, Source(Unflatten(d, k - 1), o, Rank(t)))
                ELSE ValueAt(vs, d, Unflatten(d, k - 1))
  <2>1. \A idx : Says("y", idx) = ValueAt(vt, t.dims, idx)
    BY <1>1, <1>2, OperandFacts
  <2>2. \A idx : Says("x", idx) = ValueAt(vs, d, idx)
    BY <1>1, <1>2, <1>9, OperandFacts
  <2>3. QED
    BY <1>5, <1>9, <2>1, <2>2, Zenon
<1>11. Lists(w, s.dims)
  BY <1>5 DEF Lists
<1>12. ASSUME NEW idx \in Indices(s.dims)
       PROVE  w[Flatten(s.dims, idx) + 1] =
                IF idx[1] \in o..(o + t.dims[1] - 1)
                THEN ValueAt(vt, t.dims, Source(idx, o, Rank(t))) ELSE ValueAt(vs, s.dims, idx)
  <2>1. PICK k \in 1..Product(d) : Flatten(d, idx) + 1 = k /\ Unflatten(d, k - 1) = idx
    BY <1>9, TabulatedAt
  <2>2. QED
    BY <1>9, <1>10, <2>1, Zenon
<1>13. o \in Nat
  OBVIOUS
<1>14. UpdateOf(s, t, o, vs, vt, w)
  BY <1>3, <1>7, <1>11, <1>12, <1>13, Zenon DEF UpdateOf
<1>15. buffer = w
  BY <1>6, <1>7, <1>14, SliceUpdateComputes
<1>16. w \in [1..Product(s.dims) -> Value]
  BY <1>14, UpdateType
<1>17. PICK z : z = [s EXCEPT !.store = w]
  OBVIOUS
<1>18. z = Strided(s.dims, Contiguous(s.dims), 0, FALSE, s.dtype, s.leaf, w)
  <2>1. s.view \in BOOLEAN /\ s.leaf \in BOOLEAN /\ DenseUnlessView(s)
    BY <1>3 DEF Holds, WellFormed
  <2>2. s.leaf
    BY <1>7 DEF SliceUpdateAccepts
  <2>3. s.view = FALSE
    BY <2>1, <2>2, Zenon DEF DenseUnlessView
  <2>4. s.off = 0 /\ s.strides = Contiguous(s.dims)
    BY <2>1, <2>3 DEF DenseUnlessView
  <2>5. s = Strided(s.dims, s.strides, s.off, s.view, s.dtype, s.leaf, s.store)
    BY <1>3 DEF Holds, WellFormed
  <2>6. z = Strided(s.dims, s.strides, s.off, s.view, s.dtype, s.leaf, w)
    BY <1>17, <2>5 DEF Strided
  <2>7. QED
    BY <2>3, <2>4, <2>6, Zenon
<1>19. Holds(z, w)
  <2>1. s.leaf \in BOOLEAN
    BY <1>3 DEF Holds, WellFormed
  <2>2. QED
    BY <1>9, <1>16, <1>18, <2>1, OwnerHolds
<1>20. DOMAIN arg = Arg /\ DOMAIN says = Arg /\ steps \in 0..MaxSteps
  BY DEF IInv
<1>21. arg' = [arg EXCEPT !["x"] = z]
  BY <1>1, <1>7, <1>15, <1>17
<1>22. DOMAIN arg' = Arg /\ DOMAIN says' = Arg
  BY <1>8, <1>20, <1>21
<1>23. steps' \in 0..MaxSteps
  BY <1>7, <1>20, OperandAssumption
<1>24. ASSUME NEW b \in Arg PROVE Holds(arg'[b], says'[b])
  <2>1. CASE b = "x"
    <3>1. arg'[b] = z /\ says'[b] = w
      BY <1>2, <1>8, <1>20, <1>21, <2>1
    <3>2. QED
      BY <1>19, <3>1
  <2>2. CASE b # "x"
    <3>1. arg'[b] = arg[b] /\ says'[b] = says[b]
      BY <1>8, <1>20, <1>21, <2>2
    <3>2. Holds(arg[b], says[b])
      BY DEF IInv, OperandsHold
    <3>3. QED
      BY <3>1, <3>2
  <2>3. QED
    BY <2>1, <2>2
<1>25. IInv'
  BY <1>22, <1>23, <1>24 DEF IInv, OperandsHold
<1>26. DispatchComputes'
  BY <1>8, <1>15 DEF DispatchComputes
<1>27. QED
  BY <1>25, <1>26

\* The operands are what they were.
Untouched == arg' = arg /\ says' = says /\ steps' = steps

\* A call leaves the operands alone.
LEMMA CallsRead ==
  ASSUME NEW op, NEW accepted, NEW denoted, NEW got, Call(op, accepted, denoted, got)
  PROVE  Untouched
BY DEF Call, Untouched

\* The calls of the op builders but slice_update, which writes its operand.
Ops ==
  \/ Copy \/ Cast \/ Binary \/ Unary \/ Reduce \/ Mean \/ Argmax \/ Gather \/ DequantizeAffine
  \/ Rope \/ RmsNorm \/ Softmax \/ Matmul \/ QuantizedMatmul \/ Sdpa \/ Concat

\* They only read.
LEMMA OpsRead ==
  ASSUME Ops
  PROVE  Untouched
<1>1. CASE Copy
  BY <1>1, CallsRead DEF Copy
<1>2. CASE Cast
  BY <1>2, CallsRead DEF Cast
<1>3. CASE Binary
  BY <1>3, CallsRead DEF Binary
<1>4. CASE Unary
  BY <1>4, CallsRead DEF Unary
<1>5. CASE Reduce
  BY <1>5, CallsRead DEF Reduce
<1>6. CASE Mean
  BY <1>6 DEF Mean, Call, Untouched
<1>7. CASE Argmax
  BY <1>7, CallsRead DEF Argmax
<1>8. CASE Gather
  BY <1>8, CallsRead DEF Gather
<1>9. CASE DequantizeAffine
  BY <1>9, CallsRead DEF DequantizeAffine
<1>10. CASE Rope
  BY <1>10, CallsRead DEF Rope
<1>11. CASE RmsNorm
  BY <1>11, CallsRead DEF RmsNorm
<1>12. CASE Softmax
  BY <1>12, CallsRead DEF Softmax
<1>13. CASE Matmul
  BY <1>13, CallsRead DEF Matmul
<1>14. CASE QuantizedMatmul
  BY <1>14, CallsRead DEF QuantizedMatmul
<1>15. CASE Sdpa
  BY <1>15, CallsRead DEF Sdpa
<1>16. CASE Concat
  BY <1>16, CallsRead DEF Concat
<1>17. QED
  BY <1>1, <1>2, <1>3, <1>4, <1>5, <1>6, <1>7, <1>8, <1>9, <1>10, <1>11, <1>12, <1>13, <1>14, <1>15, <1>16 DEF Ops

\* A step that leaves the operands alone keeps the invariant.
LEMMA UntouchedHolds ==
  ASSUME IInv, Untouched
  PROVE  IInv'
<1>1. (steps \in 0..MaxSteps)'
  BY DEF IInv, Untouched
<1>2. (DOMAIN arg = Arg /\ DOMAIN says = Arg)'
  BY DEF IInv, Untouched
<1>3. OperandsHold'
  BY DEF IInv, Untouched, OperandsHold
<1>4. QED
  BY <1>1, <1>2, <1>3 DEF IInv

\* Every step keeps the operands holding what they say.
LEMMA StepHolds == IInv /\ [Next]_vars => IInv'
<1>1. SUFFICES ASSUME IInv, [Next]_vars PROVE IInv'
  OBVIOUS
<1>2. CASE UNCHANGED vars
  <2>1. Untouched
    BY <1>2 DEF vars, Untouched
  <2>2. QED
    BY <1>1, <2>1, UntouchedHolds
<1>3. ASSUME NEW a \in Arg, ReshapeArg(a) PROVE IInv'
  BY <1>1, <1>3, ReshapeStep
<1>4. ASSUME NEW a \in Arg, PermuteArg(a) PROVE IInv'
  BY <1>1, <1>4, PermuteStep
<1>5. ASSUME NEW a \in Arg, SliceArg(a) PROVE IInv'
  BY <1>1, <1>5, SliceStep
<1>6. ASSUME NEW a \in Arg, BroadcastArg(a) PROVE IInv'
  BY <1>1, <1>6, BroadcastStep
<1>7. ASSUME NEW a \in Arg, CopyArg(a) PROVE IInv'
  BY <1>1, <1>7, CopyStep
<1>8. ASSUME NEW a \in Arg, CastArg(a) PROVE IInv'
  BY <1>1, <1>8, CastStep
<1>9. CASE SliceUpdate
  BY <1>1, <1>9, SliceUpdateStep
<1>10. CASE Ops
  BY <1>1, <1>10, OpsRead, UntouchedHolds
<1>11. QED
  BY <1>1, <1>2, <1>3, <1>4, <1>5, <1>6, <1>7, <1>8, <1>9, <1>10 DEF Next, Ops

\* Whatever chain of reshapes, permutations, slices, broadcasts, copies, casts
\* and in-place updates an operand went through, every index of it addresses an
\* element of its storage, and that element has the value the operand denotes.
THEOREM OperandsAlwaysHold == Spec => []IInv
<1>1. Init => IInv
  BY InitHolds
<1>2. IInv /\ [Next]_vars => IInv'
  BY StepHolds
<1>3. QED
  BY <1>1, <1>2, PTL DEF Spec

\* cpu_iter and cpu_bytes read an operand's values, whatever its views.
THEOREM HostReadsAlways == Spec => []HostReadsTensor
<1>1. IInv => HostReadsTensor
  <2>1. SUFFICES ASSUME IInv, NEW a \in Arg
                 PROVE  /\ Fetch(arg[a], CpuIter(arg[a])) = says[a]
                        /\ CpuBytes(arg[a]) \in {Refused, CpuIter(arg[a])}
    BY DEF HostReadsTensor
  <2>2. Holds(arg[a], says[a])
    BY <2>1, OperandFacts
  <2>3. QED
    BY <2>2, HostReads
<1>2. QED
  BY <1>1, OperandsAlwaysHold, PTL

\* No view reaches past its storage; only views are strided or offset.
THEOREM OperandsTyped == Spec => []TypeOK
<1>1. IInv => TypeOK
  <2>1. SUFFICES ASSUME IInv PROVE TypeOK
    OBVIOUS
  <2>2. steps \in 0..MaxSteps
    BY <2>1 DEF IInv
  <2>3. ASSUME NEW a \in Arg
        PROVE  /\ Len(arg[a].dims) = Len(arg[a].strides)
               /\ \A k \in DOMAIN CpuIter(arg[a]) :
                    CpuIter(arg[a])[k] \in 0..(Len(arg[a].store) - 1)
               /\ ~arg[a].view => arg[a].off = 0 /\ IsContiguous(arg[a])
    <3>1. Holds(arg[a], says[a])
      BY <2>1, <2>3, OperandFacts
    <3>2. Len(arg[a].dims) = Len(arg[a].strides)
      <4>1. PICK d, q : d \in Seq(Nat) /\ d = arg[a].dims /\ q = arg[a].strides
        BY <3>1 DEF Holds, WellFormed
      <4>2. q \in [1..Len(d) -> Nat]
        BY <3>1, <4>1 DEF Holds, WellFormed
      <4>3. Len(q) = Len(d)
        BY <4>2
      <4>4. QED
        BY <4>1, <4>3
    <3>3. \A k \in DOMAIN CpuIter(arg[a]) :
            CpuIter(arg[a])[k] \in 0..(Len(arg[a].store) - 1)
      BY <3>1, HostReads
    <3>4. ~arg[a].view => arg[a].off = 0 /\ IsContiguous(arg[a])
      BY <3>1 DEF Holds, DenseUnlessView, IsContiguous
    <3>5. QED
      BY <3>2, <3>3, <3>4
  <2>4. QED
    BY <2>2, <2>3 DEF TypeOK
<1>2. QED
  BY <1>1, OperandsAlwaysHold, PTL

----------------------------------------------------------------------------
\* Rows: an index is a row, the index of its leading axes, and a column.

\* head has the first m axes of dims.
HeadAxes(head, dims, m) ==
  dims \in Seq(Nat) /\ m \in 0..Len(dims) /\ head = SubSeq(dims, 1, m)

\* They are a shape of its own.
LEMMA HeadAxesFacts ==
  ASSUME NEW dims, NEW m, NEW head, HeadAxes(head, dims, m)
  PROVE  /\ m \in Nat /\ m <= Len(dims) /\ dims \in Seq(Nat) /\ dims \in [1..Len(dims) -> Nat]
         /\ head \in Seq(Nat) /\ Len(head) = m /\ head \in [1..m -> Nat]
         /\ \A a \in 1..m : a \in 1..Len(dims) /\ head[a] = dims[a]
<1>1. PICK n \in Nat : n = Len(dims)
  BY DEF HeadAxes
<1>2. dims \in Seq(Nat) /\ m \in Nat /\ m <= n
  BY <1>1 DEF HeadAxes
<1>3. dims \in [1..n -> Nat] /\ \A a \in 1..m : a \in 1..n
  BY <1>1, <1>2
<1>4. head = [a \in 1..m |-> dims[a]]
  BY <1>1, <1>2, <1>3 DEF HeadAxes
<1>5. head \in [1..m -> Nat] /\ \A a \in 1..m : head[a] = dims[a]
  BY <1>3, <1>4
<1>6. head \in Seq(Nat) /\ Len(head) = m
  BY <1>2, <1>5
<1>7. QED
  BY <1>1, <1>2, <1>3, <1>5, <1>6

\* The steps of those axes, in dims and by themselves.
LEMMA HeadAxesBlocks ==
  ASSUME NEW dims, NEW m, NEW head, HeadAxes(head, dims, m)
  PROVE  /\ \A a \in 0..m : Block(dims, a) = Block(head, a) * Block(dims, m)
         /\ Product(dims) = Product(head) * Block(dims, m)
         /\ Product(dims) \in Nat /\ Product(head) \in Nat /\ Block(dims, m) \in Nat
<1>1. PICK n \in Nat : n = Len(dims)
  BY DEF HeadAxes
<1>2. /\ m \in Nat /\ m <= n /\ dims \in Seq(Nat) /\ dims \in [1..n -> Nat]
      /\ head \in Seq(Nat) /\ Len(head) = m
      /\ \A a \in 1..m : a \in 1..n /\ head[a] = dims[a]
  BY <1>1, HeadAxesFacts
<1>3. PICK r \in Nat : r = Block(dims, m)
  <2>1. m \in 0..n
    BY <1>2
  <2>2. QED
    BY <1>1, <1>2, <2>1, BlockFacts
<1>4. PICK Q \in SUBSET Nat :
        Q = {k \in Nat : k <= m /\ Block(dims, m - k) # Block(head, m - k) * r}
  OBVIOUS
<1>5. ASSUME NEW k \in Q, \A j \in Q : k <= j PROVE FALSE
  <2>1. CASE k = 0
    <3>1. Block(head, m) = 1
      BY <1>2, BlockFacts
    <3>2. m - 0 = m /\ 1 * r = r
      BY <1>2
    <3>3. QED
      BY <1>3, <1>4, <2>1, <3>1, <3>2
  <2>2. CASE k # 0
    <3>1. PICK j \in Nat : k = j + 1
      BY <1>4, <2>2
    <3>2. PICK a \in 1..m : a = m - j /\ a - 1 = m - k
      BY <1>2, <1>4, <3>1
    <3>3. Block(dims, a) = Block(head, a) * r
      <4>1. j \notin Q /\ j <= m
        BY <1>2, <1>4, <1>5, <3>1
      <4>2. QED
        BY <1>4, <3>2, <4>1
    <3>4. a \in 1..n /\ head[a] = dims[a] /\ dims[a] \in Nat
      BY <1>2
    <3>5. Block(dims, a - 1) = dims[a] * Block(dims, a)
      BY <1>1, <1>2, <3>4, BlockFacts
    <3>6. Block(head, a - 1) = head[a] * Block(head, a) /\ Block(head, a) \in Nat
      <4>1. a \in 0..m
        BY <1>2
      <4>2. QED
        BY <1>2, <4>1, BlockFacts
    <3>7. PICK d \in Nat, b \in Nat : d = dims[a] /\ b = Block(head, a)
      BY <3>4, <3>6
    <3>8. d * (b * r) = (d * b) * r
      OBVIOUS
    <3>9. Block(dims, a - 1) = Block(head, a - 1) * r
      BY <3>3, <3>4, <3>5, <3>6, <3>7, <3>8
    <3>10. QED
      BY <1>4, <3>2, <3>9
  <2>3. QED
    BY <2>1, <2>2
<1>6. Q = {}
  BY <1>5, LeastNatural
<1>7. ASSUME NEW a \in 0..m PROVE Block(dims, a) = Block(head, a) * r
  <2>1. m - a \in Nat /\ m - a <= m /\ m - (m - a) = a
    BY <1>2
  <2>2. QED
    BY <1>4, <1>6, <2>1
<1>8. Block(dims, 0) = Product(dims) /\ Block(dims, 0) \in Nat
  <2>1. 0 \in 0..n
    OBVIOUS
  <2>2. QED
    BY <1>1, <1>2, <2>1, BlockFacts
<1>9. Block(head, 0) = Product(head) /\ Block(head, 0) \in Nat
  <2>1. 0 \in 0..m
    BY <1>2
  <2>2. QED
    BY <1>2, <2>1, BlockFacts
<1>10. Block(dims, 0) = Block(head, 0) * r
  <2>1. 0 \in 0..m
    BY <1>2
  <2>2. QED
    BY <1>7, <2>1
<1>11. QED
  BY <1>3, <1>7, <1>8, <1>9, <1>10

\* u is idx without what follows its first m items.
Starts(u, idx, m, n) ==
  u \in [1..m -> Nat] /\ idx \in [1..n -> Nat] /\ \A i \in 1..m : idx[i] = u[i]

\* Where the leading axes of an index lead.
LEMMA HeadAxesTotal ==
  ASSUME NEW dims, NEW m, NEW head, HeadAxes(head, dims, m),
         NEW idx, NEW u, Starts(u, idx, m, Len(dims)),
         NEW s, s = Steps(idx, Contiguous(dims))
  PROVE  /\ Flatten(head, u) \in Nat
         /\ Total(Pre(s, m)) = Flatten(head, u) * Block(dims, m)
<1>1. PICK n \in Nat : n = Len(dims)
  BY DEF HeadAxes
<1>2. /\ m \in Nat /\ m <= n /\ dims \in Seq(Nat)
      /\ head \in Seq(Nat) /\ Len(head) = m
      /\ \A a \in 1..m : a \in 1..n
  BY <1>1, HeadAxesFacts
<1>3. u \in [1..m -> Nat] /\ idx \in [1..n -> Nat] /\ \A i \in 1..m : idx[i] = u[i]
  BY <1>1 DEF Starts
<1>4. /\ s \in [1..n -> Int]
      /\ \A i \in 1..n : s[i] = idx[i] * Block(dims, i)
  BY <1>1, <1>2, <1>3, DenseSteps
<1>5. PICK z : z = Steps(u, Contiguous(head))
  OBVIOUS
<1>6. u \in [1..Len(head) -> Nat]
  BY <1>2, <1>3
<1>7. /\ z \in [1..m -> Int]
      /\ \A i \in 1..m : z[i] = u[i] * Block(head, i)
  BY <1>2, <1>5, <1>6, DenseSteps
<1>8. Flatten(head, u) = Total(z)
  BY <1>2, <1>5, <1>6, FlattenIs
<1>9. Total(z) \in Nat
  <2>1. Contiguous(head) \in [1..Len(head) -> Nat]
    BY <1>2, ContiguousFacts
  <2>2. QED
    BY <1>2, <1>5, <1>6, <2>1, StepsFacts
<1>10. PICK r \in Nat : r = Block(dims, m)
  BY HeadAxesBlocks
<1>11. PICK q : q = Pre(s, m)
  OBVIOUS
<1>12. q \in [1..m -> Int] /\ \A i \in 1..m : q[i] = s[i]
  BY <1>2, <1>4, <1>11 DEF Pre
<1>13. ASSUME NEW i \in 1..m PROVE q[i] = z[i] * r
  <2>1. i \in 1..n /\ i \in 0..m /\ i \in 0..Len(head)
    BY <1>2
  <2>2. Block(dims, i) = Block(head, i) * r
    BY <1>10, <2>1, HeadAxesBlocks
  <2>3. Block(head, i) \in Nat
    BY <1>2, <2>1, BlockFacts
  <2>4. PICK f \in Nat, g \in Nat : f = u[i] /\ g = Block(head, i)
    BY <1>3, <2>3
  <2>5. f * (g * r) = (f * g) * r
    OBVIOUS
  <2>6. q[i] = idx[i] * Block(dims, i)
    BY <1>4, <1>12, <2>1
  <2>7. idx[i] = u[i] /\ z[i] = u[i] * Block(head, i)
    BY <1>3, <1>7
  <2>8. q[i] = f * (g * r) /\ z[i] = f * g
    BY <2>2, <2>4, <2>6, <2>7, Zenon
  <2>9. QED
    BY <2>5, <2>8
<1>14. Multiple(q, z, m, r)
  BY <1>13 DEF Multiple
<1>15. Total(q) = Total(z) * r
  <2>1. m \in Nat /\ r \in Int
    BY <1>2
  <2>2. z \in [1..m -> Int]
    BY <1>7
  <2>3. q \in [1..m -> Int]
    BY <1>12
  <2>4. QED
    BY ONLY <2>1, <2>2, <2>3, <1>14, TotalScale
<1>16. QED
  BY <1>8, <1>9, <1>10, <1>11, <1>15

\* head has the axes of dims but the last.
AllButLast(head, dims, n) ==
  dims \in Seq(Nat) /\ n = Len(dims) /\ n >= 1 /\ head = SubSeq(dims, 1, n - 1)

\* Rows and columns of a shape.
LEMMA RowFacts ==
  ASSUME NEW dims, NEW n, NEW head, AllButLast(head, dims, n)
  PROVE  /\ n \in Nat /\ n >= 1 /\ n - 1 \in Nat /\ n = Len(dims) /\ dims \in [1..n -> Nat]
         /\ dims \in Seq(Nat) /\ head \in Seq(Nat) /\ Len(head) = n - 1
         /\ head \in [1..(n - 1) -> Nat] /\ dims[n] \in Nat
         /\ \A a \in 1..(n - 1) : a \in 1..n /\ head[a] = dims[a]
         /\ Product(head) \in Nat /\ Product(dims) \in Nat
         /\ Product(dims) = Product(head) * dims[n]
         /\ HeadAxes(head, dims, n - 1) /\ Block(dims, n - 1) = dims[n]
<1>1. dims \in Seq(Nat) /\ n = Len(dims) /\ n \in Nat /\ n >= 1 /\ n - 1 \in Nat
  BY DEF AllButLast
<1>2. HeadAxes(head, dims, n - 1)
  BY <1>1 DEF AllButLast, HeadAxes
<1>3. PICK m \in Nat : m = n - 1
  BY <1>1
<1>4. /\ dims \in [1..n -> Nat] /\ head \in Seq(Nat) /\ Len(head) = m
      /\ head \in [1..m -> Nat]
      /\ \A a \in 1..m : a \in 1..n /\ head[a] = dims[a]
  <2>1. HeadAxes(head, dims, m)
    BY <1>2, <1>3, Zenon
  <2>2. /\ dims \in [1..Len(dims) -> Nat] /\ head \in Seq(Nat) /\ Len(head) = m
        /\ head \in [1..m -> Nat]
        /\ \A a \in 1..m : a \in 1..Len(dims) /\ head[a] = dims[a]
    BY <2>1, HeadAxesFacts, Zenon
  <2>3. QED
    BY <1>1, <2>2, Zenon
<1>5. n \in 1..n /\ dims[n] \in Nat
  BY <1>1, <1>4
<1>6. Block(dims, n) = 1 /\ Block(dims, n - 1) = dims[n] * Block(dims, n)
  BY <1>1, <1>5, BlockFacts
<1>7. Block(dims, n - 1) = dims[n]
  BY <1>5, <1>6
<1>8. /\ Product(head) \in Nat /\ Product(dims) \in Nat
      /\ Product(dims) = Product(head) * Block(dims, n - 1)
  BY <1>2, HeadAxesBlocks
<1>9. QED
  BY <1>1, <1>2, <1>3, <1>4, <1>5, <1>7, <1>8

\* Where an index leads: to its column of its row.
LEMMA FlattenRow ==
  ASSUME NEW dims, NEW n, NEW head, AllButLast(head, dims, n),
         NEW idx, NEW u, Starts(u, idx, n - 1, n)
  PROVE  /\ Flatten(head, u) \in Nat
         /\ Flatten(dims, idx) = Flatten(head, u) * dims[n] + idx[n]
<1>1. /\ n \in Nat /\ n >= 1 /\ n = Len(dims) /\ dims \in Seq(Nat) /\ dims[n] \in Nat
  BY RowFacts
<1>2. HeadAxes(head, dims, n - 1) /\ Block(dims, n - 1) = dims[n]
  BY RowFacts
<1>3. idx \in [1..n -> Nat]
  BY DEF Starts
<1>4. PICK s : s = Steps(idx, Contiguous(dims))
  OBVIOUS
<1>5. /\ s \in [1..n -> Int]
      /\ \A i \in 1..n : s[i] = idx[i] * Block(dims, i)
  BY <1>1, <1>3, <1>4, DenseSteps
<1>6. Flatten(dims, idx) = Total(s)
  BY <1>1, <1>3, <1>4, FlattenIs
<1>7. /\ Flatten(head, u) \in Nat
      /\ Total(Pre(s, n - 1)) = Flatten(head, u) * dims[n]
  <2>1. Starts(u, idx, n - 1, Len(dims))
    BY <1>1
  <2>2. QED
    BY <1>2, <1>4, <2>1, HeadAxesTotal
<1>8. n \in 1..n
  BY <1>1
<1>9. Total(Pre(s, n)) = Total(Pre(s, n - 1)) + s[n] /\ Total(Pre(s, n)) = Total(s)
  BY <1>1, <1>5, <1>8, CutFacts
<1>10. Block(dims, n) = 1
  BY <1>1, BlockFacts
<1>11. idx[n] \in Nat
  BY <1>3, <1>8
<1>12. s[n] = idx[n]
  BY <1>5, <1>8, <1>10, <1>11
<1>13. QED
  BY <1>6, <1>7, <1>9, <1>12

\* The k-th index, its row and its column.
LEMMA IndexRow ==
  ASSUME NEW dims, NEW n, NEW head, AllButLast(head, dims, n),
         NEW k \in Nat, k < Product(dims), NEW idx, idx = Unflatten(dims, k)
  PROVE  /\ idx \in Indices(dims) /\ Len(idx) = n /\ dims[n] > 0
         /\ idx[n] = k % dims[n]
         /\ \E u \in Indices(head) : /\ Starts(u, idx, n - 1, n)
                                     /\ Flatten(head, u) = k \div dims[n]
<1>1. /\ n \in Nat /\ n >= 1 /\ n - 1 \in Nat /\ n = Len(dims) /\ dims \in Seq(Nat)
      /\ dims[n] \in Nat /\ Len(head) = n - 1
      /\ \A a \in 1..(n - 1) : a \in 1..n /\ head[a] = dims[a]
      /\ Product(dims) \in Nat
  BY RowFacts
<1>2. k \in 0..(Product(dims) - 1)
  BY <1>1
<1>3. idx \in Indices(dims)
  BY <1>1, <1>2, UnflattenType
<1>4. Flatten(dims, idx) = k
  BY <1>1, <1>2, FlattenUnflatten
<1>5. idx \in [1..n -> Nat] /\ \A a \in 1..n : idx[a] < dims[a]
  BY <1>1, <1>3 DEF Indices
<1>6. PICK m \in Nat : m = n - 1
  BY <1>1
<1>7. PICK u : u = [a \in 1..m |-> idx[a]]
  OBVIOUS
<1>8. \A a \in 1..m : a \in 1..n /\ head[a] = dims[a]
  BY <1>1, <1>6
<1>9. u \in [1..m -> Nat] /\ \A a \in 1..m : idx[a] = u[a]
  BY <1>5, <1>7, <1>8
<1>10. Starts(u, idx, m, n)
  BY <1>5, <1>9 DEF Starts
<1>11. u \in Indices(head)
  <2>1. \A a \in 1..m : u[a] < head[a]
    BY <1>5, <1>8, <1>9
  <2>2. QED
    BY <1>1, <1>6, <1>9, <2>1 DEF Indices
<1>12. PICK q : q = Flatten(head, u)
  OBVIOUS
<1>13. q \in Nat /\ k = q * dims[n] + idx[n]
  <2>1. Starts(u, idx, n - 1, n)
    BY <1>6, <1>10
  <2>2. Flatten(head, u) \in Nat
    BY <2>1, FlattenRow
  <2>3. Flatten(dims, idx) = Flatten(head, u) * dims[n] + idx[n]
    BY <2>1, FlattenRow
  <2>4. QED
    BY <1>4, <1>12, <2>2, <2>3
<1>14. PICK c \in Nat, d \in Nat : c = idx[n] /\ d = dims[n] /\ c < d
  <2>1. n \in 1..n
    BY <1>1
  <2>2. QED
    BY <1>1, <1>5, <2>1
<1>15. k = q * d + c
  BY <1>13, <1>14
<1>16. k \div d = q /\ k % d = c
  <2>1. q \in Nat /\ c < d
    BY <1>13, <1>14
  <2>2. QED
    BY ONLY k \in Nat, c \in Nat, d \in Nat, <1>15, <2>1, DivUnique
<1>17. Len(idx) = n
  BY <1>1, <1>5
<1>18. QED
  BY <1>3, <1>6, <1>10, <1>11, <1>12, <1>14, <1>16, <1>17

\* Index u of the leading axes is the row of idx.
InRow(idx, u, head, dims, n) ==
  AllButLast(head, dims, n) /\ u \in Indices(head) /\ Starts(u, idx, n - 1, n)

\* The columns of a row.
LEMMA ColumnFacts ==
  ASSUME NEW idx, NEW u, NEW head, NEW dims, NEW n, InRow(idx, u, head, dims, n),
         NEW j \in Nat, j < dims[n]
  PROVE  /\ Flatten(head, u) \in Nat
         /\ [idx EXCEPT ![n] = j] \in Indices(dims)
         /\ Flatten(dims, [idx EXCEPT ![n] = j]) = Flatten(head, u) * dims[n] + j
         /\ Flatten(head, u) * dims[n] + j < Product(dims)
<1>1. AllButLast(head, dims, n) /\ u \in Indices(head) /\ Starts(u, idx, n - 1, n)
  BY DEF InRow
<1>2. /\ n \in Nat /\ n >= 1 /\ n - 1 \in Nat /\ n = Len(dims) /\ dims \in Seq(Nat)
      /\ dims[n] \in Nat /\ Len(head) = n - 1
      /\ \A a \in 1..(n - 1) : a \in 1..n /\ head[a] = dims[a]
  BY <1>1, RowFacts
<1>3. PICK m \in Nat : m = n - 1
  BY <1>2
<1>4. /\ u \in [1..m -> Nat] /\ idx \in [1..n -> Nat] /\ \A a \in 1..m : idx[a] = u[a]
  BY <1>1, <1>3 DEF Starts
<1>5. \A a \in 1..m : u[a] < head[a]
  BY <1>1, <1>2, <1>3 DEF Indices
<1>6. PICK w : w = [idx EXCEPT ![n] = j]
  OBVIOUS
<1>7. n \in 1..n /\ \A a \in 1..n : a = n \/ a \in 1..m
  BY <1>2, <1>3
<1>8. \A a \in 1..m : a # n /\ a \in 1..n /\ head[a] = dims[a]
  BY <1>2, <1>3
<1>9. w \in [1..n -> Nat] /\ w[n] = j /\ \A a \in 1..m : w[a] = idx[a]
  BY <1>4, <1>6, <1>7, <1>8
<1>10. \A a \in 1..n : w[a] < dims[a]
  <2>1. \A a \in 1..m : w[a] < dims[a]
    BY <1>4, <1>5, <1>8, <1>9
  <2>2. w[n] < dims[n]
    BY <1>9
  <2>3. QED
    BY <1>7, <2>1, <2>2, Zenon
<1>11. w \in Indices(dims)
  BY <1>2, <1>9, <1>10 DEF Indices
<1>12. Starts(u, w, n - 1, n)
  BY <1>3, <1>4, <1>9 DEF Starts
<1>13. Flatten(head, u) \in Nat
  BY <1>1, <1>12, FlattenRow
<1>14. Flatten(dims, w) = Flatten(head, u) * dims[n] + w[n]
  BY <1>1, <1>12, FlattenRow
<1>15. Flatten(dims, w) < Product(dims)
  BY <1>2, <1>11, FlattenBelow
<1>16. QED
  BY <1>6, <1>9, <1>11, <1>13, <1>14, <1>15

\* t is dense and row-major from the start of its storage, and holds v.
Flat(t, v) == Holds(t, v) /\ t.strides = Contiguous(t.dims) /\ t.off = 0

\* A tensor that is no view is.
LEMMA OwnerFlat ==
  ASSUME NEW t, NEW v, Holds(t, v), ~t.view
  PROVE  Flat(t, v) /\ t.store = v /\ Len(t.store) = Product(t.dims) /\ Len(v) = Product(t.dims)
<1>1. t.off = 0 /\ t.strides = Contiguous(t.dims) /\ Len(t.store) = Product(t.dims)
  BY DEF Holds, DenseUnlessView
<1>2. t.store = v
  BY <1>1, OwnedStore
<1>3. QED
  BY <1>1, <1>2 DEF Flat

\* Its element k is value k.
LEMMA FlatRead ==
  ASSUME NEW t, NEW v, Flat(t, v), NEW k \in Nat, k < Product(t.dims)
  PROVE  Read(t.store, k) = v[k + 1]
<1>1. Holds(t, v) /\ t.strides = Contiguous(t.dims) /\ t.off = 0
  BY DEF Flat
<1>2. PICK p \in Nat : p = Product(t.dims)
  BY <1>1, OwnedStore
<1>3. k + 1 \in 1..p
  BY <1>2
<1>4. k + 1 <= Len(t.store) /\ t.store[k + 1] = v[k + 1]
  BY <1>1, <1>2, <1>3, OwnedStore
<1>5. PICK z \in Nat : z = Len(t.store)
  <2>1. t.store \in Seq(Value)
    BY <1>1 DEF Holds, WellFormed
  <2>2. QED
    BY <2>1
<1>6. k \in 0..(z - 1)
  BY <1>4, <1>5
<1>7. QED
  BY <1>4, <1>5, <1>6 DEF Read

\* The values of the row idx is in.
RowOf(v, dims, idx, n) ==
  InTurn([j \in 1..dims[n] |-> ValueAt(v, dims, [idx EXCEPT ![n] = j - 1])])

\* A row of its storage is a row of its values.
LEMMA FlatRow ==
  ASSUME NEW t, NEW v, Flat(t, v), NEW idx, NEW u, NEW head, NEW n, InRow(idx, u, head, t.dims, n),
         NEW start, start = Flatten(head, u) * t.dims[n]
  PROVE  Row(t.store, start, t.dims[n]) = RowOf(v, t.dims, idx, n)
<1>1. PICK d \in Nat : d = t.dims[n]
  BY RowFacts DEF InRow
<1>2. ASSUME NEW j \in 1..d
      PROVE  Read(t.store, start + j - 1) = ValueAt(v, t.dims, [idx EXCEPT ![n] = j - 1])
  <2>1. PICK i \in Nat : i = j - 1 /\ i < d
    BY <1>2
  <2>2. PICK w : w = [idx EXCEPT ![n] = i]
    OBVIOUS
  <2>3. PICK f \in Nat : f = Flatten(head, u)
    BY <1>1, <2>1, ColumnFacts
  <2>4. /\ Flatten(t.dims, [idx EXCEPT ![n] = i]) = Flatten(head, u) * t.dims[n] + i
        /\ Flatten(head, u) * t.dims[n] + i < Product(t.dims)
    <3>1. i < t.dims[n]
      BY <1>1, <2>1
    <3>2. Flatten(t.dims, [idx EXCEPT ![n] = i]) = Flatten(head, u) * t.dims[n] + i
      BY ONLY <3>1, i \in Nat, InRow(idx, u, head, t.dims, n), ColumnFacts
    <3>3. Flatten(head, u) * t.dims[n] + i < Product(t.dims)
      BY ONLY <3>1, i \in Nat, InRow(idx, u, head, t.dims, n), ColumnFacts
    <3>4. QED
      BY <3>2, <3>3
  <2>5. Flatten(t.dims, w) = f * d + i /\ f * d + i < Product(t.dims)
    BY <1>1, <2>2, <2>3, <2>4, Zenon
  <2>6. start + j - 1 = f * d + i /\ f * d + i \in Nat
    BY <1>1, <2>1, <2>3
  <2>7. Read(t.store, f * d + i) = v[f * d + i + 1]
    BY <2>5, <2>6, FlatRead
  <2>8. QED
    BY <2>1, <2>2, <2>5, <2>6, <2>7, Zenon DEF ValueAt
<1>3. [j \in 1..d |-> Read(t.store, start + j - 1)]
        = [j \in 1..d |-> ValueAt(v, t.dims, [idx EXCEPT ![n] = j - 1])]
  BY <1>2, Zenon
<1>4. QED
  BY <1>1, <1>3, Zenon DEF Row, RowOf

----------------------------------------------------------------------------
\* What a kernel computes is a list of numbers.

\* g solves the recursion of InTurn on k items.
InTurnTo(s, k, g) == g = [i \in 0..k |-> IF i = 0 THEN <<>> ELSE g[i - 1] \o s[i]]

\* The recursion of InTurn has a solution, of lists of numbers.
LEMMA InTurnType ==
  ASSUME NEW n \in Nat, NEW s, DOMAIN s = 1..n, \A i \in 1..n : s[i] \in Value
  PROVE  InTurn(s) \in Value
<1>1. PICK Q \in SUBSET Nat :
        Q = {k \in Nat : k <= n /\ ~ \E g : InTurnTo(s, k, g)}
  OBVIOUS
<1>2. ASSUME NEW k \in Q, \A j \in Q : k <= j PROVE FALSE
  <2>1. CASE k = 0
    <3>1. InTurnTo(s, 0, [i \in 0..0 |-> <<>>])
      BY DEF InTurnTo
    <3>2. QED
      BY <1>1, <2>1, <3>1
  <2>2. CASE k # 0
    <3>1. PICK j \in Nat : k = j + 1
      BY <1>1, <2>2
    <3>2. PICK g : InTurnTo(s, j, g)
      BY <1>1, <1>2, <3>1
    <3>3. PICK h : h = [i \in 0..k |-> IF i # k THEN g[i] ELSE g[j] \o s[k]]
      OBVIOUS
    <3>4. \A i \in 0..k : h[i] = IF i = 0 THEN <<>> ELSE h[i - 1] \o s[i]
      BY <3>1, <3>2, <3>3 DEF InTurnTo
    <3>5. InTurnTo(s, k, h)
      BY <3>3, <3>4 DEF InTurnTo
    <3>6. QED
      BY <1>1, <3>5
  <2>3. QED
    BY <2>1, <2>2
<1>3. \E g : InTurnTo(s, n, g)
  <2>1. Q = {}
    BY <1>2, LeastNatural
  <2>2. n <= n
    OBVIOUS
  <2>3. QED
    BY <1>1, <2>1, <2>2
<1>4. Len(s) = n
  BY LenIs
<1>5. InTurn(s) = (CHOOSE g : InTurnTo(s, n, g))[n]
  BY <1>4 DEF InTurn, InTurnTo
<1>6. PICK g : InTurnTo(s, n, g) /\ InTurn(s) = g[n]
  BY <1>3, <1>5
<1>7. PICK P \in SUBSET Nat : P = {k \in Nat : k <= n /\ g[k] \notin Value}
  OBVIOUS
<1>8. ASSUME NEW k \in P, \A j \in P : k <= j PROVE FALSE
  <2>1. CASE k = 0
    <3>1. g[0] = <<>> /\ <<>> \in Seq(Int)
      BY <1>6 DEF InTurnTo
    <3>2. QED
      BY <1>7, <2>1, <3>1 DEF Value
  <2>2. CASE k # 0
    <3>1. PICK j \in Nat : k = j + 1 /\ j <= n /\ k \in 1..n /\ k \in 0..n /\ k - 1 = j
      BY <1>7, <2>2
    <3>2. g[k] = g[j] \o s[k]
      <4>1. g[k] = IF k = 0 THEN <<>> ELSE g[k - 1] \o s[k]
        BY <1>6, <3>1, Zenon DEF InTurnTo
      <4>2. QED
        BY <2>2, <3>1, <4>1, Zenon
    <3>3. j \notin P
      BY <1>8, <3>1
    <3>4. PICK u \in Seq(Int), v \in Seq(Int) : u = g[j] /\ v = s[k]
      BY <1>7, <3>1, <3>3 DEF Value
    <3>5. u \o v \in Seq(Int)
      OBVIOUS
    <3>6. QED
      BY <1>7, <3>2, <3>4, <3>5 DEF Value
  <2>3. QED
    BY <2>1, <2>2
<1>9. g[n] \in Value
  <2>1. P = {}
    BY <1>8, LeastNatural
  <2>2. n <= n
    OBVIOUS
  <2>3. QED
    BY <1>7, <2>1, <2>2
<1>10. QED
  BY <1>6, <1>9

\* What is read is.
LEMMA ReadType ==
  ASSUME NEW buf \in Seq(Value), NEW a
  PROVE  Read(buf, a) \in Value
<1>1. PICK n \in Nat : n = Len(buf)
  OBVIOUS
<1>2. buf \in [1..n -> Value]
  BY <1>1
<1>3. Junk \in Value
  BY DEF Junk, Value
<1>4. CASE a \in 0..(n - 1)
  <2>1. a + 1 \in 1..n
    BY <1>4
  <2>2. buf[a + 1] \in Value
    BY ONLY <1>2, <2>1
  <2>3. QED
    BY <1>1, <1>4, <2>2 DEF Read
<1>5. CASE a \notin 0..(n - 1)
  BY <1>1, <1>3, <1>5 DEF Read
<1>6. QED
  BY <1>4, <1>5

\* So is a row.
LEMMA RowType ==
  ASSUME NEW buf \in Seq(Value), NEW start, NEW n \in Nat
  PROVE  Row(buf, start, n) \in Value
<1>1. PICK s : s = [j \in 1..n |-> Read(buf, start + j - 1)]
  OBVIOUS
<1>2. DOMAIN s = 1..n /\ \A i \in 1..n : s[i] \in Value
  BY <1>1, ReadType
<1>3. InTurn(s) \in Value
  BY <1>2, InTurnType
<1>4. QED
  BY <1>1, <1>3, Zenon DEF Row
=============================================================================
