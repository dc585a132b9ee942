-------------------------- MODULE AsyncEvalProofs --------------------------
(***************************************************************************)
(* What a reader on the host sees of lazily evaluated tensors, for any     *)
(* number of tensors, buffers and evaluations.                             *)
(*                                                                         *)
(* A committed job may only touch the buffers of tensors something still   *)
(* keeps alive, and no two live tensors share a pool buffer: that is what  *)
(* keeps the bytes a reader was lent of an op still, and those of the leaf *)
(* but for the updates that land in it (ReadsStable), whatever the client  *)
(* drops.  That they are the right bytes needs more: every argument        *)
(* of a committed job stays alive until the job has run, which is a duty   *)
(* of the client (DropsEarly is FALSE), and every evaluated tensor is      *)
(* right, broken, or still to be written by a committed job.               *)
(***************************************************************************)
EXTENDS AsyncEval, SequencesExt, FiniteSetTheorems, SequenceTheorems, TLAPS

-----------------------------------------------------------------------------
\* Numbers and sequences.

\* A non-empty set of naturals has a least element.
LEMMA LeastNatural ==
  ASSUME NEW T \in SUBSET Nat, T # {}
  PROVE  \E n \in T : \A m \in T : n <= m
<1>1. IsWellFoundedOn(OpToRel(<, Nat), Nat)
  BY NatLessThanWellFounded
<1>2. PICK n \in T : \A m \in T : ~(<<m, n>> \in OpToRel(<, Nat))
  BY <1>1, WFMin
<1>3. \A m \in T : ~(m < n)
  <2>1. \A m \in T : <<m, n>> \in Nat \X Nat
    OBVIOUS
  <2>2. QED
    BY <1>2, <2>1, Zenon DEF OpToRel
<1>4. QED
  BY <1>3

\* What is appended lies behind what was there.
LEMMA AppendedItems ==
  ASSUME NEW T, NEW q \in Seq(T), NEW k \in Nat, NEW r \in [1..k -> T]
  PROVE  /\ q \o r \in Seq(T) /\ Len(q \o r) = Len(q) + k /\ Len(q) \in Nat
         /\ DOMAIN (q \o r) = 1..(Len(q) + k) /\ DOMAIN q = 1..Len(q)
         /\ \A i \in 1..Len(q) : (q \o r)[i] = q[i]
         /\ \A i \in 1..(Len(q) + k) : i \notin 1..Len(q) =>
              i - Len(q) \in 1..k /\ (q \o r)[i] = r[i - Len(q)]
<1>1. r \in Seq(T) /\ Len(r) = k
  OBVIOUS
<1>2. PICK a : a = q \o r
  OBVIOUS
<1>3. /\ a \in Seq(T) /\ Len(a) = Len(q) + k /\ Len(q) \in Nat
      /\ \A i \in 1..Len(a) : a[i] = IF i <= Len(q) THEN q[i] ELSE r[i - Len(q)]
  BY <1>1, <1>2, ConcatProperties
<1>4. DOMAIN a = 1..(Len(q) + k) /\ DOMAIN q = 1..Len(q)
  BY <1>3
<1>5. \A i \in 1..(Len(q) + k) : i \notin 1..Len(q) => i - Len(q) \in 1..k /\ ~(i <= Len(q))
  BY <1>3
<1>6. QED
  BY <1>2, <1>3, <1>4, <1>5

\* A sequence without its i-th member.
LEMMA RemovedAt ==
  ASSUME NEW S, NEW q \in Seq(S), NEW i \in 1..Len(q)
  PROVE  /\ RemoveAt(q, i) \in Seq(S)
         /\ Len(RemoveAt(q, i)) = Len(q) - 1
         /\ \A j \in 1..(Len(q) - 1) : RemoveAt(q, i)[j] = IF j < i THEN q[j] ELSE q[j + 1]
<1>1. PICK a : a = SubSeq(q, 1, i - 1)
  OBVIOUS
<1>2. PICK b : b = SubSeq(q, i + 1, Len(q))
  OBVIOUS
<1>3. a \in Seq(S) /\ Len(a) = i - 1 /\ \A j \in 1..(i - 1) : a[j] = q[j]
  BY <1>1
<1>4. b \in Seq(S) /\ Len(b) = Len(q) - i /\ \A j \in 1..(Len(q) - i) : b[j] = q[i + j]
  BY <1>2
<1>5. RemoveAt(q, i) = a \o b
  BY <1>1, <1>2 DEF RemoveAt
<1>6. Len(a \o b) = Len(q) - 1 /\ a \o b \in Seq(S)
  BY <1>3, <1>4
<1>7. \A j \in 1..(Len(q) - 1) : (a \o b)[j] = IF j < i THEN q[j] ELSE q[j + 1]
  BY <1>3, <1>4
<1>8. QED
  BY <1>5, <1>6, <1>7

-----------------------------------------------------------------------------
\* The component.

\* What encode_ops commits for one op.
Job == [node : Nodes, out : Buffers \cup {Slab},
        reads : SUBSET (Buffers \cup {Slab}), args : SUBSET (0..MaxNodes)]

\* BufferOf, when the nodes' buffers are f.
Buf(f, m) == IF m = 0 THEN Slab ELSE f[m]

\* The nodes of a call that has outputs but has populated no cache yet.
Working == IF doing \in {"eval", "abort"} THEN order ELSE {}

\* Nodes are numbered as they are built, inputs before their consumers.
Numbered ==
  /\ \A n \in Nodes : kind[n] # "unbuilt" => \A m \in 1..(n - 1) : kind[m] # "unbuilt"
  /\ \A n \in Roots : kind[n] # "unbuilt"
  /\ \A n \in Nodes : \A m \in ins[n] : m < n

\* The orders pinned are apart, and gate exactly the nodes nobody has waited for.
Batches ==
  /\ {} \notin pending
  /\ \A p, q \in pending : p \cap q # {} => p = q
  /\ order \cap UNION pending = {}
  /\ in_flight = (UNION pending) \cup (IF doing = "observe" THEN order ELSE {})
  /\ Working \cap cached = {}

\* The nodes with a buffer are those evaluated or being evaluated; updates have
\* the leaf's.
Outs ==
  \A n \in Nodes : /\ out[n] # None <=> n \in cached \cup Working
                   /\ out[n] # None => /\ kind[n] # "unbuilt"
                                       /\ kind[n] = "update" <=> out[n] = Slab

\* No two live tensors share a buffer of the pool.
Owned == \A n, m \in Alive : out[n] \in Buffers /\ out[n] = out[m] => n = m

\* A committed job belongs to a pinned order, writes its node's buffer and reads
\* its arguments', and no node has two jobs.
JobsMatch ==
  \A i \in 1..Len(queue) :
    /\ queue[i].node \in order \cup UNION pending
    /\ queue[i].out = out[queue[i].node]
    /\ queue[i].reads = {Buf(out, m) : m \in queue[i].args}
    /\ queue[i].args \subseteq {0} \cup cached
                                 \cup (IF queue[i].node \in Working THEN order ELSE {})
    /\ \A j \in 1..Len(queue) : queue[j].node = queue[i].node => i = j

IInv == /\ TypeOK /\ queue \in Seq(Job)
        /\ Numbered /\ Batches /\ Outs /\ Owned /\ JobsMatch

\* What m is worth: its value is in its buffer, or a failure it depends on shows.
Right(m) == m \in broken \/ m \in content[Buf(out, m)]

\* Something keeps the arguments of every committed job alive.
Pinned ==
  \A i \in 1..Len(queue) : \A m \in queue[i].args \ {0} :
    \/ m \in held
    \/ \E p \in pending : {m, queue[i].node} \subseteq p
    \/ {m, queue[i].node} \subseteq order
    \/ queue[i].node \in Working /\ m \in ins[queue[i].node]

\* An argument of a committed job is right, or an earlier job is to write it.
ArgsReady ==
  \A i \in 1..Len(queue) : \A m \in queue[i].args :
    Right(m) \/ \E j \in 1..(i - 1) : queue[j].node = m

\* The live nodes that are evaluated or that eval is about to make so.
Due == Alive \cap (cached \cup (IF doing = "eval" THEN order ELSE {}))

\* An evaluated tensor is right, or a committed job is to write it.
Settled == \A n \in Due : Right(n) \/ \E j \in 1..Len(queue) : queue[j].node = n

VInv == 0 \in content[Slab] /\ Pinned /\ ArgsReady /\ Settled
-----------------------------------------------------------------------------
\* A set of numbers can be listed in ascending order: no bound is the least
\* without such a list.
LEMMA AscendingExists ==
  ASSUME NEW K \in Nat, NEW S \in SUBSET (1..K)
  PROVE  /\ IsFiniteSet(S) /\ Cardinality(S) \in Nat
         /\ \E s \in [1..Cardinality(S) -> S] :
              \A i, j \in 1..Cardinality(S) : i < j => s[i] < s[j]
<1> DEFINE Listed(T) == \E s \in [1..Cardinality(T) -> T] :
                          \A i, j \in 1..Cardinality(T) : i < j => s[i] < s[j]
           Bad == {k \in Nat : \E T \in SUBSET (1..k) : ~Listed(T)}
<1>1. ASSUME NEW k \in Nat, NEW T \in SUBSET (1..k)
      PROVE  IsFiniteSet(T) /\ Cardinality(T) \in Nat
  <2>1. IsFiniteSet(1..k)
    BY FS_Interval
  <2>2. IsFiniteSet(T)
    BY <2>1, FS_Subset
  <2>3. QED
    BY <2>2, FS_CardinalityType
<1>2. ASSUME Bad # {} PROVE FALSE
  <2>1. PICK k \in Bad : \A j \in Bad : k <= j
    BY <1>2, LeastNatural
  <2>2. PICK T \in SUBSET (1..k) : ~Listed(T)
    BY <2>1
  <2>3. k # 0
    <3>1. ASSUME k = 0 PROVE FALSE
      <4>1. T = {}
        BY <3>1
      <4>2. Cardinality(T) = 0
        BY <4>1, FS_EmptySet
      <4>3. \A i \in 1..Cardinality(T) : FALSE
        BY <4>2
      <4>4. [i \in 1..Cardinality(T) |-> i] \in [1..Cardinality(T) -> T]
        BY <4>3
      <4>5. Listed(T)
        BY <4>3, <4>4
      <4>6. QED
        BY <2>2, <4>5
    <3>2. QED
      BY <3>1
  <2>4. k \in Nat /\ k - 1 \in Nat /\ k - 1 \notin Bad
    <3>1. k \in Nat
      BY <2>1
    <3>2. k - 1 \in Nat /\ ~(k <= k - 1)
      BY <2>3, <3>1
    <3>3. QED
      BY <2>1, <3>1, <3>2
  <2>5. k \in T
    <3>1. ASSUME k \notin T PROVE FALSE
      <4>1. T \in SUBSET (1..(k - 1))
        BY <2>4, <3>1
      <4>2. QED
        BY <2>2, <2>4, <4>1
    <3>2. QED
      BY <3>1
  <2>6. PICK U : U = T \ {k}
    OBVIOUS
  <2>7. U \in SUBSET (1..(k - 1)) /\ k \notin U /\ T = U \cup {k}
    BY <2>4, <2>5, <2>6
  <2>8. Listed(U)
    BY <2>4, <2>7
  <2>9. PICK c \in Nat : c = Cardinality(U)
    BY <1>1, <2>4, <2>7
  <2>10. Cardinality(T) = c + 1
    BY <1>1, <2>4, <2>7, <2>9, FS_AddElement
  <2>11. PICK s \in [1..c -> U] : \A i, j \in 1..c : i < j => s[i] < s[j]
    BY <2>8, <2>9
  <2>12. PICK t : t = [i \in 1..(c + 1) |-> IF i = c + 1 THEN k ELSE s[i]]
    OBVIOUS
  <2>13. \A i \in 1..(c + 1) : i # c + 1 => i \in 1..c
    OBVIOUS
  <2>14. \A i \in 1..c : s[i] \in U /\ s[i] < k
    <3>1. \A u \in U : u < k
      BY <2>4, <2>7
    <3>2. QED
      BY <2>11, <3>1
  <2>15. t \in [1..(c + 1) -> T]
    BY <2>7, <2>12, <2>13, <2>14
  <2>16. ASSUME NEW i \in 1..(c + 1), NEW j \in 1..(c + 1), i < j PROVE t[i] < t[j]
    <3>1. i \in 1..c /\ t[i] = s[i]
      BY <2>12, <2>16
    <3>2. CASE j = c + 1
      BY <2>12, <2>14, <3>1, <3>2
    <3>3. CASE j # c + 1
      <4>1. j \in 1..c /\ t[j] = s[j]
        BY <2>12, <2>13, <3>3
      <4>2. QED
        BY <2>11, <2>16, <3>1, <4>1
    <3>4. QED
      BY <3>2, <3>3
  <2>17. Listed(T)
    BY <2>10, <2>15, <2>16
  <2>18. QED
    BY <2>2, <2>17
<1>3. K \notin Bad
  BY <1>2
<1>4. QED
  BY <1>1, <1>3

\* Ascending lists every member, once, the smaller ones first.
LEMMA AscendingLists ==
  ASSUME NEW K \in Nat, NEW S \in SUBSET (1..K)
  PROVE  /\ IsFiniteSet(S) /\ Cardinality(S) \in Nat
         /\ Ascending(S) \in [1..Cardinality(S) -> S]
         /\ \A i, j \in 1..Cardinality(S) : i < j <=> Ascending(S)[i] < Ascending(S)[j]
         /\ \A x \in S : \E i \in 1..Cardinality(S) : Ascending(S)[i] = x
<1>1. PICK c \in Nat : c = Cardinality(S)
  BY AscendingExists
<1>2. \E s \in [1..c -> S] : \A i, j \in DOMAIN s : i < j => s[i] < s[j]
  <2>1. PICK s \in [1..c -> S] : \A i, j \in 1..c : i < j => s[i] < s[j]
    BY <1>1, AscendingExists
  <2>2. DOMAIN s = 1..c
    OBVIOUS
  <2>3. QED
    BY <2>1, <2>2
<1>3. PICK a : a = Ascending(S)
  OBVIOUS
<1>4. a \in [1..c -> S] /\ \A i, j \in DOMAIN a : i < j => a[i] < a[j]
  BY <1>1, <1>2, <1>3 DEF Ascending
<1>5. \A i \in 1..c : a[i] \in S /\ a[i] \in Nat
  <2>1. \A x \in S : x \in Nat
    OBVIOUS
  <2>2. QED
    BY <1>4, <2>1
<1>6. \A i, j \in 1..c : i < j => a[i] < a[j]
  BY <1>4
<1>7. ASSUME NEW i \in 1..c, NEW j \in 1..c, ~(i < j) PROVE ~(a[i] < a[j])
  <2>1. CASE i = j
    BY <1>5, <2>1
  <2>2. CASE i # j
    <3>1. j < i
      BY <1>7, <2>2
    <3>2. a[j] < a[i] /\ a[i] \in Nat /\ a[j] \in Nat
      BY <1>5, <1>6, <3>1
    <3>3. QED
      BY <3>2
  <2>3. QED
    BY <2>1, <2>2
<1>8. a \in Injection(1..c, S)
  <2>1. ASSUME NEW i \in 1..c, NEW j \in 1..c, a[i] = a[j] PROVE i = j
    <3>1. ~(i < j) /\ ~(j < i)
      BY <1>5, <1>6, <2>1
    <3>2. QED
      BY <3>1
  <2>2. QED
    BY <1>4, <2>1 DEF Injection, IsInjective
<1>9. IsFiniteSet(S) /\ IsFiniteSet(1..c) /\ Cardinality(1..c) = c
  <2>1. IsFiniteSet(S)
    BY AscendingExists
  <2>2. QED
    BY <2>1, FS_Interval
<1>10. a \in Surjection(1..c, S)
  BY <1>1, <1>8, <1>9, FS_Injection
<1>11. QED
  BY <1>1, <1>3, <1>4, <1>6, <1>7, <1>9, <1>10 DEF Surjection
-----------------------------------------------------------------------------
\* Below, as a function of the inputs.
BelowIn(g, R, H) ==
  {n \in Nodes \ H : \A S \in SUBSET (Nodes \ H) :
     R \ H \subseteq S /\ (\A m \in S : g[m] \ (H \cup {0}) \subseteq S) => n \in S}

\* What a walk finds holds where it starts and is closed under the inputs.
LEMMA BelowClosed ==
  ASSUME NEW g, NEW R \in SUBSET Nodes, NEW H,
         \A m \in Nodes : g[m] \subseteq 0..MaxNodes
  PROVE  /\ BelowIn(g, R, H) \subseteq Nodes \ H
         /\ R \ H \subseteq BelowIn(g, R, H)
         /\ \A m \in BelowIn(g, R, H) : g[m] \ (H \cup {0}) \subseteq BelowIn(g, R, H)
<1>1. BelowIn(g, R, H) \subseteq Nodes \ H
  BY DEF BelowIn
<1>2. R \ H \subseteq BelowIn(g, R, H)
  BY DEF BelowIn
<1>3. ASSUME NEW m \in BelowIn(g, R, H), NEW x \in g[m] \ (H \cup {0})
      PROVE  x \in BelowIn(g, R, H)
  <2>1. x \in Nodes \ H
    <3>1. x \in 0..MaxNodes /\ x # 0 /\ x \notin H
      BY <1>1, <1>3
    <3>2. QED
      BY <3>1, EvalAssumption DEF Nodes
  <2>2. ASSUME NEW S \in SUBSET (Nodes \ H), R \ H \subseteq S,
               \A y \in S : g[y] \ (H \cup {0}) \subseteq S
        PROVE  x \in S
    <3>1. m \in S
      BY <1>3, <2>2 DEF BelowIn
    <3>2. QED
      BY <1>3, <2>2, <3>1
  <2>3. QED
    BY <2>1, <2>2 DEF BelowIn
<1>4. QED
  BY <1>1, <1>2, <1>3

\* It is the least such set.
LEMMA BelowLeast ==
  ASSUME NEW g, NEW R, NEW H, NEW S \in SUBSET (Nodes \ H), R \ H \subseteq S,
         \A m \in S : g[m] \ (H \cup {0}) \subseteq S
  PROVE  BelowIn(g, R, H) \subseteq S
BY DEF BelowIn

\* Which nodes are alive, and which an evaluation reaches, as functions of the edges.
LEMMA AliveIn ==
  /\ Alive = BelowIn(ins, Roots, {})
  /\ Alive' = BelowIn(ins', Roots', {})
  /\ \A root : BuildOrder(root) = BelowIn(ins, {root}, cached)
BY DEF Alive, BuildOrder, Below, BelowIn

\* The types of what a queue of jobs holds.
LEMMA QueueTyped ==
  ASSUME NEW q \in Seq(Job)
  PROVE  /\ Len(q) \in Nat /\ DOMAIN q = 1..Len(q)
         /\ \A i \in 1..Len(q) : /\ q[i] \in Job /\ q[i].node \in Nodes
                                 /\ q[i].out \in Buffers \cup {Slab}
                                 /\ q[i].reads \subseteq Buffers \cup {Slab}
                                 /\ q[i].args \subseteq 0..MaxNodes
<1>1. PICK T : T = Job
  OBVIOUS
<1>2. q \in Seq(T)
  BY <1>1
<1>3. Len(q) \in Nat /\ DOMAIN q = 1..Len(q) /\ \A i \in 1..Len(q) : q[i] \in T
  BY <1>2
<1>4. QED
  BY <1>1, <1>3 DEF Job

\* The types of the members of each variable.
LEMMA Members ==
  ASSUME TypeOK, queue \in Seq(Job)
  PROVE  /\ Len(queue) \in Nat /\ DOMAIN queue = 1..Len(queue)
         /\ \A i \in 1..Len(queue) :
              /\ queue[i] \in Job /\ queue[i].node \in Nodes
              /\ queue[i].out \in Buffers \cup {Slab}
              /\ queue[i].reads \subseteq Buffers \cup {Slab}
              /\ queue[i].args \subseteq 0..MaxNodes
         /\ Roots \subseteq Nodes /\ UNION pending \subseteq Nodes
         /\ \A m \in Nodes : ins[m] \subseteq 0..MaxNodes
<1>1. /\ Roots \subseteq Nodes /\ UNION pending \subseteq Nodes
      /\ \A m \in Nodes : ins[m] \subseteq 0..MaxNodes
  BY DEF TypeOK, Roots
<1>2. QED
  BY <1>1, QueueTyped, Zenon

\* What is held, in a call or pinned is alive, and keeps its inputs alive.
LEMMA AliveClosed ==
  ASSUME TypeOK, queue \in Seq(Job)
  PROVE  /\ Alive \subseteq Nodes /\ Roots \subseteq Alive
         /\ \A m \in Alive : ins[m] \ {0} \subseteq Alive
<1>1. PICK g : g = ins
  OBVIOUS
<1>2. PICK R \in SUBSET Nodes : R = Roots
  BY Members
<1>3. \A m \in Nodes : g[m] \subseteq 0..MaxNodes
  BY <1>1, Members
<1>4. /\ BelowIn(g, R, {}) \subseteq Nodes \ {}
      /\ R \ {} \subseteq BelowIn(g, R, {})
      /\ \A m \in BelowIn(g, R, {}) : g[m] \ ({} \cup {0}) \subseteq BelowIn(g, R, {})
  BY <1>3, BelowClosed
<1>5. Alive = BelowIn(g, R, {})
  BY <1>1, <1>2, AliveIn
<1>6. QED
  BY <1>1, <1>2, <1>4, <1>5

\* A step that neither roots nor links anything else lets nodes die only.
LEMMA AliveWithin ==
  ASSUME NEW S \in SUBSET Nodes, Roots' \subseteq S, \A m \in S : ins'[m] \ {0} \subseteq S
  PROVE  Alive' \subseteq S
<1>1. S \in SUBSET (Nodes \ {}) /\ Roots' \ {} \subseteq S
      /\ \A m \in S : ins'[m] \ ({} \cup {0}) \subseteq S
  OBVIOUS
<1>2. BelowIn(ins', Roots', {}) \subseteq S
  BY <1>1, BelowLeast
<1>3. QED
  BY <1>2, AliveIn

\* Live tensors have been built.
LEMMA AliveBuilt ==
  ASSUME TypeOK, queue \in Seq(Job), Numbered
  PROVE  \A n \in Alive : kind[n] # "unbuilt"
<1>1. PICK S \in SUBSET (Nodes \ {}) : S = {n \in Nodes : kind[n] # "unbuilt"}
  OBVIOUS
<1>2. Roots \ {} \subseteq S
  BY <1>1, Members DEF Numbered
<1>3. ASSUME NEW m \in S, NEW x \in ins[m] \ ({} \cup {0}) PROVE x \in S
  <2>1. x \in Nodes /\ x \in 1..(m - 1)
    BY <1>1, <1>3, EvalAssumption, Members DEF Numbered, Nodes
  <2>2. QED
    BY <1>1, <2>1 DEF Numbered
<1>4. BelowIn(ins, Roots, {}) \subseteq S
  BY <1>2, <1>3, BelowLeast
<1>5. QED
  BY <1>1, <1>4, AliveIn

\* What eval encodes is alive and not yet evaluated; its inputs are encoded with
\* it, or evaluated, or the leaf.
LEMMA BuildOrderFacts ==
  ASSUME TypeOK, queue \in Seq(Job), NEW root \in held
  PROVE  /\ BuildOrder(root) \subseteq Alive /\ BuildOrder(root) \subseteq Nodes
         /\ BuildOrder(root) \cap cached = {}
         /\ \A n \in BuildOrder(root) : ins[n] \subseteq {0} \cup cached \cup BuildOrder(root)
<1>1. PICK g : g = ins
  OBVIOUS
<1>2. {root} \in SUBSET Nodes /\ \A m \in Nodes : g[m] \subseteq 0..MaxNodes
  BY <1>1, Members DEF TypeOK
<1>3. PICK ord : ord = BuildOrder(root)
  OBVIOUS
<1>4. ord = BelowIn(g, {root}, cached)
  BY <1>1, <1>3, AliveIn
<1>5. /\ ord \subseteq Nodes \ cached
      /\ \A m \in ord : g[m] \ (cached \cup {0}) \subseteq ord
  BY <1>2, <1>4, BelowClosed
<1>6. PICK S \in SUBSET (Nodes \ cached) : S = Alive \ cached
  BY AliveClosed
<1>7. {root} \ cached \subseteq S
  BY <1>6, AliveClosed DEF Roots
<1>8. \A m \in S : g[m] \ (cached \cup {0}) \subseteq S
  BY <1>1, <1>6, AliveClosed
<1>9. ord \subseteq S
  BY <1>4, <1>7, <1>8, BelowLeast
<1>10. QED
  BY <1>1, <1>3, <1>5, <1>6, <1>9

\* The job of node n of an order.
JobOf(ord, o, n) ==
  [node |-> n, out |-> o[n],
   reads |-> {IF m \in ord THEN o[m] ELSE BufferOf(m) : m \in ins[n]}, args |-> ins[n]]

\* The first k jobs of an order: inputs before their consumers.
LEMMA JobsAre ==
  ASSUME NEW ord \in SUBSET Nodes, NEW o, NEW c, c = Cardinality(ord), NEW k \in 0..c
  PROVE  \E a \in [1..c -> ord] :
           /\ \A i, j \in 1..c : i < j <=> a[i] < a[j]
           /\ \A x \in ord : \E i \in 1..c : a[i] = x
           /\ Jobs(ord, o, k) = [i \in 1..k |-> Jobs(ord, o, k)[i]]
           /\ \A i \in 1..k : Jobs(ord, o, k)[i] = JobOf(ord, o, a[i])
<1>1. PICK a : a = Ascending(ord)
  OBVIOUS
<1>2. /\ a \in [1..c -> ord]
      /\ \A i, j \in 1..c : i < j <=> a[i] < a[j]
      /\ \A x \in ord : \E i \in 1..c : a[i] = x
  BY <1>1, AscendingLists, EvalAssumption DEF Nodes
<1>3. Jobs(ord, o, k) = [i \in 1..k |-> JobOf(ord, o, a[i])]
  BY <1>1, Zenon DEF Jobs, JobOf
<1>4. QED
  BY <1>2, <1>3

\* Job i of queue q, encoded for a node of ord with outputs f: no other job is
\* for that node, and an input encoded with it has an earlier job.
NewJob(q, f, ord, i) ==
  /\ q[i].node \in ord /\ q[i].out = f[q[i].node]
  /\ q[i].args = ins[q[i].node]
  /\ q[i].reads = {Buf(f, m) : m \in ins[q[i].node]}
  /\ \A j \in 1..Len(q) : q[j].node = q[i].node => i = j
  /\ \A m \in q[i].args \cap ord : \E j \in 1..(i - 1) : q[j].node = m

\* What an encoding of the nodes of ord leaves in the queue and in out.
Encoding(ord, k) ==
  /\ k \in Nat
  /\ queue' \in Seq(Job) /\ Len(queue') = Len(queue) + k
  /\ \A i \in 1..Len(queue) : queue'[i] = queue[i]
  /\ \A i \in 1..Len(queue') : i \notin 1..Len(queue) => NewJob(queue', out', ord, i)
  /\ k = Cardinality(ord) => \A n \in ord : \E i \in 1..Len(queue') : queue'[i].node = n
  /\ out' \in [Nodes -> Buffers \cup {Slab, None}]
  /\ \A n \in Nodes \ ord : out'[n] = out[n]
  /\ \A n \in ord : /\ out'[n] \in Buffers \cup {Slab}
                    /\ kind[n] = "update" <=> out'[n] = Slab
  /\ \A n, m \in Alive : out'[n] \in Buffers /\ out'[n] = out'[m] => n = m
  /\ \A m \in {0} \cup cached : Buf(out', m) = Buf(out, m)

\* What an order is: it is alive, not evaluated, and pins no job yet.
LEMMA FreshOrder ==
  ASSUME IInv, doing = "no", NEW root \in held, NEW ord, ord = BuildOrder(root)
  PROVE  /\ ord \in SUBSET Nodes /\ ord \subseteq Alive /\ ord \cap cached = {}
         /\ \A n \in ord : ins[n] \subseteq {0} \cup cached \cup ord
         /\ \A n \in ord : out[n] = None /\ kind[n] # "unbuilt"
         /\ ord \cap UNION pending = {}
         /\ order = {} /\ Working = {}
         /\ \A i \in 1..Len(queue) : queue[i].node \notin ord /\ queue[i].node \in cached
         /\ \A i \in 1..Len(queue) : queue[i].args \subseteq {0} \cup cached
<1>1. /\ ord \in SUBSET Nodes /\ ord \subseteq Alive /\ ord \cap cached = {}
      /\ \A n \in ord : ins[n] \subseteq {0} \cup cached \cup ord
  BY BuildOrderFacts DEF IInv
<1>2. order = {} /\ Working = {}
  BY DEF IInv, TypeOK, Working
<1>3. \A n \in ord : out[n] = None /\ kind[n] # "unbuilt"
  BY <1>1, <1>2, AliveBuilt DEF IInv, Outs
<1>4. UNION pending \subseteq cached
  BY <1>2 DEF IInv, TypeOK, Batches
<1>5. \A i \in 1..Len(queue) : /\ queue[i].node \notin ord /\ queue[i].node \in cached
                                /\ queue[i].args \subseteq {0} \cup cached
  BY <1>1, <1>2, <1>4, Members DEF IInv, JobsMatch
<1>6. QED
  BY <1>1, <1>2, <1>3, <1>4, <1>5

\* An order has a number of nodes.
LEMMA OrderCounted ==
  ASSUME NEW ord \in SUBSET Nodes
  PROVE  Cardinality(ord) \in Nat /\ Cardinality(ord) \in 0..Cardinality(ord)
<1>1. PICK K \in Nat : K = MaxNodes
  BY EvalAssumption
<1>2. ord \in SUBSET (1..K)
  BY <1>1 DEF Nodes
<1>3. Cardinality(ord) \in Nat
  BY <1>2, AscendingExists
<1>4. QED
  BY <1>3

\* The outputs encode_ops allocates.
LEMMA OutputsAre ==
  ASSUME IInv, NEW ord \in SUBSET Nodes, ord \subseteq Alive, ord \cap cached = {},
         NEW o \in Outputs(ord), out' = WithOutputs(o)
  PROVE  /\ out' \in [Nodes -> Buffers \cup {Slab, None}]
         /\ \A n \in Nodes \ ord : out'[n] = out[n]
         /\ \A n \in ord : /\ out'[n] = o[n] /\ out'[n] \in Buffers \cup {Slab}
                           /\ kind[n] = "update" <=> out'[n] = Slab
         /\ \A n, m \in Alive : out'[n] \in Buffers /\ out'[n] = out'[m] => n = m
         /\ \A m \in {0} \cup cached : Buf(out', m) = Buf(out, m)
<1>1. /\ o \in [ord -> Free \cup {Slab}] /\ DOMAIN o = ord
      /\ \A n \in ord : kind[n] = "update" <=> o[n] = Slab
      /\ \A n, m \in ord : o[n] = o[m] /\ o[n] # Slab => n = m
  BY DEF Outputs
<1>2. out' = [n \in Nodes |-> IF n \in ord THEN o[n] ELSE out[n]]
  BY <1>1 DEF WithOutputs
<1>3. \A n \in Nodes : out[n] \in Buffers \cup {Slab, None}
  BY DEF IInv, TypeOK
<1>4. \A n \in ord : o[n] \in Buffers \cup {Slab}
  BY <1>1 DEF Free
<1>5. out' \in [Nodes -> Buffers \cup {Slab, None}]
  BY <1>2, <1>3, <1>4
<1>6. Slab \notin Buffers
  BY EvalAssumption
<1>7. ASSUME NEW n \in Alive, NEW m \in Alive, out'[n] \in Buffers, out'[n] = out'[m]
      PROVE  n = m
  <2>1. n \in Nodes /\ m \in Nodes
    BY AliveClosed DEF IInv
  <2>2. CASE n \in ord /\ m \in ord
    BY <1>1, <1>2, <1>6, <1>7, <2>1, <2>2
  <2>3. CASE n \notin ord /\ m \notin ord
    BY <1>2, <1>7, <2>1, <2>3 DEF IInv, Owned
  <2>4. ASSUME NEW x \in ord, NEW y \in Alive \ ord, o[x] = out[y], o[x] \in Buffers
        PROVE  FALSE
    BY <1>1, <1>6, <2>4 DEF Free
  <2>5. QED
    BY <1>2, <1>7, <2>1, <2>2, <2>3, <2>4
<1>8. \A m \in {0} \cup cached : Buf(out', m) = Buf(out, m)
  BY <1>2 DEF Buf, IInv, TypeOK
<1>9. QED
  BY <1>1, <1>2, <1>4, <1>5, <1>7, <1>8

\* What encoding a graph into jobs leaves behind.
LEMMA Encodes ==
  ASSUME IInv, doing = "no", NEW root \in held, NEW ord, ord = BuildOrder(root),
         NEW o \in Outputs(ord), NEW k \in 0..Cardinality(ord),
         out' = WithOutputs(o), queue' = queue \o Jobs(ord, o, k)
  PROVE  Encoding(ord, k)
<1>1. ord \in SUBSET Nodes /\ ord \subseteq Alive /\ ord \cap cached = {}
  BY FreshOrder
<1>2. \A n \in ord : ins[n] \subseteq {0} \cup cached \cup ord /\ ins[n] \subseteq 0..MaxNodes
  BY <1>1, FreshOrder, Members DEF IInv
<1>3. /\ out' \in [Nodes -> Buffers \cup {Slab, None}]
      /\ \A n \in Nodes \ ord : out'[n] = out[n]
      /\ \A n \in ord : /\ out'[n] = o[n] /\ out'[n] \in Buffers \cup {Slab}
                        /\ kind[n] = "update" <=> out'[n] = Slab
      /\ \A n, m \in Alive : out'[n] \in Buffers /\ out'[n] = out'[m] => n = m
      /\ \A m \in {0} \cup cached : Buf(out', m) = Buf(out, m)
  BY <1>1, OutputsAre
<1>4. PICK c \in Nat : c = Cardinality(ord)
  BY <1>1, OrderCounted
<1>5. k \in Nat /\ k \in 0..c
  BY <1>4
<1>6. PICK a \in [1..c -> ord] :
        /\ \A i, j \in 1..c : i < j <=> a[i] < a[j]
        /\ \A x \in ord : \E i \in 1..c : a[i] = x
        /\ Jobs(ord, o, k) = [i \in 1..k |-> Jobs(ord, o, k)[i]]
        /\ \A i \in 1..k : Jobs(ord, o, k)[i] = JobOf(ord, o, a[i])
  <2>1. ord \in SUBSET Nodes /\ c = Cardinality(ord) /\ k \in 0..c
    BY <1>1, <1>4, <1>5
  <2>2. QED
    BY <2>1, JobsAre
<1>7. PICK r : r = Jobs(ord, o, k)
  OBVIOUS
<1>8. \A i \in 1..k : i \in 1..c /\ a[i] \in ord
  BY <1>5, <1>6
<1>9. \A n \in ord : \A m \in ins[n] : (IF m \in ord THEN o[m] ELSE BufferOf(m)) = Buf(out', m)
  <2>1. ASSUME NEW n \in ord, NEW m \in ins[n]
        PROVE  (IF m \in ord THEN o[m] ELSE BufferOf(m)) = Buf(out', m)
    <3>1. m \in ord => m # 0 /\ out'[m] = o[m]
      BY <1>1, <1>3, EvalAssumption DEF Nodes
    <3>2. m \notin ord => m \in {0} \cup cached
      BY <1>2
    <3>3. QED
      BY <1>3, <3>1, <3>2 DEF Buf, BufferOf
  <2>2. QED
    BY <2>1
<1>10. ASSUME NEW i \in 1..k
       PROVE  /\ r[i] \in Job /\ r[i].node = a[i] /\ r[i].out = out'[a[i]]
              /\ r[i].args = ins[a[i]]
              /\ r[i].reads = {Buf(out', m) : m \in ins[a[i]]}
  <2>1. PICK n \in ord : n = a[i]
    BY <1>8
  <2>2. r[i] = [node |-> n, out |-> o[n],
                reads |-> {IF m \in ord THEN o[m] ELSE BufferOf(m) : m \in ins[n]},
                args |-> ins[n]]
    BY <1>6, <1>7, <2>1 DEF JobOf
  <2>3. {IF m \in ord THEN o[m] ELSE BufferOf(m) : m \in ins[n]} = {Buf(out', m) : m \in ins[n]}
    BY <1>9
  <2>4. \A m \in ins[n] : Buf(out', m) \in Buffers \cup {Slab}
    <3>1. ASSUME NEW m \in ins[n] PROVE Buf(out', m) \in Buffers \cup {Slab}
      <4>1. CASE m = 0
        BY <4>1 DEF Buf
      <4>2. CASE m \in ord
        BY <1>1, <1>3, <4>2, EvalAssumption DEF Nodes, Buf
      <4>3. CASE m \in cached /\ m # 0
        BY <1>3, <4>3 DEF Buf, IInv, Outs, TypeOK
      <4>4. QED
        BY <1>2, <4>1, <4>2, <4>3
    <3>2. QED
      BY <3>1
  <2>5. PICK R \in SUBSET (Buffers \cup {Slab}) : R = {Buf(out', m) : m \in ins[n]}
    BY <2>4
  <2>6. n \in Nodes /\ o[n] \in Buffers \cup {Slab} /\ ins[n] \in SUBSET (0..MaxNodes)
    BY <1>1, <1>2, <1>3
  <2>7. r[i] = [node |-> n, out |-> o[n], reads |-> R, args |-> ins[n]]
    BY <2>2, <2>3, <2>5, Zenon
  <2>8. r[i] \in Job
    BY <2>6, <2>7 DEF Job
  <2>9. QED
    BY <1>3, <2>1, <2>5, <2>7, <2>8
<1>11. PICK T : T = Job
  OBVIOUS
<1>12. r \in [1..k -> T]
  <2>1. DOMAIN r = 1..k /\ r = [i \in 1..k |-> r[i]]
    BY <1>6, <1>7
  <2>2. \A i \in 1..k : r[i] \in T
    BY <1>10, <1>11
  <2>3. QED
    BY <2>1, <2>2
<1>13. queue \in Seq(T)
  BY <1>11 DEF IInv
<1>14. PICK q : q = queue'
  OBVIOUS
<1>15. /\ q \in Seq(T) /\ Len(q) = Len(queue) + k /\ Len(queue) \in Nat
       /\ \A i \in 1..Len(queue) : q[i] = queue[i]
       /\ \A i \in 1..(Len(queue) + k) : i \notin 1..Len(queue) =>
            i - Len(queue) \in 1..k /\ q[i] = r[i - Len(queue)]
  <2>1. q = queue \o r
    BY <1>7, <1>14
  <2>2. k \in Nat /\ queue \in Seq(T) /\ r \in [1..k -> T]
    BY <1>5, <1>12, <1>13
  <2>3. /\ queue \o r \in Seq(T) /\ Len(queue \o r) = Len(queue) + k /\ Len(queue) \in Nat
        /\ \A i \in 1..Len(queue) : (queue \o r)[i] = queue[i]
        /\ \A i \in 1..(Len(queue) + k) : i \notin 1..Len(queue) =>
             i - Len(queue) \in 1..k /\ (queue \o r)[i] = r[i - Len(queue)]
    BY <2>2, AppendedItems
  <2>4. QED
    BY <2>1, <2>3, Zenon
<1>16. PICK l \in Nat : l = Len(queue)
  BY <1>15
<1>17. \A i \in 1..k : l + i \in 1..(l + k) /\ q[l + i] = r[i]
  <2>1. ASSUME NEW i \in 1..k PROVE l + i \in 1..(l + k) /\ q[l + i] = r[i]
    <3>1. l + i \in 1..(l + k) /\ l + i \notin 1..l /\ (l + i) - l = i
      BY <1>5
    <3>2. QED
      BY <1>15, <1>16, <3>1
  <2>2. QED
    BY <2>1
<1>18. ASSUME NEW i \in 1..(l + k), i \notin 1..l
       PROVE  /\ q[i].node \in ord /\ q[i].out = out'[q[i].node]
              /\ q[i].args = ins[q[i].node]
              /\ q[i].reads = {Buf(out', m) : m \in ins[q[i].node]}
              /\ \A j \in 1..(l + k) : q[j].node = q[i].node => i = j
              /\ \A m \in q[i].args \cap ord : \E j \in 1..(i - 1) : q[j].node = m
  <2>1. PICK x \in 1..k : x = i - l /\ q[i] = r[x]
    BY <1>15, <1>16, <1>18
  <2>2. /\ q[i].node = a[x] /\ q[i].out = out'[a[x]] /\ q[i].args = ins[a[x]]
        /\ q[i].reads = {Buf(out', m) : m \in ins[a[x]]} /\ a[x] \in ord
    BY <1>8, <1>10, <2>1
  <2>3. ASSUME NEW j \in 1..(l + k), q[j].node = q[i].node PROVE i = j
    <3>1. CASE j \in 1..l
      <4>1. queue[j].node \notin ord
        BY <1>16, <3>1, FreshOrder
      <4>2. QED
        BY <1>15, <1>16, <2>2, <2>3, <3>1, <4>1
    <3>2. CASE j \notin 1..l
      <4>1. PICK y \in 1..k : y = j - l /\ q[j] = r[y]
        BY <1>15, <1>16, <3>2
      <4>2. a[x] = a[y] /\ x \in 1..c /\ y \in 1..c
        BY <1>8, <1>10, <2>2, <2>3, <4>1
      <4>3. a[x] \in Nat
        BY <1>1, <2>2 DEF Nodes
      <4>4. ~(a[x] < a[y]) /\ ~(a[y] < a[x])
        BY <4>2, <4>3
      <4>5. x = y
        BY <1>6, <4>2, <4>4
      <4>6. QED
        BY <2>1, <4>1, <4>5
    <3>3. QED
      BY <3>1, <3>2
  <2>4. ASSUME NEW m \in q[i].args \cap ord PROVE \E j \in 1..(i - 1) : q[j].node = m
    <3>1. PICK y \in 1..c : a[y] = m
      BY <1>6, <2>4
    <3>2. a[y] < a[x]
      BY <1>1, <2>2, <2>4, <3>1 DEF IInv, Numbered
    <3>3. y < x /\ y \in 1..k
      BY <1>5, <1>6, <1>8, <3>1, <3>2
    <3>4. q[l + y].node = m
      BY <1>10, <1>17, <3>1, <3>3
    <3>5. l + y \in 1..(i - 1)
      BY <1>5, <2>1, <3>3
    <3>6. QED
      BY <3>4, <3>5
  <2>5. QED
    BY <2>2, <2>3, <2>4
<1>19. ASSUME k = Cardinality(ord), NEW n \in ord
       PROVE  \E i \in 1..(l + k) : q[i].node = n
  <2>1. PICK y \in 1..c : a[y] = n
    BY <1>6
  <2>2. y \in 1..k
    BY <1>4, <1>19
  <2>3. QED
    BY <1>10, <1>17, <2>1, <2>2
<1>20. q \in Seq(Job) /\ Len(q) = l + k
  BY <1>11, <1>15, <1>16
<1>21. \A i \in 1..Len(q) : i \notin 1..l => NewJob(q, out', ord, i)
  BY <1>18, <1>20, Zenon DEF NewJob
<1>22. k = Cardinality(ord) => \A n \in ord : \E i \in 1..Len(q) : q[i].node = n
  BY <1>19, <1>20, Zenon
<1>23. Len(q) = Len(queue) + k /\ \A i \in 1..l : q[i] = queue[i]
  BY <1>15, <1>16
<1>24. /\ queue' \in Seq(Job) /\ Len(queue') = Len(queue) + k
       /\ \A i \in 1..Len(queue) : queue'[i] = queue[i]
  BY <1>14, <1>16, <1>20, <1>23
<1>25. \A i \in 1..Len(queue') : i \notin 1..Len(queue) => NewJob(queue', out', ord, i)
  BY <1>14, <1>16, <1>21
<1>26. k = Cardinality(ord) => \A n \in ord : \E i \in 1..Len(queue') : queue'[i].node = n
  BY <1>14, <1>22, Zenon
<1>27. QED
  BY <1>3, <1>5, <1>24, <1>25, <1>26, Zenon DEF Encoding
-----------------------------------------------------------------------------
\* The invariant holds at the start.
LEMMA InitIInv == Init => IInv
<1> SUFFICES ASSUME Init PROVE IInv
  OBVIOUS
<1>1. TypeOK
  <2>1. faults \in 0..MaxFaults
    BY EvalAssumption DEF Init
  <2>2. /\ kind \in [Nodes -> {"unbuilt", "op", "update"}]
        /\ ins \in [Nodes -> SUBSET (0..MaxNodes)]
        /\ out \in [Nodes -> Buffers \cup {Slab, None}]
    BY DEF Init
  <2>3. content \in [Buffers \cup {Slab} -> SUBSET (0..MaxNodes)]
    BY EvalAssumption DEF Init
  <2>4. QED
    BY <2>1, <2>2, <2>3 DEF Init, TypeOK
<1>2. queue \in Seq(Job) /\ Len(queue) = 0
  BY DEF Init
<1>3. Numbered
  BY DEF Init, Numbered, Roots
<1>4. Batches
  BY DEF Init, Batches, Working
<1>5. Outs
  BY DEF Init, Outs, Working
<1>6. Owned
  <2>1. \A n \in Alive : out[n] = None
    BY <1>1, <1>2, AliveClosed DEF Init
  <2>2. QED
    BY <2>1, EvalAssumption DEF Owned
<1>7. JobsMatch
  BY <1>2 DEF JobsMatch
<1>8. QED
  BY <1>1, <1>2, <1>3, <1>4, <1>5, <1>6, <1>7 DEF IInv

\* A step that keeps the buffers of what stays alive keeps them apart.
LEMMA OwnedKept ==
  ASSUME Owned, Alive' \subseteq Alive, \A n \in Alive' : out'[n] = out[n]
  PROVE  Owned'
BY DEF Owned

\* Building an op adds no node to the living but the new one.
LEMMA BuildAlive ==
  ASSUME IInv, NEW n \in Nodes, NEW k, NEW S \in SUBSET (0..MaxNodes), Build(n, k, S)
  PROVE  Alive' \subseteq Alive \cup {n}
<1>1. PICK A \in SUBSET Nodes : A = Alive \cup {n}
  BY AliveClosed DEF IInv
<1>2. Roots' \subseteq A
  BY <1>1, AliveClosed DEF IInv, Build, Roots
<1>3. \A m \in A : ins'[m] \ {0} \subseteq A
  <2>1. S \ {0} \subseteq A
    BY <1>1, AliveClosed DEF IInv, Build, Roots
  <2>2. \A m \in Alive : ins[m] \ {0} \subseteq A
    BY <1>1, AliveClosed DEF IInv
  <2>3. \A m \in Nodes : ins'[m] = IF m = n THEN S ELSE ins[m]
    BY DEF Build, IInv, TypeOK
  <2>4. QED
    BY <1>1, <2>1, <2>2, <2>3
<1>4. QED
  BY <1>1, <1>2, <1>3, AliveWithin

\* Building an op.
LEMMA BuildStep ==
  ASSUME IInv, NEW n \in Nodes, NEW k \in {"op", "update"}, NEW S \in SUBSET (0..MaxNodes),
         Build(n, k, S)
  PROVE  IInv'
<1>1. /\ kind' = [kind EXCEPT ![n] = k] /\ ins' = [ins EXCEPT ![n] = S]
      /\ held' = held \cup {n} /\ kind[n] = "unbuilt"
      /\ \A m \in 1..(n - 1) : kind[m] # "unbuilt"
      /\ S \subseteq held \cup {0}
      /\ UNCHANGED <<out, cached, in_flight, pending, doing, order, queue, content,
                     failed, broken, faults>>
  BY DEF Build
<1>2. /\ kind \in [Nodes -> {"unbuilt", "op", "update"}]
      /\ ins \in [Nodes -> SUBSET (0..MaxNodes)] /\ held \subseteq Nodes
  BY DEF IInv, TypeOK
<1>3. /\ \A m \in Nodes : kind'[m] = IF m = n THEN k ELSE kind[m]
      /\ \A m \in Nodes : ins'[m] = IF m = n THEN S ELSE ins[m]
  BY <1>1, <1>2
<1>4. TypeOK'
  <2>1. /\ kind' \in [Nodes -> {"unbuilt", "op", "update"}]
        /\ ins' \in [Nodes -> SUBSET (0..MaxNodes)] /\ held' \subseteq Nodes
    BY <1>1, <1>2
  <2>2. QED
    BY <1>1, <2>1 DEF IInv, TypeOK
<1>5. queue' \in Seq(Job)
  BY <1>1 DEF IInv
<1>6. Numbered'
  <2>1. \A m \in Nodes : m \in Nat
    BY DEF Nodes
  <2>2. ASSUME NEW x \in Nodes, kind'[x] # "unbuilt", NEW y \in 1..(x - 1)
        PROVE  kind'[y] # "unbuilt"
    <3>1. y \in Nodes
      BY EvalAssumption DEF Nodes
    <3>2. CASE x = n
      BY <1>1, <1>3, <2>2, <3>1, <3>2
    <3>3. CASE x # n
      BY <1>3, <2>2, <3>1, <3>3 DEF IInv, Numbered
    <3>4. QED
      BY <3>2, <3>3
  <2>3. \A x \in Roots' : kind'[x] # "unbuilt"
    BY <1>1, <1>3, Members DEF IInv, Numbered, Roots
  <2>4. ASSUME NEW m \in S PROVE m < n
    <3>1. CASE m = 0
      BY <2>1, <3>1 DEF Nodes
    <3>2. CASE m \in held
      <4>1. m \in Nodes /\ kind[m] # "unbuilt"
        BY <1>2, <3>2 DEF IInv, Numbered, Roots
      <4>2. ASSUME n < m PROVE FALSE
        <5>1. n \in 1..(m - 1)
          BY <4>1, <4>2 DEF Nodes
        <5>2. QED
          BY <1>1, <4>1, <5>1 DEF IInv, Numbered
      <4>3. n # m /\ n \in Nat /\ m \in Nat
        BY <1>1, <2>1, <4>1
      <4>4. QED
        BY <4>2, <4>3
    <3>3. QED
      BY <1>1, <3>1, <3>2
  <2>5. \A x \in Nodes : \A m \in ins'[x] : m < x
    BY <1>3, <2>4 DEF IInv, Numbered
  <2>6. QED
    BY <2>2, <2>3, <2>5 DEF Numbered
<1>7. Batches'
  BY <1>1 DEF IInv, Batches, Working
<1>8. out[n] = None
  BY <1>1 DEF IInv, Outs
<1>9. Outs'
  BY <1>1, <1>3, <1>8 DEF IInv, Outs, Working
<1>10. Owned'
  BY <1>1, <1>8, BuildAlive, EvalAssumption DEF IInv, Owned
<1>11. JobsMatch'
  BY <1>1 DEF IInv, JobsMatch, Working
<1>12. QED
  BY <1>4, <1>5, <1>6, <1>7, <1>9, <1>10, <1>11 DEF IInv

\* When the roots are a part of what they were, and inputs too, nodes only die.
LEMMA Shrinks ==
  ASSUME IInv, Roots' \subseteq Alive, \A m \in Nodes : ins'[m] \subseteq ins[m]
  PROVE  Alive' \subseteq Alive
<1>1. Alive \in SUBSET Nodes /\ \A m \in Alive : ins'[m] \ {0} \subseteq Alive
  BY AliveClosed DEF IInv
<1>2. PICK S \in SUBSET Nodes : S = Alive
  BY <1>1
<1>3. Roots' \subseteq S /\ \A m \in S : ins'[m] \ {0} \subseteq S
  BY <1>1, <1>2
<1>4. QED
  BY <1>2, <1>3, AliveWithin

\* A tensor is dropped.
LEMMA DropStep ==
  ASSUME IInv, NEW n \in Nodes, Drop(n)
  PROVE  IInv' /\ Alive' \subseteq Alive
<1>1. /\ held' = held \ {n}
      /\ UNCHANGED <<kind, ins, out, cached, in_flight, pending, doing, order, queue, content,
                     failed, broken, faults>>
  BY DEF Drop
<1>2. Roots' \subseteq Roots
  BY <1>1 DEF Roots
<1>3. Alive' \subseteq Alive
  BY <1>1, <1>2, Shrinks, AliveClosed DEF IInv
<1>4. TypeOK' /\ queue' \in Seq(Job)
  BY <1>1 DEF IInv, TypeOK
<1>5. Numbered'
  BY <1>1, <1>2 DEF IInv, Numbered
<1>6. Batches' /\ Outs'
  BY <1>1 DEF IInv, Batches, Outs, Working
<1>7. Owned'
  BY <1>1, <1>3 DEF IInv, Owned
<1>8. JobsMatch'
  BY <1>1 DEF IInv, JobsMatch, Working
<1>9. QED
  BY <1>3, <1>4, <1>5, <1>6, <1>7, <1>8 DEF IInv

\* A PendingEval is waited for or dropped.
LEMMA ObserveStep ==
  ASSUME IInv, NEW p \in pending, Observe(p)
  PROVE  IInv' /\ Alive' \subseteq Alive
<1>1. /\ pending' = pending \ {p} /\ order' = p /\ doing' = "observe" /\ doing = "no"
      /\ UNCHANGED <<graph, out, cached, in_flight, queue, content, failed, broken, faults>>
  BY DEF Observe
<1>2. order = {} /\ Working = {} /\ Working' = {}
  BY <1>1 DEF IInv, TypeOK, Working
<1>3. UNION pending = (UNION pending') \cup p /\ order' \cap UNION pending' = {}
  BY <1>1 DEF IInv, Batches
<1>4. Roots' = Roots
  BY <1>1, <1>2, <1>3 DEF Roots, graph
<1>5. Alive' \subseteq Alive
  BY <1>1, <1>4, Shrinks, AliveClosed DEF IInv, graph
<1>6. TypeOK' /\ queue' \in Seq(Job)
  BY <1>1 DEF IInv, TypeOK, Batches, graph
<1>7. Numbered'
  BY <1>1, <1>4 DEF IInv, Numbered, graph
<1>8. Batches' /\ Outs'
  BY <1>1, <1>2, <1>3 DEF IInv, Batches, Outs, graph
<1>9. Owned'
  BY <1>1, <1>5 DEF IInv, Owned
<1>10. JobsMatch'
  BY <1>1, <1>2, <1>3 DEF IInv, JobsMatch
<1>11. QED
  BY <1>5, <1>6, <1>7, <1>8, <1>9, <1>10 DEF IInv

\* The jobs an encoding commits match, when ord is called or pinned from now on.
LEMMA JobsEncoded ==
  ASSUME IInv, doing = "no", NEW root \in held, NEW ord, ord = BuildOrder(root),
         NEW k, Encoding(ord, k), cached \subseteq cached',
         ord \subseteq order' \cup UNION pending',
         UNION pending \subseteq order' \cup UNION pending',
         ord \subseteq cached' \/ (Working' = ord /\ order' = ord)
  PROVE  JobsMatch'
<1>1. ASSUME NEW i \in 1..Len(queue')
      PROVE  /\ queue'[i].node \in order' \cup UNION pending'
             /\ queue'[i].out = out'[queue'[i].node]
             /\ queue'[i].reads = {Buf(out', m) : m \in queue'[i].args}
             /\ queue'[i].args \subseteq {0} \cup cached'
                                           \cup (IF queue'[i].node \in Working' THEN order' ELSE {})
             /\ \A j \in 1..Len(queue') : queue'[j].node = queue'[i].node => i = j
  <2>1. CASE i \notin 1..Len(queue)
    <3>1. NewJob(queue', out', ord, i)
      BY <1>1, <2>1 DEF Encoding
    <3>2. ins[queue'[i].node] \subseteq {0} \cup cached \cup ord
      BY <3>1, FreshOrder DEF NewJob
    <3>3. QED
      BY <3>1, <3>2 DEF NewJob
  <2>2. CASE i \in 1..Len(queue)
    <3>1. queue'[i] = queue[i] /\ queue[i].node \notin ord /\ queue[i].node \in cached
          /\ queue[i].args \subseteq {0} \cup cached
      BY <2>2, FreshOrder DEF Encoding
    <3>2. queue[i].node \in Nodes /\ queue[i].node \in UNION pending
      BY <2>2, Members, FreshOrder DEF IInv, JobsMatch
    <3>3. out'[queue[i].node] = out[queue[i].node]
      BY <3>1, <3>2 DEF Encoding
    <3>4. \A m \in queue[i].args : Buf(out', m) = Buf(out, m)
      BY <3>1 DEF Encoding
    <3>5. queue[i].reads = {Buf(out', m) : m \in queue[i].args}
      BY <2>2, <3>4 DEF IInv, JobsMatch
    <3>6. ASSUME NEW j \in 1..Len(queue'), queue'[j].node = queue'[i].node PROVE i = j
      <4>1. CASE j \in 1..Len(queue)
        BY <2>2, <3>1, <3>6, <4>1 DEF Encoding, IInv, JobsMatch
      <4>2. CASE j \notin 1..Len(queue)
        BY <3>1, <3>6, <4>2 DEF Encoding, NewJob
      <4>3. QED
        BY <4>1, <4>2
    <3>7. queue[i].out = out[queue[i].node]
      BY <2>2 DEF IInv, JobsMatch
    <3>8. QED
      BY <3>1, <3>2, <3>3, <3>5, <3>6, <3>7
  <2>3. QED
    BY <2>1, <2>2
<1>2. QED
  BY <1>1 DEF JobsMatch

\* eval and an encoding that fails: the host blocks on the order.
LEMMA BlocksStep ==
  ASSUME IInv, doing = "no", NEW root \in held, NEW ord, ord = BuildOrder(root), ord # {},
         NEW k, Encoding(ord, k),
         order' = ord, doing' \in {"eval", "abort"}, faults' \in 0..MaxFaults,
         UNCHANGED <<graph, cached, in_flight, pending, content, failed, broken>>
  PROVE  IInv' /\ Alive' \subseteq Alive
<1>1. /\ ord \in SUBSET Nodes /\ ord \subseteq Alive /\ ord \cap cached = {}
      /\ \A n \in ord : out[n] = None /\ kind[n] # "unbuilt"
      /\ ord \cap UNION pending = {} /\ order = {} /\ Working = {}
  BY FreshOrder
<1>2. Working' = ord
  BY DEF Working
<1>3. Roots' = Roots \cup ord
  BY <1>1 DEF Roots, graph
<1>4. Alive' \subseteq Alive
  BY <1>1, <1>3, Shrinks, AliveClosed DEF IInv, graph
<1>5. queue' \in Seq(Job)
  BY DEF Encoding
<1>6. TypeOK'
  <2>1. \A i \in DOMAIN queue' : /\ queue'[i].node \in Nodes
                                  /\ queue'[i].out \in Buffers \cup {Slab}
                                  /\ queue'[i].reads \subseteq Buffers \cup {Slab}
    BY <1>5, QueueTyped
  <2>2. QED
    BY <1>1, <2>1 DEF IInv, TypeOK, Encoding, graph
<1>7. Numbered'
  BY <1>1, <1>3 DEF IInv, Numbered, graph
<1>8. Batches'
  BY <1>1, <1>2 DEF IInv, Batches
<1>9. Outs'
  <2>1. \A n \in Nodes \ ord : out'[n] = out[n]
    BY DEF Encoding
  <2>2. \A n \in ord : out'[n] \in Buffers \cup {Slab} /\ (kind[n] = "update" <=> out'[n] = Slab)
    BY DEF Encoding
  <2>3. QED
    BY <1>1, <1>2, <2>1, <2>2, EvalAssumption DEF IInv, Outs, graph
<1>10. Owned'
  BY <1>4 DEF Owned, Encoding
<1>11. JobsMatch'
  BY <1>1, <1>2, JobsEncoded
<1>12. QED
  BY <1>4, <1>5, <1>6, <1>7, <1>8, <1>9, <1>10, <1>11 DEF IInv

\* eval and profiled_eval, as far as they commit.
LEMMA EvalStep ==
  ASSUME IInv, NEW root \in held, Eval(root)
  PROVE  IInv' /\ Alive' \subseteq Alive /\ Encoding(BuildOrder(root), Cardinality(BuildOrder(root)))
<1>1. PICK ord : ord = BuildOrder(root)
  OBVIOUS
<1>2. /\ doing = "no" /\ ord # {} /\ order' = ord /\ doing' = "eval"
      /\ UNCHANGED <<graph, cached, in_flight, pending, content, failed, broken, faults>>
  BY <1>1 DEF Eval
<1>3. PICK o \in Outputs(ord) : /\ out' = WithOutputs(o)
                                /\ queue' = queue \o Jobs(ord, o, Cardinality(ord))
  BY <1>1 DEF Eval
<1>4. Cardinality(ord) \in 0..Cardinality(ord)
  BY <1>1, <1>2, FreshOrder, OrderCounted
<1>5. Encoding(ord, Cardinality(ord))
  BY <1>1, <1>2, <1>3, <1>4, Encodes
<1>6. faults' \in 0..MaxFaults
  BY <1>2 DEF IInv, TypeOK
<1>7. IInv' /\ Alive' \subseteq Alive
  BY <1>1, <1>2, <1>5, <1>6, BlocksStep
<1>8. QED
  BY <1>1, <1>5, <1>7

\* An op fails to encode.
LEMMA EncodeFailsStep ==
  ASSUME IInv, NEW root \in held, EncodeFails(root)
  PROVE  IInv' /\ Alive' \subseteq Alive /\ \E k : Encoding(BuildOrder(root), k)
<1>1. PICK ord : ord = BuildOrder(root)
  OBVIOUS
<1>2. /\ doing = "no" /\ ord # {} /\ order' = ord /\ doing' = "abort"
      /\ faults < MaxFaults /\ faults' = faults + 1
      /\ UNCHANGED <<graph, cached, in_flight, pending, content, failed, broken>>
  BY <1>1 DEF EncodeFails
<1>3. PICK o \in Outputs(ord), k \in 0..(Cardinality(ord) - 1) :
        /\ out' = WithOutputs(o)
        /\ queue' = queue \o Jobs(ord, o, k)
  BY <1>1 DEF EncodeFails
<1>4. PICK c \in Nat : c = Cardinality(ord)
  BY <1>1, <1>2, FreshOrder, OrderCounted
<1>5. k \in 0..c
  BY <1>3, <1>4
<1>6. Encoding(ord, k)
  BY <1>1, <1>2, <1>3, <1>4, <1>5, Encodes
<1>7. faults' \in 0..MaxFaults
  BY <1>2, EvalAssumption DEF IInv, TypeOK
<1>8. IInv' /\ Alive' \subseteq Alive
  BY <1>1, <1>2, <1>6, <1>7, BlocksStep
<1>9. QED
  BY <1>1, <1>6, <1>8

\* eval_async.
LEMMA EvalAsyncStep ==
  ASSUME IInv, NEW root \in held, EvalAsync(root)
  PROVE  IInv' /\ Alive' \subseteq Alive /\ Encoding(BuildOrder(root), Cardinality(BuildOrder(root)))
<1>1. PICK ord : ord = BuildOrder(root)
  OBVIOUS
<1>2. /\ doing = "no" /\ ord # {} /\ in_flight' = in_flight \cup ord
      /\ cached' = cached \cup ord /\ pending' = pending \cup {ord}
      /\ ins' = [n \in Nodes |-> IF n \in ord THEN {} ELSE ins[n]]
      /\ UNCHANGED <<kind, held, doing, order, content, failed, broken, faults>>
  BY <1>1 DEF EvalAsync, Populated, Detached
<1>3. PICK o \in Outputs(ord) : /\ out' = WithOutputs(o)
                                /\ queue' = queue \o Jobs(ord, o, Cardinality(ord))
  BY <1>1 DEF EvalAsync
<1>4. /\ ord \in SUBSET Nodes /\ ord \subseteq Alive /\ ord \cap cached = {}
      /\ \A n \in ord : out[n] = None /\ kind[n] # "unbuilt"
      /\ ord \cap UNION pending = {} /\ order = {} /\ Working = {}
  BY <1>1, <1>2, FreshOrder
<1>5. Cardinality(ord) \in 0..Cardinality(ord)
  BY <1>4, OrderCounted
<1>6. Encoding(ord, Cardinality(ord))
  BY <1>1, <1>2, <1>3, <1>5, Encodes
<1>7. Working' = {}
  BY <1>2 DEF Working
<1>8. UNION pending' = (UNION pending) \cup ord
  BY <1>2
<1>9. Roots' = Roots \cup ord
  BY <1>2, <1>8 DEF Roots
<1>10. \A m \in Nodes : ins'[m] \subseteq ins[m]
  BY <1>2
<1>11. Alive' \subseteq Alive
  BY <1>4, <1>9, <1>10, Shrinks, AliveClosed DEF IInv
<1>12. queue' \in Seq(Job)
  BY <1>6 DEF Encoding
<1>13. TypeOK'
  <2>1. \A i \in DOMAIN queue' : /\ queue'[i].node \in Nodes
                                  /\ queue'[i].out \in Buffers \cup {Slab}
                                  /\ queue'[i].reads \subseteq Buffers \cup {Slab}
    BY <1>12, QueueTyped
  <2>2. ins' \in [Nodes -> SUBSET (0..MaxNodes)]
    BY <1>2 DEF IInv, TypeOK
  <2>3. QED
    BY <1>2, <1>4, <1>6, <2>1, <2>2 DEF IInv, TypeOK, Encoding
<1>14. Numbered'
  BY <1>2, <1>4, <1>9, <1>10 DEF IInv, Numbered
<1>15. Batches'
  BY <1>2, <1>4, <1>7, <1>8 DEF IInv, Batches
<1>16. Outs'
  <2>1. \A n \in Nodes \ ord : out'[n] = out[n]
    BY <1>6 DEF Encoding
  <2>2. \A n \in ord : out'[n] \in Buffers \cup {Slab} /\ (kind[n] = "update" <=> out'[n] = Slab)
    BY <1>6 DEF Encoding
  <2>3. QED
    BY <1>2, <1>4, <1>7, <2>1, <2>2, EvalAssumption DEF IInv, Outs
<1>17. Owned'
  BY <1>6, <1>11 DEF Owned, Encoding
<1>18. JobsMatch'
  BY <1>1, <1>2, <1>4, <1>6, <1>8, JobsEncoded
<1>19. QED
  BY <1>1, <1>6, <1>11, <1>12, <1>13, <1>14, <1>15, <1>16, <1>17, <1>18 DEF IInv

\* When the GPU is done with an order, every job left is of a pinned order and
\* reads evaluated tensors only.
LEMMA DoneWith ==
  ASSUME IInv, GpuDone(order)
  PROVE  \A i \in 1..Len(queue) :
           /\ queue[i].node \in UNION pending /\ queue[i].node \notin order
           /\ queue[i].args \subseteq {0} \cup cached
<1>1. \A i \in 1..Len(queue) : queue[i].node \notin order
  BY Members DEF GpuDone, IInv
<1>2. QED
  BY <1>1 DEF IInv, JobsMatch, Working

\* eval, having evaluated its order.
LEMMA EvalEnds ==
  ASSUME IInv, GpuDone(order), doing = "eval",
         cached' = Populated(order), ins' = Detached(order),
         doing' = "no", order' = {},
         UNCHANGED <<out, kind, held, in_flight, pending, queue, content, failed, broken, faults>>
  PROVE  IInv' /\ Alive' \subseteq Alive
<1>1. /\ cached' = cached \cup order
      /\ ins' = [n \in Nodes |-> IF n \in order THEN {} ELSE ins[n]]
  BY DEF Populated, Detached
<1>2. Working = order /\ Working' = {} /\ order \subseteq Nodes
  BY DEF Working, IInv, TypeOK
<1>3. Roots' \subseteq Roots
  BY DEF Roots
<1>4. \A m \in Nodes : ins'[m] \subseteq ins[m]
  BY <1>1
<1>5. Alive' \subseteq Alive
  BY <1>3, <1>4, Shrinks, AliveClosed DEF IInv
<1>6. TypeOK' /\ queue' \in Seq(Job)
  <2>1. ins' \in [Nodes -> SUBSET (0..MaxNodes)]
    BY <1>1 DEF IInv, TypeOK
  <2>2. QED
    BY <1>1, <1>2, <2>1 DEF IInv, TypeOK
<1>7. Numbered'
  BY <1>3, <1>4 DEF IInv, Numbered
<1>8. Batches'
  BY <1>1, <1>2 DEF IInv, Batches
<1>9. Outs'
  BY <1>1, <1>2 DEF IInv, Outs
<1>10. Owned'
  BY <1>5, OwnedKept DEF IInv
<1>11. JobsMatch'
  BY <1>1, <1>2, DoneWith DEF IInv, JobsMatch
<1>12. QED
  BY <1>5, <1>6, <1>7, <1>8, <1>9, <1>10, <1>11 DEF IInv

\* eval, having kept nothing of its order.
LEMMA CallForgets ==
  ASSUME IInv, GpuDone(order), doing \in {"eval", "abort"},
         out' = Forgotten, doing' = "no", order' = {},
         UNCHANGED <<graph, cached, in_flight, pending, queue, content, failed, broken, faults>>
  PROVE  IInv' /\ Alive' \subseteq Alive /\ \A n \in cached : out'[n] = out[n]
<1>1. out' = [n \in Nodes |-> IF n \in order THEN None ELSE out[n]]
  BY DEF Forgotten
<1>2. Working = order /\ Working' = {} /\ order \subseteq Nodes /\ order \cap cached = {}
      /\ cached \subseteq Nodes
  BY DEF Working, IInv, TypeOK, Batches
<1>3. Roots' \subseteq Roots
  BY DEF Roots, graph
<1>4. \A m \in Nodes : ins'[m] \subseteq ins[m]
  BY DEF graph
<1>5. Alive' \subseteq Alive
  BY <1>3, <1>4, Shrinks, AliveClosed DEF IInv
<1>6. TypeOK' /\ queue' \in Seq(Job)
  <2>1. out' \in [Nodes -> Buffers \cup {Slab, None}]
    BY <1>1 DEF IInv, TypeOK
  <2>2. QED
    BY <2>1 DEF IInv, TypeOK, graph
<1>7. Numbered'
  BY <1>3 DEF IInv, Numbered, graph
<1>8. Batches'
  BY <1>2 DEF IInv, Batches
<1>9. \A n \in cached : out'[n] = out[n]
  BY <1>1, <1>2
<1>10. Outs'
  BY <1>1, <1>2 DEF IInv, Outs, graph
<1>11. Owned'
  BY <1>1, <1>5, AliveClosed, EvalAssumption DEF IInv, Owned
<1>12. JobsMatch'
  <2>1. ASSUME NEW i \in 1..Len(queue)
        PROVE  /\ queue[i].node \in UNION pending
               /\ queue[i].out = out'[queue[i].node]
               /\ queue[i].reads = {Buf(out', m) : m \in queue[i].args}
               /\ queue[i].args \subseteq {0} \cup cached
    <3>1. /\ queue[i].node \in UNION pending /\ queue[i].node \notin order
          /\ queue[i].args \subseteq {0} \cup cached
      BY DoneWith
    <3>2. queue[i].node \in Nodes /\ out'[queue[i].node] = out[queue[i].node]
      BY <1>1, <3>1, Members DEF IInv
    <3>3. \A m \in queue[i].args : Buf(out', m) = Buf(out, m)
      BY <1>9, <3>1 DEF Buf
    <3>4. queue[i].reads = {Buf(out', m) : m \in queue[i].args}
      BY <3>3 DEF IInv, JobsMatch
    <3>5. QED
      BY <3>1, <3>2, <3>4 DEF IInv, JobsMatch
  <2>2. \A i, j \in 1..Len(queue) : queue[j].node = queue[i].node => i = j
    BY DEF IInv, JobsMatch
  <2>3. QED
    BY <2>1, <2>2 DEF JobsMatch
<1>13. QED
  BY <1>5, <1>6, <1>7, <1>8, <1>9, <1>10, <1>11, <1>12 DEF IInv

\* A blocking eval returns.
LEMMA EvalReturnsStep ==
  ASSUME IInv, EvalReturns
  PROVE  IInv' /\ Alive' \subseteq Alive /\ \A n \in cached : out'[n] = out[n]
<1>1. CASE order \cap failed = {}
  <2>1. IInv' /\ Alive' \subseteq Alive
    BY <1>1, EvalEnds DEF EvalReturns
  <2>2. out' = out
    BY <1>1 DEF EvalReturns
  <2>3. QED
    BY <2>1, <2>2
<1>2. CASE order \cap failed # {}
  <2>1. /\ GpuDone(order) /\ doing \in {"eval", "abort"}
        /\ out' = Forgotten /\ doing' = "no" /\ order' = {}
        /\ UNCHANGED <<graph, cached, in_flight, pending, queue, content, failed, broken, faults>>
    BY <1>2 DEF EvalReturns, graph
  <2>2. QED
    BY <2>1, CallForgets
<1>3. QED
  BY <1>1, <1>2

\* An aborted eval returns.
LEMMA AbortReturnsStep ==
  ASSUME IInv, AbortReturns
  PROVE  IInv' /\ Alive' \subseteq Alive /\ \A n \in cached : out'[n] = out[n]
BY CallForgets DEF AbortReturns

\* The wait for a PendingEval returns.
LEMMA ObserveReturnsStep ==
  ASSUME IInv, ObserveReturns
  PROVE  IInv' /\ Alive' \subseteq Alive
<1>1. /\ GpuDone(order) /\ doing = "observe" /\ doing' = "no" /\ order' = {}
      /\ in_flight' = in_flight \ order
      /\ UNCHANGED <<graph, out, cached, pending, queue, content, failed, broken, faults>>
  BY DEF ObserveReturns
<1>2. Working = {} /\ Working' = {}
  BY <1>1 DEF Working
<1>3. Roots' \subseteq Roots
  BY <1>1 DEF Roots, graph
<1>4. Alive' \subseteq Alive
  BY <1>1, <1>3, Shrinks, AliveClosed DEF IInv, graph
<1>5. TypeOK' /\ queue' \in Seq(Job)
  BY <1>1 DEF IInv, TypeOK, graph
<1>6. Numbered'
  BY <1>1, <1>3 DEF IInv, Numbered, graph
<1>7. Batches'
  BY <1>1, <1>2 DEF IInv, Batches
<1>8. Outs'
  BY <1>1, <1>2 DEF IInv, Outs, graph
<1>9. Owned'
  BY <1>1, <1>4 DEF IInv, Owned
<1>10. JobsMatch'
  BY <1>1, <1>2, DoneWith DEF IInv, JobsMatch
<1>11. QED
  BY <1>4, <1>5, <1>6, <1>7, <1>8, <1>9, <1>10 DEF IInv

\* The queue without job i.
LEMMA QueueShorter ==
  ASSUME IInv, NEW i \in 1..Len(queue), queue' = RemoveAt(queue, i)
  PROVE  /\ queue' \in Seq(Job) /\ Len(queue) \in Nat /\ Len(queue') = Len(queue) - 1
         /\ \A j \in 1..(Len(queue) - 1) :
              queue'[j] = IF j < i THEN queue[j] ELSE queue[j + 1]
<1>1. PICK T : T = Job
  OBVIOUS
<1>2. queue \in Seq(T)
  BY <1>1 DEF IInv
<1>3. /\ RemoveAt(queue, i) \in Seq(T) /\ Len(RemoveAt(queue, i)) = Len(queue) - 1
      /\ \A j \in 1..(Len(queue) - 1) :
           RemoveAt(queue, i)[j] = IF j < i THEN queue[j] ELSE queue[j + 1]
  BY <1>2, RemovedAt
<1>4. QED
  BY <1>1, <1>3, Members DEF IInv

\* A job leaves the queue; nothing else that the invariant is about changes.
LEMMA JobLeaves ==
  ASSUME IInv, NEW i \in 1..Len(queue), queue' = RemoveAt(queue, i),
         UNCHANGED <<graph, out, cached, in_flight, pending, doing, order>>,
         content' \in [Buffers \cup {Slab} -> SUBSET (0..MaxNodes)],
         failed' \subseteq broken', broken' \subseteq Nodes, faults' \in 0..MaxFaults
  PROVE  IInv' /\ Alive' = Alive
<1>1. /\ queue' \in Seq(Job) /\ Len(queue') = Len(queue) - 1
      /\ \A j \in 1..(Len(queue) - 1) :
           queue'[j] = IF j < i THEN queue[j] ELSE queue[j + 1]
  BY QueueShorter
<1>2. Roots' = Roots /\ Working' = Working
  BY DEF Roots, Working, graph
<1>3. Alive' = Alive
  BY <1>2, AliveIn DEF graph
<1>4. TypeOK'
  <2>1. \A j \in DOMAIN queue' : /\ queue'[j].node \in Nodes
                                  /\ queue'[j].out \in Buffers \cup {Slab}
                                  /\ queue'[j].reads \subseteq Buffers \cup {Slab}
    BY <1>1, QueueTyped
  <2>2. QED
    BY <2>1 DEF IInv, TypeOK, graph
<1>5. Numbered' /\ Batches' /\ Outs' /\ Owned'
  BY <1>2, <1>3 DEF IInv, Numbered, Batches, Outs, Owned, graph
<1>6. PICK l \in Nat : l = Len(queue)
  BY Members DEF IInv
<1>7. \A j \in 1..(l - 1) : j \in 1..l /\ j + 1 \in 1..l
  OBVIOUS
<1>8. JobsMatch'
  <2>1. ASSUME NEW j \in 1..(l - 1)
        PROVE  \E x \in 1..l : queue'[j] = queue[x] /\ x = IF j < i THEN j ELSE j + 1
    BY <1>1, <1>6, <1>7
  <2>2. ASSUME NEW j \in 1..(l - 1), NEW y \in 1..(l - 1), queue'[j].node = queue'[y].node
        PROVE  j = y
    <3>1. PICK a \in 1..l : queue'[j] = queue[a] /\ a = IF j < i THEN j ELSE j + 1
      BY <2>1
    <3>2. PICK b \in 1..l : queue'[y] = queue[b] /\ b = IF y < i THEN y ELSE y + 1
      BY <2>1
    <3>3. a = b
      BY <1>6, <2>2, <3>1, <3>2 DEF IInv, JobsMatch
    <3>4. i \in Nat /\ j \in Nat /\ y \in Nat
      BY <1>6
    <3>5. QED
      BY <3>1, <3>2, <3>3, <3>4
  <2>3. ASSUME NEW j \in 1..(l - 1)
        PROVE  /\ queue'[j].node \in order \cup UNION pending
               /\ queue'[j].out = out[queue'[j].node]
               /\ queue'[j].reads = {Buf(out, m) : m \in queue'[j].args}
               /\ queue'[j].args \subseteq {0} \cup cached
                    \cup (IF queue'[j].node \in Working THEN order ELSE {})
    <3>1. PICK a \in 1..l : queue'[j] = queue[a]
      BY <2>1
    <3>2. QED
      BY <1>6, <3>1 DEF IInv, JobsMatch
  <2>4. Len(queue') = l - 1
    BY <1>1, <1>6
  <2>5. ASSUME NEW j \in 1..Len(queue')
        PROVE  /\ queue'[j].node \in order' \cup UNION pending'
               /\ queue'[j].out = out'[queue'[j].node]
               /\ queue'[j].reads = {Buf(out', m) : m \in queue'[j].args}
               /\ queue'[j].args \subseteq {0} \cup cached'
                    \cup (IF queue'[j].node \in Working' THEN order' ELSE {})
    <3>1. out' = out /\ pending' = pending /\ order' = order /\ cached' = cached
      OBVIOUS
    <3>2. j \in 1..(l - 1)
      BY <2>4
    <3>3. QED
      BY <1>2, <2>3, <3>1, <3>2
  <2>6. \A j, y \in 1..Len(queue') : queue'[y].node = queue'[j].node => j = y
    BY <2>2, <2>4
  <2>7. QED
    BY <2>5, <2>6, Zenon DEF JobsMatch
<1>9. QED
  BY <1>1, <1>3, <1>4, <1>5, <1>6, <1>8 DEF IInv

\* What the GPU does to the bytes and the failures when it runs job i.
LEMMA RunStep ==
  ASSUME IInv, NEW i \in 1..Len(queue), Run(i)
  PROVE  IInv' /\ Alive' = Alive
<1>1. PICK n \in Nodes : n = queue[i].node
  BY Members DEF IInv
<1>2. PICK value \in SUBSET (0..MaxNodes) :
        content' = [content EXCEPT ![queue[i].out] =
                      IF kind[n] = "update" THEN @ \cup value ELSE value]
  <2>1. n \in 0..MaxNodes
    BY EvalAssumption DEF Nodes
  <2>2. CASE \A m \in queue[i].args : m \in content[BufferOf(m)]
    <3>1. {n} \in SUBSET (0..MaxNodes)
      BY <2>1
    <3>2. QED
      BY <1>1, <2>2, <3>1 DEF Run
  <2>3. CASE ~\A m \in queue[i].args : m \in content[BufferOf(m)]
    BY <1>1, <2>3 DEF Run
  <2>4. QED
    BY <2>2, <2>3
<1>3. content' \in [Buffers \cup {Slab} -> SUBSET (0..MaxNodes)]
  <2>1. queue[i].out \in Buffers \cup {Slab}
    BY Members DEF IInv
  <2>2. QED
    BY <1>2, <2>1 DEF IInv, TypeOK
<1>4. failed' \subseteq broken' /\ broken' \subseteq Nodes
  BY <1>1 DEF Run, IInv, TypeOK
<1>5. faults' \in 0..MaxFaults
  BY DEF Run, IInv, TypeOK
<1>6. queue' = RemoveAt(queue, i)
      /\ UNCHANGED <<graph, out, cached, in_flight, pending, doing, order>>
  BY DEF Run
<1>7. QED
  BY <1>3, <1>4, <1>5, <1>6, JobLeaves

\* A committed batch fails.
LEMMA GpuFailsStep ==
  ASSUME IInv, NEW i \in 1..Len(queue), GpuFails(i)
  PROVE  IInv' /\ Alive' = Alive
<1>1. queue[i].node \in Nodes /\ queue[i].out \in Buffers \cup {Slab}
  BY Members DEF IInv
<1>2. content' \in [Buffers \cup {Slab} -> SUBSET (0..MaxNodes)]
  BY <1>1 DEF GpuFails, IInv, TypeOK
<1>3. failed' \subseteq broken' /\ broken' \subseteq Nodes
  BY <1>1 DEF GpuFails, IInv, TypeOK
<1>4. faults' \in 0..MaxFaults
  BY EvalAssumption DEF GpuFails, IInv, TypeOK
<1>5. queue' = RemoveAt(queue, i)
      /\ UNCHANGED <<graph, out, cached, in_flight, pending, doing, order>>
  BY DEF GpuFails
<1>6. QED
  BY <1>2, <1>3, <1>4, <1>5, JobLeaves

\* Every step keeps the invariant.
LEMMA NextIInv == IInv /\ [Next]_vars => IInv'
<1> SUFFICES ASSUME IInv, [Next]_vars PROVE IInv'
  OBVIOUS
<1>1. DOMAIN queue = 1..Len(queue)
  BY Members DEF IInv
<1>2. ASSUME NEW n \in Nodes, NEW k \in {"op", "update"}, NEW S \in SUBSET (0..MaxNodes),
             Build(n, k, S)
      PROVE  IInv'
  BY <1>2, BuildStep
<1>3. ASSUME NEW n \in Nodes, Drop(n) PROVE IInv'
  BY <1>3, DropStep
<1>4. ASSUME NEW root \in held, Eval(root) PROVE IInv'
  BY <1>4, EvalStep
<1>5. ASSUME NEW root \in held, EvalAsync(root) PROVE IInv'
  BY <1>5, EvalAsyncStep
<1>6. ASSUME NEW root \in held, EncodeFails(root) PROVE IInv'
  BY <1>6, EncodeFailsStep
<1>7. ASSUME NEW p \in pending, Observe(p) PROVE IInv'
  BY <1>7, ObserveStep
<1>8. ASSUME Returns PROVE IInv'
  BY <1>8, EvalReturnsStep, AbortReturnsStep, ObserveReturnsStep DEF Returns
<1>9. ASSUME Gpu PROVE IInv'
  BY <1>1, <1>9, RunStep, GpuFailsStep DEF Gpu
<1>10. CASE UNCHANGED vars
  <2>1. Alive' = Alive /\ Roots' = Roots /\ Working' = Working
    BY <1>10, AliveIn DEF vars, Roots, Working
  <2>2. QED
    BY <1>10, <2>1 DEF vars, IInv, TypeOK, Numbered, Batches, Outs, Owned, JobsMatch
<1>11. QED
  BY <1>2, <1>3, <1>4, <1>5, <1>6, <1>7, <1>8, <1>9, <1>10 DEF Next

\* The invariant always holds.
LEMMA AlwaysIInv == Spec => []IInv
BY InitIInv, NextIInv, PTL DEF Spec

\* TypeOK: the lazy graph, the queue and the calls keep their shapes, and only a
\* populated tensor is gated (tensor.rs:48-172).
THEOREM EvalTyped == Spec => []TypeOK
<1>1. IInv => TypeOK
  BY DEF IInv
<1>2. QED
  BY <1>1, AlwaysIInv, PTL
-----------------------------------------------------------------------------
\* No committed job is for a readable tensor, and none writes an op's buffer.
LEMMA ReadableIdle ==
  ASSUME IInv, NEW n \in Readable
  PROVE  /\ n \in Nodes /\ n \in Alive /\ n \in cached /\ n \in held
         /\ kind[n] \in {"op", "update"} /\ out[n] \in Buffers \cup {Slab}
         /\ kind[n] = "op" => out[n] \in Buffers
         /\ \A i \in 1..Len(queue) :
              /\ queue[i].node # n
              /\ kind[n] = "op" => queue[i].out # out[n]
<1>1. n \in Nodes /\ n \in cached /\ n \in held /\ n \notin in_flight
  BY DEF Readable, IInv, TypeOK
<1>2. n \in Alive
  BY <1>1, AliveClosed DEF IInv, Roots
<1>3. kind[n] \in {"op", "update"}
  BY <1>1, <1>2, AliveBuilt DEF IInv, TypeOK
<1>4. out[n] \in Buffers \cup {Slab} /\ (kind[n] = "op" => out[n] \in Buffers)
  BY <1>1, <1>3 DEF IInv, TypeOK, Outs
<1>5. n \notin order \cup UNION pending
  BY <1>1 DEF IInv, TypeOK, Batches, Working
<1>6. ASSUME NEW i \in 1..Len(queue)
      PROVE  queue[i].node # n /\ (kind[n] = "op" => queue[i].out # out[n])
  <2>1. queue[i].node \in order \cup UNION pending /\ queue[i].out = out[queue[i].node]
    BY DEF IInv, JobsMatch
  <2>2. queue[i].node \in Alive /\ queue[i].node # n
    BY <1>5, <2>1, AliveClosed DEF IInv, Roots
  <2>3. QED
    BY <1>2, <1>4, <2>1, <2>2 DEF IInv, Owned
<1>7. QED
  BY <1>1, <1>2, <1>3, <1>4, <1>6

\* A step of the host leaves evaluated tensors and their bytes alone, and gates
\* no tensor that was evaluated before.
HostKeeps ==
  /\ cached \subseteq cached' /\ in_flight' \cap cached \subseteq in_flight
  /\ \A n \in cached : out'[n] = out[n]
  /\ UNCHANGED <<content, broken>>

\* The host changes no bytes: it populates caches, and gates only what it just
\* populated.
LEMMA HostSteps ==
  ASSUME IInv, [Next]_vars, ~Gpu
  PROVE  HostKeeps
<1>1. ASSUME NEW n \in Nodes, NEW k \in {"op", "update"}, NEW S \in SUBSET (0..MaxNodes),
             Build(n, k, S)
      PROVE  HostKeeps
  BY <1>1 DEF Build, HostKeeps
<1>2. ASSUME NEW n \in Nodes, Drop(n) PROVE HostKeeps
  BY <1>2 DEF Drop, HostKeeps
<1>3. \A ord, k : Encoding(ord, k) /\ ord \cap cached = {} => \A n \in cached : out'[n] = out[n]
  BY DEF Encoding, IInv, TypeOK
<1>4. ASSUME NEW root \in held, Eval(root) PROVE HostKeeps
  BY <1>3, <1>4, EvalStep, BuildOrderFacts DEF Eval, HostKeeps, IInv
<1>5. ASSUME NEW root \in held, EvalAsync(root) PROVE HostKeeps
  <2>1. BuildOrder(root) \cap cached = {}
    BY BuildOrderFacts DEF IInv
  <2>2. \A n \in cached : out'[n] = out[n]
    BY <1>3, <1>5, <2>1, EvalAsyncStep
  <2>3. QED
    BY <1>5, <2>1, <2>2 DEF EvalAsync, HostKeeps, Populated
<1>6. ASSUME NEW root \in held, EncodeFails(root) PROVE HostKeeps
  BY <1>3, <1>6, EncodeFailsStep, BuildOrderFacts DEF EncodeFails, HostKeeps, IInv
<1>7. ASSUME NEW p \in pending, Observe(p) PROVE HostKeeps
  BY <1>7 DEF Observe, HostKeeps
<1>8. ASSUME EvalReturns PROVE HostKeeps
  BY <1>8, EvalReturnsStep DEF EvalReturns, HostKeeps, Populated
<1>9. ASSUME AbortReturns PROVE HostKeeps
  BY <1>9, AbortReturnsStep DEF AbortReturns, HostKeeps
<1>10. ASSUME ObserveReturns PROVE HostKeeps
  BY <1>10 DEF ObserveReturns, HostKeeps
<1>11. ASSUME UNCHANGED vars PROVE HostKeeps
  BY <1>11 DEF vars, HostKeeps
<1>12. QED
  BY <1>1, <1>2, <1>4, <1>5, <1>6, <1>7, <1>8, <1>9, <1>10, <1>11 DEF Next, Returns

\* A tensor the host may read stays readable, with its bytes, while it is held.
LEMMA ReadableStays ==
  ASSUME IInv, [Next]_vars, NEW n \in Readable, n \in held'
  PROVE  n \in Readable' /\ (kind[n] = "op" => content'[out'[n]] = content[out[n]])
<1>1. n \in cached /\ n \notin in_flight
  BY DEF Readable
<1>2. CASE ~Gpu
  BY <1>1, <1>2, HostSteps DEF HostKeeps, Readable
<1>3. CASE Gpu
  <2>1. PICK i \in 1..Len(queue) : Run(i) \/ GpuFails(i)
    BY <1>3, Members DEF Gpu, IInv
  <2>2. UNCHANGED <<graph, out, cached, in_flight>>
    BY <2>1 DEF Run, GpuFails
  <2>3. kind[n] = "op" => queue[i].out # out[n] /\ out[n] \in Buffers
    BY ReadableIdle
  <2>4. kind[n] = "op" => content'[out[n]] = content[out[n]]
    BY <2>1, <2>3 DEF Run, GpuFails, IInv, TypeOK
  <2>5. QED
    BY <1>1, <2>2, <2>4 DEF Readable, graph
<1>4. QED
  BY <1>2, <1>3

\* Only a slice_update writes the leaf: every other job writes a pool buffer.
LEMMA LeafWritten ==
  ASSUME IInv, [Next]_vars, content'[Slab] # content[Slab]
  PROVE  UpdateLands
<1>1. Gpu
  BY HostSteps DEF HostKeeps
<1>2. PICK i \in 1..Len(queue) : Run(i) \/ GpuFails(i)
  BY <1>1, Members DEF Gpu, IInv
<1>3. i \in DOMAIN queue /\ queue[i].node \in Nodes /\ queue[i].out \in Buffers \cup {Slab}
  BY <1>2, Members DEF IInv, TypeOK
<1>4. queue[i].out = Slab
  BY <1>2, <1>3 DEF Run, GpuFails, IInv, TypeOK
<1>5. Run(i)
  BY <1>2, <1>3, <1>4 DEF GpuFails, IInv, TypeOK
<1>6. kind[queue[i].node] = "update"
  <2>1. out[queue[i].node] = Slab
    BY <1>2, <1>4 DEF IInv, JobsMatch
  <2>2. QED
    BY <1>3, <2>1, EvalAssumption DEF IInv, Outs
<1>7. content'[Slab] = content[Slab] \cup {queue[i].node}
  BY <1>3, <1>4, <1>5, <1>6 DEF Run, IInv, TypeOK
<1>8. QED
  BY <1>3, <1>6, <1>7 DEF UpdateLands

\* ReadsStable: what the host may read (tensor.rs:2807-2853) stays readable as long
\* as the client holds the tensor, an op with the same bytes, and the leaf's bytes
\* change only as a committed slice_update lands, whatever is dropped or fails.
THEOREM EvalReadsStable == Spec => ReadsStable
<1>1. IInv /\ [Next]_vars =>
        [/\ \A n \in Readable : n \in held' =>
              /\ n \in Readable'
              /\ kind[n] = "op" => content'[out'[n]] = content[out[n]]
         /\ content'[Slab] # content[Slab] => UpdateLands]_vars
  BY ReadableStays, LeafWritten
<1>2. QED
  BY <1>1, AlwaysIInv, PTL DEF Spec, ReadsStable
-----------------------------------------------------------------------------
\* Nothing is computed at the start.
LEMMA InitVInv == Init => VInv
<1> SUFFICES ASSUME Init PROVE VInv
  OBVIOUS
<1>1. queue = <<>> /\ Len(queue) = 0 /\ Due = {}
  BY DEF Init, Due
<1>2. 0 \in content[Slab]
  BY DEF Init
<1>3. QED
  BY <1>1, <1>2 DEF VInv, Pinned, ArgsReady, Settled

\* The arguments of a committed job are the leaf or alive.
LEMMA ArgsAlive ==
  ASSUME IInv, Pinned
  PROVE  \A i \in 1..Len(queue) : \A m \in queue[i].args \ {0} : m \in Alive
<1>1. SUFFICES ASSUME NEW i \in 1..Len(queue), NEW m \in queue[i].args \ {0} PROVE m \in Alive
  OBVIOUS
<1>2. Roots \subseteq Alive /\ \A x \in Alive : ins[x] \ {0} \subseteq Alive
  BY AliveClosed DEF IInv
<1>3. CASE m \in held
  BY <1>2, <1>3 DEF Roots
<1>4. CASE \E p \in pending : {m, queue[i].node} \subseteq p
  BY <1>2, <1>4 DEF Roots
<1>5. CASE {m, queue[i].node} \subseteq order
  BY <1>2, <1>5 DEF Roots
<1>6. CASE queue[i].node \in Working /\ m \in ins[queue[i].node]
  BY <1>1, <1>2, <1>6 DEF Roots, Working
<1>7. QED
  BY <1>1, <1>3, <1>4, <1>5, <1>6 DEF Pinned

\* A step that commits nothing and writes nothing.
LEMMA ValuesKept ==
  ASSUME IInv, VInv, UNCHANGED <<queue, content, broken>>, Pinned', Due' \subseteq Due,
         \A i \in 1..Len(queue) : \A m \in queue[i].args : Buf(out', m) = Buf(out, m),
         \A n \in Due' : out'[n] = out[n]
  PROVE  VInv'
<1>1. ArgsReady'
  BY DEF VInv, ArgsReady, Right
<1>2. \A n \in Due' : Buf(out', n) = Buf(out, n)
  BY DEF Buf
<1>3. Settled'
  BY <1>2 DEF VInv, Settled, Right
<1>4. QED
  BY <1>1, <1>3 DEF VInv

\* Building an op changes no value.
LEMMA BuildValues ==
  ASSUME IInv, VInv, NEW n \in Nodes, NEW k, NEW S \in SUBSET (0..MaxNodes), Build(n, k, S)
  PROVE  VInv'
<1>1. /\ ins' = [ins EXCEPT ![n] = S] /\ held' = held \cup {n}
      /\ kind[n] = "unbuilt" /\ doing = "no"
      /\ UNCHANGED <<out, cached, in_flight, pending, doing, order, queue, content,
                     failed, broken, faults>>
  BY DEF Build
<1>2. Working = {} /\ Working' = {} /\ order = {}
  BY <1>1 DEF Working, IInv, TypeOK
<1>3. Pinned'
  BY <1>1, <1>2 DEF VInv, Pinned
<1>4. n \notin cached
  BY <1>1 DEF IInv, Outs
<1>5. Due' \subseteq Due
  BY <1>1, <1>4, BuildAlive DEF Due
<1>6. QED
  BY <1>1, <1>3, <1>5, ValuesKept

\* A client that keeps what is still read pins the arguments of every job.
LEMMA DropValues ==
  ASSUME IInv, VInv, ~DropsEarly, NEW n \in Nodes, Drop(n)
  PROVE  VInv'
<1>1. /\ held' = held \ {n} /\ doing = "no" /\ ~StillRead(n)
      /\ UNCHANGED <<kind, ins, out, cached, in_flight, pending, doing, order, queue, content,
                     failed, broken, faults>>
  BY DEF Drop
<1>2. Working = {} /\ Working' = {} /\ order = {}
  BY <1>1 DEF Working, IInv, TypeOK
<1>3. ASSUME NEW i \in 1..Len(queue), n \in queue[i].args PROVE FALSE
  <2>1. n # 0
    BY DEF Nodes
  <2>2. n \in cached
    BY <1>2, <1>3, <2>1 DEF IInv, JobsMatch
  <2>3. Buf(out, n) = out[n]
    BY <2>1 DEF Buf
  <2>4. queue[i].reads = {Buf(out, m) : m \in queue[i].args}
    BY DEF IInv, JobsMatch
  <2>5. out[n] \in queue[i].reads
    BY <1>3, <2>3, <2>4
  <2>6. i \in DOMAIN queue
    BY Members DEF IInv
  <2>7. QED
    BY <1>1, <2>2, <2>5, <2>6 DEF StillRead
<1>4. Pinned'
  BY <1>1, <1>2, <1>3 DEF VInv, Pinned
<1>5. Due' \subseteq Due
  BY <1>1, DropStep DEF Due
<1>6. QED
  BY <1>1, <1>4, <1>5, ValuesKept

\* Waiting for a batch changes no value.
LEMMA ObserveValues ==
  ASSUME IInv, VInv, NEW p \in pending, Observe(p)
  PROVE  VInv'
<1>1. /\ pending' = pending \ {p} /\ order' = p /\ doing' = "observe" /\ doing = "no"
      /\ UNCHANGED <<graph, out, cached, in_flight, queue, content, failed, broken, faults>>
  BY DEF Observe
<1>2. Working = {} /\ Working' = {} /\ order = {}
  BY <1>1 DEF Working, IInv, TypeOK
<1>3. Pinned'
  <2>1. ASSUME NEW i \in 1..Len(queue), NEW m \in queue[i].args \ {0}
        PROVE  \/ m \in held'
               \/ \E q \in pending' : {m, queue[i].node} \subseteq q
               \/ {m, queue[i].node} \subseteq order'
    BY <1>1, <1>2 DEF VInv, Pinned, graph
  <2>2. QED
    BY <1>1, <2>1 DEF Pinned
<1>4. Due' \subseteq Due
  BY <1>1, ObserveStep DEF Due
<1>5. QED
  BY <1>1, <1>3, <1>4, ValuesKept

\* What a call that returns leaves: its jobs are done, so no argument of a job
\* left depended on the call.
LEMMA ReturnValues ==
  ASSUME IInv, VInv, GpuDone(order), UNCHANGED <<queue, content, broken, held, pending>>,
         Due' \subseteq Due, \A n \in cached : out'[n] = out[n], \A n \in Due' : out'[n] = out[n]
  PROVE  VInv'
<1>1. \A i \in 1..Len(queue) : /\ queue[i].node \notin order
                                /\ queue[i].args \subseteq {0} \cup cached
  BY DoneWith
<1>2. Pinned'
  <2>1. ASSUME NEW i \in 1..Len(queue), NEW m \in queue[i].args \ {0}
        PROVE  m \in held \/ \E q \in pending : {m, queue[i].node} \subseteq q
    BY <1>1 DEF VInv, Pinned, Working
  <2>2. QED
    BY <2>1 DEF Pinned
<1>3. \A i \in 1..Len(queue) : \A m \in queue[i].args : Buf(out', m) = Buf(out, m)
  BY <1>1 DEF Buf
<1>4. QED
  BY <1>2, <1>3, ValuesKept

\* When a call returns, every job of its batch has run.
LEMMA ReturnsValues ==
  ASSUME IInv, VInv, Returns
  PROVE  VInv'
<1>1. CASE EvalReturns
  <2>1. /\ GpuDone(order) /\ doing = "eval" /\ doing' = "no"
        /\ UNCHANGED <<kind, held, pending, queue, content, broken>>
    BY <1>1 DEF EvalReturns
  <2>2. Alive' \subseteq Alive /\ \A n \in cached : out'[n] = out[n]
    BY <1>1, EvalReturnsStep
  <2>3. CASE order \cap failed = {}
    <3>1. cached' = cached \cup order /\ out' = out
      BY <1>1, <2>3 DEF EvalReturns, Populated
    <3>2. Due' \subseteq Due
      BY <2>1, <2>2, <3>1 DEF Due
    <3>3. QED
      BY <2>1, <2>2, <3>1, <3>2, ReturnValues
  <2>4. CASE order \cap failed # {}
    <3>1. cached' = cached
      BY <1>1, <2>4 DEF EvalReturns
    <3>2. Due' \subseteq Due /\ Due' \subseteq cached
      BY <2>1, <2>2, <3>1 DEF Due
    <3>3. QED
      BY <2>1, <2>2, <3>2, ReturnValues
  <2>5. QED
    BY <2>3, <2>4
<1>2. CASE AbortReturns
  <2>1. /\ GpuDone(order) /\ doing' = "no" /\ cached' = cached
        /\ UNCHANGED <<held, pending, queue, content, broken>>
    BY <1>2 DEF AbortReturns, graph
  <2>2. Alive' \subseteq Alive /\ \A n \in cached : out'[n] = out[n]
    BY <1>2, AbortReturnsStep
  <2>3. Due' \subseteq Due /\ Due' \subseteq cached
    BY <2>1, <2>2 DEF Due
  <2>4. QED
    BY <2>1, <2>2, <2>3, ReturnValues
<1>3. CASE ObserveReturns
  <2>1. /\ GpuDone(order) /\ doing' = "no" /\ cached' = cached /\ out' = out
        /\ UNCHANGED <<held, pending, queue, content, broken>>
    BY <1>3 DEF ObserveReturns, graph
  <2>2. Alive' \subseteq Alive
    BY <1>3, ObserveReturnsStep
  <2>3. Due' \subseteq Due
    BY <2>1, <2>2 DEF Due
  <2>4. QED
    BY <2>1, <2>3, ReturnValues
<1>4. QED
  BY <1>1, <1>2, <1>3 DEF Returns

\* What an encoding commits reads tensors that are right or that an earlier job
\* is to write.
LEMMA EncodingValues ==
  ASSUME IInv, VInv, doing = "no", NEW root \in held, NEW ord, ord = BuildOrder(root),
         NEW k, Encoding(ord, k), UNCHANGED <<content, broken>>, Pinned',
         Due' \subseteq Alive \cap (cached \cup (IF k = Cardinality(ord) THEN ord ELSE {}))
  PROVE  VInv'
<1>1. /\ Len(queue) \in Nat /\ Len(queue') \in Nat
      /\ \A i \in 1..Len(queue) : i \in 1..Len(queue') /\ queue'[i] = queue[i]
  <2>1. /\ queue' \in Seq(Job) /\ Len(queue') = Len(queue) + k
        /\ \A i \in 1..Len(queue) : queue'[i] = queue[i]
    BY DEF Encoding
  <2>2. Len(queue) \in Nat /\ Len(queue') \in Nat
    BY <2>1, QueueTyped, Members DEF IInv
  <2>3. k \in Nat
    BY DEF Encoding
  <2>4. QED
    BY <2>1, <2>2, <2>3
<1>2. \A m \in {0} \cup cached : Buf(out', m) = Buf(out, m)
  BY DEF Encoding
<1>3. ASSUME NEW m \in {0} \cup cached, Right(m)
      PROVE  m \in broken' \/ m \in content'[Buf(out', m)]
  BY <1>2, <1>3 DEF Right
<1>4. ASSUME NEW i \in 1..Len(queue'), NEW m \in queue'[i].args
      PROVE  \/ m \in broken' \/ m \in content'[Buf(out', m)]
             \/ \E j \in 1..(i - 1) : queue'[j].node = m
  <2>1. CASE i \in 1..Len(queue)
    <3>1. m \in queue[i].args /\ m \in {0} \cup cached
      BY <1>1, <1>4, <2>1, FreshOrder
    <3>2. CASE Right(m)
      BY <1>3, <3>1, <3>2
    <3>3. CASE \E j \in 1..(i - 1) : queue[j].node = m
      <4>1. PICK j \in 1..(i - 1) : queue[j].node = m
        BY <3>3
      <4>2. j \in 1..Len(queue)
        BY <1>1, <2>1, <4>1
      <4>3. QED
        BY <1>1, <4>1, <4>2
    <3>4. QED
      BY <2>1, <3>1, <3>2, <3>3 DEF VInv, ArgsReady
  <2>2. CASE i \notin 1..Len(queue)
    <3>1. NewJob(queue', out', ord, i)
      BY <1>4, <2>2 DEF Encoding
    <3>2. PICK n \in ord : n = queue'[i].node /\ queue'[i].args = ins[n]
      BY <3>1 DEF NewJob
    <3>3. m \in {0} \cup cached \cup ord
      BY <1>4, <3>2, FreshOrder
    <3>4. CASE m = 0
      <4>1. Right(0)
        BY DEF VInv, Right, Buf
      <4>2. QED
        BY <1>3, <3>4, <4>1
    <3>5. CASE m \in cached /\ m # 0
      <4>1. m \in Due
        BY <1>4, <3>2, <3>5, AliveClosed, FreshOrder DEF Due, IInv
      <4>2. CASE Right(m)
        BY <1>3, <3>5, <4>2
      <4>3. CASE \E j \in 1..Len(queue) : queue[j].node = m
        <5>1. PICK j \in 1..Len(queue) : queue[j].node = m
          BY <4>3
        <5>2. j \in 1..(i - 1) /\ queue'[j].node = m
          BY <1>1, <2>2, <5>1
        <5>3. QED
          BY <5>2
      <4>4. QED
        BY <4>1, <4>2, <4>3 DEF VInv, Settled
    <3>6. CASE m \in ord
      BY <1>4, <3>1, <3>6 DEF NewJob
    <3>7. QED
      BY <3>3, <3>4, <3>5, <3>6
  <2>3. QED
    BY <2>1, <2>2
<1>5. ArgsReady'
  BY <1>4 DEF ArgsReady, Right
<1>6. ASSUME NEW n \in Due'
      PROVE  \/ n \in broken' \/ n \in content'[Buf(out', n)]
             \/ \E j \in 1..Len(queue') : queue'[j].node = n
  <2>1. CASE n \in cached
    <3>1. n \in Due
      BY <1>6, <2>1 DEF Due
    <3>2. QED
      BY <1>1, <1>3, <2>1, <3>1 DEF VInv, Settled
  <2>2. CASE n \notin cached
    BY <1>6, <2>2 DEF Encoding
  <2>3. QED
    BY <2>1, <2>2
<1>7. Settled'
  BY <1>6 DEF Settled, Right
<1>8. QED
  BY <1>5, <1>7 DEF VInv

\* The arguments of the jobs encoded stay alive: the jobs' own, by ord, the
\* others as the hypothesis says.
LEMMA EncodingPinned ==
  ASSUME IInv, VInv, doing = "no", NEW root \in held, NEW ord, ord = BuildOrder(root),
         NEW k, Encoding(ord, k), held' = held, pending \subseteq pending',
         \A n \in ord : \A m \in ins[n] \ {0} :
           \/ m \in held
           \/ ord \in pending' /\ m \in ord
           \/ n \in Working' /\ m \in ins'[n]
  PROVE  Pinned'
<1>1. order = {} /\ Working = {}
  BY FreshOrder
<1>2. ASSUME NEW i \in 1..Len(queue'), NEW m \in queue'[i].args \ {0}
      PROVE  \/ m \in held'
             \/ \E p \in pending' : {m, queue'[i].node} \subseteq p
             \/ queue'[i].node \in Working' /\ m \in ins'[queue'[i].node]
  <2>1. CASE i \in 1..Len(queue)
    <3>1. queue'[i] = queue[i]
      BY <2>1 DEF Encoding
    <3>2. QED
      BY <1>1, <1>2, <2>1, <3>1 DEF VInv, Pinned
  <2>2. CASE i \notin 1..Len(queue)
    <3>1. NewJob(queue', out', ord, i)
      BY <1>2, <2>2 DEF Encoding
    <3>2. PICK n \in ord : n = queue'[i].node /\ queue'[i].args = ins[n]
      BY <3>1 DEF NewJob
    <3>3. QED
      BY <1>2, <3>2
  <2>3. QED
    BY <2>1, <2>2
<1>3. QED
  BY <1>2 DEF Pinned

\* A blocking eval keeps the values right: its jobs are to compute them.
LEMMA EvalValues ==
  ASSUME IInv, VInv, NEW root \in held, Eval(root)
  PROVE  VInv'
<1>1. PICK ord : ord = BuildOrder(root)
  OBVIOUS
<1>2. /\ doing = "no" /\ order' = ord /\ doing' = "eval"
      /\ UNCHANGED <<graph, cached, in_flight, pending, content, failed, broken, faults>>
  BY <1>1 DEF Eval
<1>3. Encoding(ord, Cardinality(ord)) /\ Alive' \subseteq Alive
  BY <1>1, EvalStep
<1>4. Working' = ord /\ ins' = ins /\ held' = held
  BY <1>2 DEF Working, graph
<1>5. Pinned'
  BY <1>1, <1>2, <1>3, <1>4, EncodingPinned
<1>6. Due' \subseteq Alive \cap (cached \cup ord)
  BY <1>2, <1>3 DEF Due
<1>7. QED
  BY <1>1, <1>2, <1>3, <1>5, <1>6, EncodingValues

\* So does one that fails to encode: nothing it committed is populated.
LEMMA EncodeFailsValues ==
  ASSUME IInv, VInv, NEW root \in held, EncodeFails(root)
  PROVE  VInv'
<1>1. PICK ord : ord = BuildOrder(root)
  OBVIOUS
<1>2. /\ doing = "no" /\ order' = ord /\ doing' = "abort"
      /\ UNCHANGED <<graph, cached, in_flight, pending, content, failed, broken>>
  BY <1>1 DEF EncodeFails
<1>3. PICK k : Encoding(ord, k)
  BY <1>1, EncodeFailsStep
<1>4. Working' = ord /\ ins' = ins /\ held' = held
  BY <1>2 DEF Working, graph
<1>5. Pinned'
  BY <1>1, <1>2, <1>3, <1>4, EncodingPinned
<1>6. Due' \subseteq Alive \cap cached
  BY <1>2, EncodeFailsStep DEF Due
<1>7. QED
  BY <1>1, <1>2, <1>3, <1>5, <1>6, EncodingValues

\* So does eval_async: its jobs are to compute what it populates.
LEMMA EvalAsyncValues ==
  ASSUME IInv, VInv, ~DropsEarly, NEW root \in held, EvalAsync(root)
  PROVE  VInv'
<1>1. PICK ord : ord = BuildOrder(root)
  OBVIOUS
<1>2. /\ doing = "no" /\ CrossInputs(ord) \subseteq held
      /\ cached' = cached \cup ord /\ pending' = pending \cup {ord}
      /\ UNCHANGED <<kind, held, doing, order, content, failed, broken, faults>>
  BY <1>1 DEF EvalAsync, Populated
<1>3. Encoding(ord, Cardinality(ord)) /\ Alive' \subseteq Alive
  BY <1>1, EvalAsyncStep
<1>4. ASSUME NEW n \in ord, NEW m \in ins[n] \ {0}
      PROVE  m \in held \/ (ord \in pending' /\ m \in ord)
  <2>1. m \in cached \cup ord
    BY <1>1, <1>2, <1>4, FreshOrder
  <2>2. m \in cached => m \in CrossInputs(ord)
    BY <1>4 DEF CrossInputs
  <2>3. QED
    BY <1>2, <2>1, <2>2
<1>5. Pinned'
  BY <1>1, <1>2, <1>3, <1>4, EncodingPinned
<1>6. Due' \subseteq Alive \cap (cached \cup ord)
  BY <1>2, <1>3 DEF Due
<1>7. QED
  BY <1>1, <1>2, <1>3, <1>5, <1>6, EncodingValues

\* A job that is done leaves its node right, and what else was right stays so.
LEMMA JobDoneValues ==
  ASSUME IInv, VInv, NEW i \in 1..Len(queue),
         Alive' = Alive, Len(queue) \in Nat, Len(queue') = Len(queue) - 1,
         \A j \in 1..(Len(queue) - 1) : queue'[j] = IF j < i THEN queue[j] ELSE queue[j + 1],
         UNCHANGED <<graph, out, cached, pending, doing, order>>,
         0 \in content'[Slab],
         \E n : /\ n = queue[i].node
                /\ n \in broken' \/ n \in content'[Buf(out, n)],
         \A m \in Alive \cup {0} :
           m # queue[i].node /\ Right(m) /\ (m # 0 => out[m] # None) =>
             m \in broken' \/ m \in content'[Buf(out, m)]
  PROVE  VInv'
<1>1. PICK l \in Nat : l = Len(queue)
  OBVIOUS
<1>2. PICK n : n = queue[i].node
  OBVIOUS
<1>3. n \in broken' \/ n \in content'[Buf(out, n)]
  BY <1>2
<1>4. \A j \in 1..(l - 1) : \E x \in 1..l : queue'[j] = queue[x] /\ x = IF j < i THEN j ELSE j + 1
  BY <1>1
<1>5. ASSUME NEW x \in 1..l, x # i
      PROVE  \E j \in 1..(l - 1) : queue'[j] = queue[x] /\ x = IF j < i THEN j ELSE j + 1
  <2>1. CASE x < i
    <3>1. x \in 1..(l - 1)
      BY <1>1, <2>1
    <3>2. QED
      BY <1>1, <2>1, <3>1
  <2>2. CASE ~(x < i)
    <3>1. x - 1 \in 1..(l - 1) /\ ~(x - 1 < i) /\ (x - 1) + 1 = x
      BY <1>1, <1>5, <2>2
    <3>2. QED
      BY <1>1, <3>1
  <2>3. QED
    BY <2>1, <2>2
<1>6. Working' = Working
  BY DEF Working
<1>7. Pinned'
  <2>1. ASSUME NEW j \in 1..(l - 1), NEW m \in queue'[j].args \ {0}
        PROVE  \/ m \in held
               \/ \E p \in pending : {m, queue'[j].node} \subseteq p
               \/ {m, queue'[j].node} \subseteq order
               \/ queue'[j].node \in Working /\ m \in ins[queue'[j].node]
    <3>1. PICK x \in 1..l : queue'[j] = queue[x]
      BY <1>4
    <3>2. QED
      BY <1>1, <2>1, <3>1 DEF VInv, Pinned
  <2>2. /\ held' = held /\ pending' = pending /\ order' = order /\ ins' = ins
        /\ Len(queue') = l - 1
    BY <1>1 DEF graph
  <2>3. QED
    BY <1>6, <2>1, <2>2 DEF Pinned
<1>8. ASSUME NEW j \in 1..(l - 1), NEW m \in queue'[j].args
      PROVE  \/ m \in broken' \/ m \in content'[Buf(out, m)]
             \/ \E y \in 1..(j - 1) : queue'[y].node = m
  <2>1. PICK x \in 1..l : queue'[j] = queue[x] /\ x = IF j < i THEN j ELSE j + 1
    BY <1>4
  <2>2. m \in Alive \cup {0}
    BY <1>1, <1>8, <2>1, ArgsAlive DEF VInv
  <2>3. m # 0 => out[m] # None
    <3>1. m \in {0} \cup cached \cup Working
      BY <1>1, <1>8, <2>1 DEF IInv, JobsMatch, Working
    <3>2. m # 0 => m \in Nodes
      BY <2>2, AliveClosed DEF IInv
    <3>3. QED
      BY <3>1, <3>2 DEF IInv, Outs
  <2>4. CASE m = n
    BY <1>3, <2>4
  <2>5. CASE m # n /\ Right(m)
    BY <1>2, <2>2, <2>3, <2>5
  <2>6. CASE m # n /\ \E y \in 1..(x - 1) : queue[y].node = m
    <3>1. PICK y \in 1..(x - 1) : queue[y].node = m
      BY <2>6
    <3>2. y \in 1..l /\ y # i /\ y < x
      BY <1>2, <2>1, <2>6, <3>1
    <3>3. PICK z \in 1..(l - 1) : queue'[z] = queue[y] /\ y = IF z < i THEN z ELSE z + 1
      BY <1>5, <3>2
    <3>4. z \in 1..(j - 1)
      BY <1>1, <2>1, <3>2, <3>3
    <3>5. QED
      BY <3>1, <3>3, <3>4
  <2>7. QED
    BY <1>1, <1>8, <2>1, <2>4, <2>5, <2>6 DEF VInv, ArgsReady
<1>9. ArgsReady'
  <2>1. out' = out /\ Len(queue') = l - 1
    BY <1>1
  <2>2. QED
    BY <1>8, <2>1 DEF ArgsReady, Right
<1>10. Due' = Due
  BY DEF Due
<1>11. ASSUME NEW m \in Due
       PROVE  \/ m \in broken' \/ m \in content'[Buf(out, m)]
              \/ \E y \in 1..(l - 1) : queue'[y].node = m
  <2>1. m \in Alive /\ out[m] # None
    BY AliveClosed DEF Due, IInv, Outs, Working
  <2>2. CASE m = n
    BY <1>3, <2>2
  <2>3. CASE m # n /\ Right(m)
    BY <1>2, <2>1, <2>3
  <2>4. CASE m # n /\ \E y \in 1..l : queue[y].node = m
    <3>1. PICK y \in 1..l : queue[y].node = m
      BY <2>4
    <3>2. y # i
      BY <1>2, <2>4, <3>1
    <3>3. QED
      BY <1>5, <3>1, <3>2
  <2>5. QED
    BY <1>1, <2>2, <2>3, <2>4 DEF VInv, Settled
<1>12. Settled'
  <2>1. out' = out /\ Len(queue') = l - 1
    BY <1>1
  <2>2. QED
    BY <1>10, <1>11, <2>1 DEF Settled, Right
<1>13. QED
  BY <1>7, <1>9, <1>12 DEF VInv

\* Bytes outside the output of a job stay; in the leaf, all that landed stays.
LEMMA OthersStay ==
  ASSUME IInv, NEW i \in 1..Len(queue),
         \A b \in (Buffers \cup {Slab}) \ {queue[i].out} : content'[b] = content[b],
         queue[i].out = Slab => content[Slab] \subseteq content'[Slab]
  PROVE  /\ \A m \in Alive \cup {0} :
              m # queue[i].node /\ m \in content[Buf(out, m)] /\ (m # 0 => out[m] # None) =>
                m \in content'[Buf(out, m)]
         /\ content[Slab] \subseteq content'[Slab]
<1>1. queue[i].out = out[queue[i].node] /\ queue[i].node \in Alive
      /\ queue[i].out \in Buffers \cup {Slab}
  BY AliveClosed, Members DEF IInv, JobsMatch, Roots
<1>2. content[Slab] \subseteq content'[Slab]
  BY <1>1
<1>3. ASSUME NEW m \in Alive \cup {0}, m # queue[i].node, m \in content[Buf(out, m)],
             m # 0 => out[m] # None
      PROVE  m \in content'[Buf(out, m)]
  <2>1. CASE Buf(out, m) = Slab
    BY <1>2, <1>3, <2>1
  <2>2. CASE Buf(out, m) # Slab
    <3>1. m \in Alive /\ m # 0 /\ Buf(out, m) = out[m]
      BY <1>3, <2>2 DEF Buf
    <3>2. m \in Nodes /\ out[m] \in Buffers
      BY <1>3, <2>2, <3>1, AliveClosed DEF IInv, TypeOK
    <3>3. out[m] # queue[i].out
      BY <1>1, <1>3, <3>1, <3>2 DEF IInv, Owned
    <3>4. QED
      BY <1>3, <3>1, <3>2, <3>3
  <2>3. QED
    BY <2>1, <2>2
<1>4. QED
  BY <1>2, <1>3

\* A job that may run has arguments that are right: none has an earlier job.
LEMMA ClearArgs ==
  ASSUME IInv, VInv, NEW i \in 1..Len(queue), Clear(i), NEW m \in queue[i].args
  PROVE  Right(m)
<1>1. SUFFICES ASSUME NEW j \in 1..(i - 1), queue[j].node = m PROVE FALSE
  BY DEF VInv, ArgsReady
<1>2. j \in 1..Len(queue)
  BY Members DEF IInv
<1>3. m # 0 /\ queue[j].out = out[m]
  BY <1>1, <1>2, Members DEF IInv, JobsMatch, Nodes
<1>4. queue[i].reads = {Buf(out, x) : x \in queue[i].args}
  BY DEF IInv, JobsMatch
<1>5. queue[j].out \in queue[i].reads
  BY <1>3, <1>4 DEF Buf
<1>6. QED
  BY <1>1, <1>5 DEF Clear

\* The GPU runs an op: it computes the op's value.
LEMMA RunValues ==
  ASSUME IInv, VInv, NEW i \in 1..Len(queue), Run(i)
  PROVE  VInv'
<1>1. PICK n \in Nodes : n = queue[i].node
  BY Members DEF IInv
<1>2. queue[i].out \in Buffers \cup {Slab} /\ queue[i].out = out[n]
  BY <1>1, Members DEF IInv, JobsMatch
<1>3. Buf(out, n) = queue[i].out /\ (queue[i].out = Slab => kind[n] = "update")
  BY <1>1, <1>2, EvalAssumption DEF Buf, IInv, Outs, Nodes
<1>4. PICK value : /\ value = IF \A m \in queue[i].args : m \in content[BufferOf(m)]
                              THEN {n} ELSE {}
                   /\ content' = [content EXCEPT ![queue[i].out] =
                                    IF kind[n] = "update" THEN @ \cup value ELSE value]
  BY <1>1 DEF Run
<1>5. /\ broken' = IF queue[i].args \cap broken = {} THEN broken \ {n} ELSE broken \cup {n}
      /\ Clear(i)
      /\ UNCHANGED <<graph, out, cached, in_flight, pending, doing, order>>
  BY <1>1 DEF Run
<1>6. /\ \A b \in (Buffers \cup {Slab}) \ {queue[i].out} : content'[b] = content[b]
      /\ content'[queue[i].out] = IF kind[n] = "update" THEN content[queue[i].out] \cup value
                                  ELSE value
  BY <1>2, <1>4 DEF IInv, TypeOK
<1>7. n \in broken' \/ n \in content'[Buf(out, n)]
  <2>1. CASE queue[i].args \cap broken = {}
    <3>1. \A m \in queue[i].args : m \in content[BufferOf(m)]
      BY <1>5, <2>1, ClearArgs DEF Right, Buf, BufferOf
    <3>2. QED
      BY <1>3, <1>4, <1>6, <3>1
  <2>2. CASE queue[i].args \cap broken # {}
    BY <1>5, <2>2
  <2>3. QED
    BY <2>1, <2>2
<1>8. queue[i].out = Slab => content[Slab] \subseteq content'[Slab]
  BY <1>3, <1>6
<1>9. /\ \A m \in Alive \cup {0} :
           m # queue[i].node /\ m \in content[Buf(out, m)] /\ (m # 0 => out[m] # None) =>
             m \in content'[Buf(out, m)]
      /\ content[Slab] \subseteq content'[Slab]
  BY <1>6, <1>8, OthersStay
<1>10. \A m \in Alive \cup {0} :
         m # queue[i].node /\ Right(m) /\ (m # 0 => out[m] # None) =>
           m \in broken' \/ m \in content'[Buf(out, m)]
  BY <1>1, <1>5, <1>9 DEF Right
<1>11. 0 \in content'[Slab]
  BY <1>9 DEF VInv
<1>12. /\ Alive' = Alive /\ Len(queue) \in Nat /\ Len(queue') = Len(queue) - 1
       /\ \A j \in 1..(Len(queue) - 1) : queue'[j] = IF j < i THEN queue[j] ELSE queue[j + 1]
  BY QueueShorter, RunStep DEF Run
<1>13. QED
  BY <1>1, <1>5, <1>7, <1>10, <1>11, <1>12, JobDoneValues

\* A job that fails breaks the values of its node, and no other.
LEMMA GpuFailsValues ==
  ASSUME IInv, VInv, NEW i \in 1..Len(queue), GpuFails(i)
  PROVE  VInv'
<1>1. PICK n \in Nodes : n = queue[i].node
  BY Members DEF IInv
<1>2. queue[i].out \in Buffers \cup {Slab}
  BY Members DEF IInv
<1>3. /\ content' = [content EXCEPT ![queue[i].out] = IF queue[i].out = Slab THEN @ ELSE {}]
      /\ broken' = broken \cup {n}
      /\ UNCHANGED <<graph, out, cached, in_flight, pending, doing, order>>
  BY <1>1 DEF GpuFails
<1>4. /\ \A b \in (Buffers \cup {Slab}) \ {queue[i].out} : content'[b] = content[b]
      /\ queue[i].out = Slab => content[Slab] \subseteq content'[Slab]
  BY <1>2, <1>3 DEF IInv, TypeOK
<1>5. /\ \A m \in Alive \cup {0} :
           m # queue[i].node /\ m \in content[Buf(out, m)] /\ (m # 0 => out[m] # None) =>
             m \in content'[Buf(out, m)]
      /\ content[Slab] \subseteq content'[Slab]
  BY <1>4, OthersStay
<1>6. \A m \in Alive \cup {0} :
        m # queue[i].node /\ Right(m) /\ (m # 0 => out[m] # None) =>
          m \in broken' \/ m \in content'[Buf(out, m)]
  BY <1>3, <1>5 DEF Right
<1>7. 0 \in content'[Slab]
  BY <1>5 DEF VInv
<1>8. /\ Alive' = Alive /\ Len(queue) \in Nat /\ Len(queue') = Len(queue) - 1
      /\ \A j \in 1..(Len(queue) - 1) : queue'[j] = IF j < i THEN queue[j] ELSE queue[j + 1]
  BY QueueShorter, GpuFailsStep DEF GpuFails
<1>9. n \in broken'
  BY <1>3
<1>10. QED
  BY <1>1, <1>3, <1>6, <1>7, <1>8, <1>9, JobDoneValues

\* With a client that keeps what is still read, every step keeps the values.
LEMMA NextVInv == ~DropsEarly /\ IInv /\ VInv /\ [Next]_vars => VInv'
<1> SUFFICES ASSUME ~DropsEarly, IInv, VInv, [Next]_vars PROVE VInv'
  OBVIOUS
<1>1. DOMAIN queue = 1..Len(queue)
  BY Members DEF IInv
<1>2. ASSUME NEW n \in Nodes, NEW k \in {"op", "update"}, NEW S \in SUBSET (0..MaxNodes),
             Build(n, k, S)
      PROVE  VInv'
  BY <1>2, BuildValues
<1>3. ASSUME NEW n \in Nodes, Drop(n) PROVE VInv'
  BY <1>3, DropValues
<1>4. ASSUME NEW root \in held, Eval(root) PROVE VInv'
  BY <1>4, EvalValues
<1>5. ASSUME NEW root \in held, EvalAsync(root) PROVE VInv'
  BY <1>5, EvalAsyncValues
<1>6. ASSUME NEW root \in held, EncodeFails(root) PROVE VInv'
  BY <1>6, EncodeFailsValues
<1>7. ASSUME NEW p \in pending, Observe(p) PROVE VInv'
  BY <1>7, ObserveValues
<1>8. ASSUME Returns PROVE VInv'
  BY <1>8, ReturnsValues
<1>9. ASSUME Gpu PROVE VInv'
  BY <1>1, <1>9, RunValues, GpuFailsValues DEF Gpu
<1>10. CASE UNCHANGED vars
  <2>1. Alive' = Alive /\ Working' = Working /\ Due' = Due
    BY <1>10, AliveIn DEF vars, Roots, Working, Due
  <2>2. Pinned' /\ ArgsReady' /\ Settled'
    BY <1>10, <2>1 DEF vars, VInv, Pinned, ArgsReady, Settled, Right
  <2>3. QED
    BY <1>10, <2>2 DEF vars, VInv
<1>11. QED
  BY <1>2, <1>3, <1>4, <1>5, <1>6, <1>7, <1>8, <1>9, <1>10 DEF Next

\* For a client that keeps what is still read, the values are right in every state.
LEMMA AlwaysVInv == ~DropsEarly => (Spec => [](IInv /\ VInv))
<1> SUFFICES ASSUME ~DropsEarly PROVE Spec => [](IInv /\ VInv)
  OBVIOUS
<1>1. Init => IInv /\ VInv
  BY InitIInv, InitVInv
<1>2. IInv /\ VInv /\ [Next]_vars => (IInv /\ VInv)'
  BY NextIInv, NextVInv
<1>3. QED
  BY <1>1, <1>2, PTL DEF Spec

\* A readable tensor has settled: its value is there unless a failure shows.
LEMMA ReadableRight ==
  ASSUME IInv, VInv, NEW n \in Readable
  PROVE  n \in broken \/ n \in content[out[n]]
<1>1. n \in Due /\ n # 0
  BY ReadableIdle DEF Due, Nodes
<1>2. Right(n)
  BY <1>1, ReadableIdle DEF VInv, Settled
<1>3. QED
  BY <1>1, <1>2 DEF Right, Buf

\* HostReadsRight: what cpu_bytes (tensor.rs:2807) shows of an op is its own value
\* or a failure's, and no committed job is about to write it, for a client that
\* keeps what is still read.
THEOREM EvalHostReadsRight == ~DropsEarly => (Spec => []HostReadsRight)
<1> SUFFICES ASSUME ~DropsEarly PROVE Spec => []HostReadsRight
  OBVIOUS
<1>1. IInv /\ VInv => HostReadsRight
  BY ReadableRight, ReadableIdle, Members DEF HostReadsRight, IInv
<1>2. QED
  BY <1>1, AlwaysVInv, PTL

\* UpdatesLand: an evaluated slice_update is in the leaf when its tensor is readable.
THEOREM EvalUpdatesLand == ~DropsEarly => (Spec => []UpdatesLand)
<1> SUFFICES ASSUME ~DropsEarly PROVE Spec => []UpdatesLand
  OBVIOUS
<1>1. IInv /\ VInv => UpdatesLand
  <2>1. ASSUME IInv, VInv, NEW n \in Readable, kind[n] = "update"
        PROVE  n \in broken \/ n \in content[Slab]
    <3>1. out[n] = Slab
      BY <2>1, ReadableIdle, EvalAssumption DEF IInv, Outs
    <3>2. QED
      BY <2>1, <3>1, ReadableRight
  <2>2. QED
    BY <2>1 DEF UpdatesLand
<1>2. QED
  BY <1>1, AlwaysVInv, PTL
=============================================================================
