-------------------------- MODULE GeneratorProofs --------------------------
(***************************************************************************)
(* Proofs about Generator, for any layers, window, chunk length, prompts,  *)
(* lookaheads and any plan of failures.                                    *)
(*                                                                         *)
(* The batches of a call are numbered 0, 1, ... in the order they are      *)
(* committed; batch j computes token prompt + j + 1.  The argument is that *)
(* the iterator's queue, the GPU's queue and the results are three windows *)
(* on that one numbering, and that the positions where the plan fails lie  *)
(* ahead of what has been committed (host) and of what has been returned   *)
(* (GPU).                                                                  *)
(***************************************************************************)
EXTENDS Generator, SequencesExt, FiniteSetTheorems, SequenceTheorems, TLAPS

-----------------------------------------------------------------------------
\* Numbers and sequences.

\* A non-empty set of naturals has a least element.
LEMMA LeastNatural ==
  ASSUME NEW T \in SUBSET Nat, T # {}
  PROVE  \E n \in T : \A m \in T : n <= m
<1>1. IsWellFoundedOn(OpToRel(<, Nat), Nat)
  BY NatLessThanWellFounded
<1>2. PICK n \in T : \A m \in T : ~(<<m, n>> \in OpToRel(<, Nat))
  BY <1>1, WFMin
<1>3. \A m \in T : ~(m < n)
  <2>1. \A m \in T : <<m, n>> \in Nat \X Nat
    OBVIOUS
  <2>2. QED
    BY <1>2, <2>1, Zenon DEF OpToRel
<1>4. QED
  BY <1>3

\* A non-empty set of naturals below a bound has a greatest element.
LEMMA MaxBounded ==
  ASSUME NEW S \in SUBSET Nat, S # {}, NEW b \in Nat, \A x \in S : x <= b
  PROVE  Max(S) \in S /\ \A x \in S : x <= Max(S)
<1>1. PICK U \in SUBSET Nat : U = {u \in Nat : \A x \in S : x <= u}
  OBVIOUS
<1>2. PICK u \in U : \A v \in U : u <= v
  BY <1>1, LeastNatural
<1>3. u \in S
  <2>1. SUFFICES ASSUME u \notin S PROVE FALSE
    OBVIOUS
  <2>2. \A x \in S : x <= u - 1 /\ u - 1 \in Nat
    BY <1>1, <2>1
  <2>3. u - 1 \in U
    BY <1>1, <2>2
  <2>4. QED
    BY <1>1, <1>2, <2>3
<1>4. \E x \in S : \A y \in S : x >= y
  BY <1>1, <1>3
<1>5. QED
  BY <1>4 DEF Max

\* The items of a queue: what its places hold.
LEMMA ItemsTyped ==
  ASSUME NEW T, NEW q \in Seq(T)
  PROVE  /\ DOMAIN q = 1..Len(q) /\ Len(q) \in Nat
         /\ ToSet(q) \subseteq T /\ \A i \in 1..Len(q) : q[i] \in ToSet(q)
         /\ q = <<>> <=> ToSet(q) = {}
<1>1. DOMAIN q = 1..Len(q) /\ Len(q) \in Nat
  OBVIOUS
<1>2. ToSet(q) \subseteq T /\ \A i \in 1..Len(q) : q[i] \in ToSet(q)
  BY DEF ToSet
<1>3. ASSUME q # <<>> PROVE ToSet(q) # {}
  <2>1. 1 \in DOMAIN q
    BY <1>1, <1>3
  <2>2. QED
    BY <2>1 DEF ToSet
<1>4. ToSet(<<>>) = {}
  BY DEF ToSet
<1>5. QED
  BY <1>1, <1>2, <1>3, <1>4

\* Append adds one item, at the end.
LEMMA AppendItems ==
  ASSUME NEW T, NEW q \in Seq(T), NEW x \in T
  PROVE  /\ Append(q, x) \in Seq(T) /\ Len(Append(q, x)) = Len(q) + 1
         /\ ToSet(Append(q, x)) = ToSet(q) \cup {x}
         /\ IsInjective(q) /\ x \notin ToSet(q) => IsInjective(Append(q, x))
         /\ Append(q, x)[Len(q) + 1] = x /\ \A i \in 1..Len(q) : Append(q, x)[i] = q[i]
<1>1. PICK a : a = Append(q, x)
  OBVIOUS
<1>2. /\ a \in Seq(T) /\ Len(a) = Len(q) + 1 /\ Len(q) \in Nat
      /\ DOMAIN a = 1..Len(a) /\ DOMAIN q = 1..Len(q)
      /\ a[Len(q) + 1] = x /\ \A i \in 1..Len(q) : a[i] = q[i]
  BY <1>1
<1>3. ToSet(a) = ToSet(q) \cup {x}
  BY <1>2 DEF ToSet
<1>4. ASSUME IsInjective(q), x \notin ToSet(q) PROVE IsInjective(a)
  <2>1. \A i \in 1..Len(q) : q[i] # x
    BY <1>2, <1>4 DEF ToSet
  <2>2. QED
    BY <1>2, <1>4, <2>1 DEF IsInjective
<1>5. QED
  BY <1>1, <1>2, <1>3, <1>4

\* What is appended lies behind what was there.
LEMMA AppendedItems ==
  ASSUME NEW T, NEW q \in Seq(T), NEW k \in Nat, NEW r \in [1..k -> T]
  PROVE  /\ q \o r \in Seq(T) /\ Len(q \o r) = Len(q) + k /\ Len(q) \in Nat
         /\ DOMAIN (q \o r) = 1..(Len(q) + k) /\ DOMAIN q = 1..Len(q)
         /\ \A i \in 1..Len(q) : (q \o r)[i] = q[i]
         /\ \A i \in 1..(Len(q) + k) : i \notin 1..Len(q) =>
              i - Len(q) \in 1..k /\ (q \o r)[i] = r[i - Len(q)]
<1>1. r \in Seq(T) /\ Len(r) = k
  OBVIOUS
<1>2. PICK a : a = q \o r
  OBVIOUS
<1>3. /\ a \in Seq(T) /\ Len(a) = Len(q) + k /\ Len(q) \in Nat
      /\ \A i \in 1..Len(a) : a[i] = IF i <= Len(q) THEN q[i] ELSE r[i - Len(q)]
  BY <1>1, <1>2, ConcatProperties
<1>4. DOMAIN a = 1..(Len(q) + k) /\ DOMAIN q = 1..Len(q)
  BY <1>3
<1>5. \A i \in 1..(Len(q) + k) : i \notin 1..Len(q) => i - Len(q) \in 1..k /\ ~(i <= Len(q))
  BY <1>3
<1>6. QED
  BY <1>2, <1>3, <1>4, <1>5

-----------------------------------------------------------------------------
\* The component.

\* The caches of a call that is going well, q tokens in.
Absorbed(q) == [l \in Layers |-> [rows |-> [r \in 1..q |-> r], dirty |-> FALSE]]

\* Batch j of a call whose prompt has p tokens, the last chunk starting at s.
At(p, s, j) == IF j = 0 THEN s ELSE p + j - 1
Batch(p, s, j) == [at |-> At(p, s, j), id |-> p + j + 1]

\* The batches committed so far, as long as none was answered with an error.
Sent == yielded + Len(front) + Len(inflight)
HasRun == Sent - Len(gpu)

Going == phase \in {"idle", "commit", "wait"} /\ ~done
Outside == phase \in {"none", "prefill", "refused"}

\* Between calls and before the iterator exists, nothing is in flight.
Quiet ==
  /\ phase = "none" <=> plan = NoCall
  /\ phase # "none" => plan \in Plans /\ Admits(plan)
  /\ phase \in {"none", "prefill"} => items = <<>>
  /\ phase = "refused" => items = <<Error>>
  /\ Outside => /\ inflight = <<>> /\ front = <<>> /\ gpu = <<>>
                /\ yielded = 0 /\ ~done /\ ~deferred_err
  /\ phase # "wait" => front = <<>>
  /\ phase = "wait" => Len(front) = 1
  /\ phase \in {"commit", "wait"} => ~done
  /\ \A i \in 1..Len(gpu) : gpu[i] \in ToSet(inflight) \cup ToSet(front)

\* The prefill stops at a chunk's start, ahead of it every failure of the plan.
AtChunk(p, s) == /\ s \in 0..(p.prompt - 1) /\ s \in Starts(p.prompt, p.new)
                 /\ p.host >= s /\ p.gpu >= s

Filling == phase = "prefill" => AtChunk(plan, start) /\ caches = Absorbed(start) /\ ~bad

\* The window of the lookahead.
Ahead ==
  /\ Sent <= plan.new
  /\ phase \in {"idle", "commit", "wait"} => depth \in Depths
  /\ phase \in {"idle", "commit"} => Len(inflight) <= Saturating(depth)
  /\ phase = "idle" /\ items # <<>> => Len(inflight) <= depth
  /\ phase = "wait" => Len(inflight) <= depth

\* The queues hold consecutive batches, up to the last one committed.
Pipelined == Going =>
  /\ phase = "wait" => front[1] = Batch(plan.prompt, start, yielded)
  /\ \A i \in 1..Len(inflight) :
       inflight[i] = Batch(plan.prompt, start, yielded + Len(front) + i - 1)
  /\ Len(gpu) <= Len(front) + Len(inflight)
  /\ \A i \in 1..Len(gpu) : gpu[i] = Batch(plan.prompt, start, HasRun + i - 1)

\* Every committed forward succeeded on the host; a stashed error is the next one's.
Committing == Going =>
  /\ yielded < plan.new /\ Sent >= 1 /\ start \in 0..(plan.prompt - 1)
  /\ plan.host >= plan.prompt + Sent - 1
  /\ deferred_err => plan.host = plan.prompt + Sent - 1
  /\ ~deferred_err => /\ caches = Absorbed(plan.prompt + Sent - 1)
                      /\ next_id = plan.prompt + Sent

\* What the GPU has left and the caller has read.
Answered == Going =>
  /\ plan.gpu = start \/ plan.gpu >= plan.prompt
  /\ plan.gpu >= At(plan.prompt, start, yielded)
  /\ bad => HasRun > 0 /\ plan.gpu <= At(plan.prompt, start, HasRun - 1)
  /\ \A j \in yielded..(HasRun - 1) :
       /\ plan.gpu > At(plan.prompt, start, j) =>
            result[At(plan.prompt, start, j)] = plan.prompt + j + 1
       /\ plan.gpu = At(plan.prompt, start, j) => result[At(plan.prompt, start, j)] = Error
  /\ items = [i \in 1..yielded |-> plan.prompt + i]

IInv == TypeOK /\ Quiet /\ Filling /\ Ahead /\ Pipelined /\ Committing /\ Answered
-----------------------------------------------------------------------------
\* The layers are numbered from 1, and one of them at least is full.
LEMMA KindsTyped ==
  /\ Len(Kinds) \in Nat \ {0} /\ Layers = 1..Len(Kinds)
  /\ FullLayers \in SUBSET Layers /\ FullLayers # {}
  /\ \A l \in Layers : l \notin FullLayers => Kinds[l] = "linear"
  /\ \A l \in FullLayers : Kinds[l] # "linear"
<1>1. PICK K : K = {"full", "linear"}
  OBVIOUS
<1>2. Kinds \in Seq(K) /\ \E l \in DOMAIN Kinds : Kinds[l] = "full"
  BY <1>1, GeneratorAssumption
<1>3. Len(Kinds) \in Nat /\ DOMAIN Kinds = 1..Len(Kinds)
  BY <1>2, ItemsTyped
<1>4. \A l \in DOMAIN Kinds : Kinds[l] \in K
  BY <1>2, <1>3
<1> QED
  BY <1>1, <1>2, <1>3, <1>4 DEF Layers, FullLayers

Cache == [rows : Seq(Nat), dirty : BOOLEAN]

\* Caches that exist are not the empty function.
LEMMA CachesExist ==
  ASSUME NEW c, DOMAIN c = Layers
  PROVE  c # <<>>
<1>1. 1 \in DOMAIN c
  BY KindsTyped
<1>2. DOMAIN <<>> = {}
  OBVIOUS
<1> QED
  BY <1>1, <1>2

\* A forward gets through some number of layers, at least none.
LEMMA ReachTyped ==
  ASSUME NEW n
  PROVE  /\ Reach(n) \subseteq 0..Len(Kinds) /\ 0 \in Reach(n)
         /\ Max(Reach(n)) \in Reach(n) /\ \A k \in Reach(n) : k <= Max(Reach(n))
<1>1. Reach(n) \subseteq 0..Len(Kinds) /\ 0 \in Reach(n)
  BY KindsTyped DEF Reach
<1>2. PICK S : S = Reach(n)
  OBVIOUS
<1>3. S \in SUBSET Nat /\ S # {} /\ \A x \in S : x <= Len(Kinds)
  BY <1>1, <1>2, KindsTyped
<1>4. Max(S) \in S /\ \A x \in S : x <= Max(S)
  BY <1>3, KindsTyped, MaxBounded
<1> QED
  BY <1>1, <1>2, <1>4

\* The caches after a forward, whole or torn: no row is lost, and no KvCache is overrun.
LEMMA GrownKeeps ==
  ASSUME caches \in [Layers -> Cache], \A l \in FullLayers : Len(caches[l].rows) <= Window,
         NEW ts \in Seq(Nat), NEW k \in Reach(Len(ts)), NEW torn \in BOOLEAN,
         NEW c, c = Grown(ts, k, torn)
  PROVE  /\ c \in [Layers -> Cache]
         /\ \A l \in FullLayers : Len(c[l].rows) <= Window
         /\ \A l \in Layers : Len(caches[l].rows) <= Len(c[l].rows)
<1>1. DOMAIN caches = Layers /\ k \in 0..Len(Kinds) /\ k \in Int
  BY ReachTyped
<1>2. ASSUME NEW l \in Layers
      PROVE  /\ c[l] \in Cache /\ Len(caches[l].rows) <= Len(c[l].rows)
             /\ l \in FullLayers => Len(c[l].rows) <= Window
  <2>1. PICK r \in Seq(Nat), d \in BOOLEAN : caches[l] = [rows |-> r, dirty |-> d]
    <3>1. caches[l] \in Cache
      OBVIOUS
    <3> QED
      BY <3>1 DEF Cache
  <2>2. /\ r \o ts \in Seq(Nat) /\ Len(r \o ts) = Len(r) + Len(ts)
        /\ Len(r) \in Nat /\ Len(ts) \in Nat
    OBVIOUS
  <2>3. l \in FullLayers => Len(r) <= Window
    BY <2>1
  <2>6. c[l] = IF l <= k THEN [rows |-> caches[l].rows \o ts, dirty |-> TRUE]
               ELSE IF l = k + 1 /\ torn THEN [caches[l] EXCEPT !.dirty = TRUE] ELSE caches[l]
    BY ONLY <1>1, c = Grown(ts, k, torn), l \in Layers, Zenon DEF Grown
  <2>7. caches[l].rows = r
    BY <2>1
  <2>8. /\ caches[l] \in Cache /\ [caches[l] EXCEPT !.dirty = TRUE] \in Cache
        /\ [caches[l] EXCEPT !.dirty = TRUE].rows = caches[l].rows
    BY DEF Cache
  <2>4. CASE l <= k
    <3>1. c[l] = [rows |-> r \o ts, dirty |-> TRUE]
      BY ONLY <2>6, <2>7, <2>4
    <3>2. l \in 1..k
      BY <1>1, <2>4, KindsTyped
    <3>3. Takes(l, Len(ts))
      BY <1>1, <3>2 DEF Reach
    <3>4. l \in FullLayers => Len(r) + Len(ts) <= Window
      BY <2>1, <3>3, KindsTyped DEF Takes
    <3> QED
      BY <2>1, <2>2, <3>1, <3>4 DEF Cache
  <2>5. CASE ~(l <= k)
    <3>1. c[l] \in Cache /\ c[l].rows = r
      BY ONLY <2>6, <2>7, <2>8, <2>5
    <3> QED
      BY <2>2, <2>3, <2>7, <3>1
  <2> QED
    BY <2>4, <2>5
<1>3. DOMAIN c = Layers /\ c = [l \in Layers |-> c[l]]
  BY <1>1 DEF Grown
<1> QED
  BY <1>2, <1>3, KindsTyped

\* The same of what a forward leaves.
LEMMA ForwardKeeps ==
  ASSUME caches \in [Layers -> Cache], \A l \in FullLayers : Len(caches[l].rows) <= Window,
         NEW ts \in Seq(Nat), NEW faulty \in BOOLEAN, NEW o \in Forward(ts, faulty)
  PROVE  /\ o.ok \in BOOLEAN /\ (faulty => ~o.ok) /\ o.caches \in [Layers -> Cache]
         /\ \A l \in FullLayers : Len(o.caches[l].rows) <= Window
         /\ \A l \in Layers : Len(caches[l].rows) <= Len(o.caches[l].rows)
<1>1. \E k \in Reach(Len(ts)), torn \in BOOLEAN :
        o.caches = Grown(ts, k, torn) /\ o.ok \in BOOLEAN /\ (faulty => ~o.ok)
  <2>1. CASE faulty
    <3>1. \E k \in Reach(Len(ts)), torn \in BOOLEAN :
            o = [ok |-> FALSE, caches |-> Grown(ts, k, torn)]
      BY <2>1, SMT DEF Forward
    <3>2. PICK k \in Reach(Len(ts)), torn \in BOOLEAN :
            o = [ok |-> FALSE, caches |-> Grown(ts, k, torn)]
      BY <3>1
    <3>3. o.caches = Grown(ts, k, torn) /\ o.ok = FALSE
      BY ONLY <3>2
    <3> QED
      BY <3>3
  <2>2. CASE ~faulty
    <3>1. PICK S : S = Forward(ts, faulty)
      OBVIOUS
    <3>2. S = {[ok |-> Max(Reach(Len(ts))) = Len(Kinds),
                caches |-> Grown(ts, Max(Reach(Len(ts))), FALSE)]}
      BY <2>2, <3>1, SMT DEF Forward
    <3>3. o = [ok |-> Max(Reach(Len(ts))) = Len(Kinds),
               caches |-> Grown(ts, Max(Reach(Len(ts))), FALSE)]
      BY <3>1, <3>2, Zenon
    <3>4. PICK c : c = Grown(ts, Max(Reach(Len(ts))), FALSE)
      OBVIOUS
    <3>5. PICK m : m = Max(Reach(Len(ts)))
      OBVIOUS
    <3>6. o = [ok |-> m = Len(Kinds), caches |-> c]
      BY <3>3, <3>4, <3>5, Zenon
    <3>7. o.caches = c /\ o.ok = (m = Len(Kinds))
      BY ONLY <3>6
    <3>8. o.ok \in BOOLEAN
      BY <3>7
    <3> QED
      BY <2>2, <3>4, <3>7, <3>8, ReachTyped, Zenon
  <2> QED
    BY <2>1, <2>2
<1>2. PICK k \in Reach(Len(ts)), torn \in BOOLEAN :
        o.caches = Grown(ts, k, torn) /\ o.ok \in BOOLEAN /\ (faulty => ~o.ok)
  BY <1>1
<1> QED
  BY <1>2, GrownKeeps

\* The first q tokens are a sequence of q.
LEMMA CountedTyped ==
  ASSUME NEW q \in Nat, NEW a, a = [r \in 1..q |-> r]
  PROVE  a \in Seq(Nat) /\ Len(a) = q /\ \A i \in 1..q : a[i] = i
  OBVIOUS

\* The first q tokens followed by the next n are the first q + n.
LEMMA CountedOn ==
  ASSUME NEW q \in Nat, NEW n \in Nat, NEW ts \in [1..n -> Nat], \A i \in 1..n : ts[i] = q + i
  PROVE  [r \in 1..q |-> r] \o ts = [r \in 1..(q + n) |-> r]
<1>0. PICK a : a = [r \in 1..q |-> r]
  OBVIOUS
<1>1. a \in Seq(Nat) /\ Len(a) = q /\ \A i \in 1..q : a[i] = i
  BY <1>0, CountedTyped
<1>2. PICK c : c = a \o ts
  OBVIOUS
<1>6. /\ a \o ts \in Seq(Nat) /\ Len(a \o ts) = Len(a) + n
      /\ \A i \in 1..Len(a) : (a \o ts)[i] = a[i]
      /\ \A i \in 1..(Len(a) + n) : i \notin 1..Len(a) =>
           i - Len(a) \in 1..n /\ (a \o ts)[i] = ts[i - Len(a)]
  <2>1. PICK T : T = Nat
    OBVIOUS
  <2>2. a \in Seq(T) /\ ts \in [1..n -> T]
    BY <1>1, <2>1
  <2>3. /\ a \o ts \in Seq(T) /\ Len(a \o ts) = Len(a) + n
        /\ \A i \in 1..Len(a) : (a \o ts)[i] = a[i]
        /\ \A i \in 1..(Len(a) + n) : i \notin 1..Len(a) =>
             i - Len(a) \in 1..n /\ (a \o ts)[i] = ts[i - Len(a)]
    BY <2>2, AppendedItems
  <2> QED
    BY <2>1, <2>3
<1>3. c \in Seq(Nat) /\ Len(c) = q + n
      /\ (\A i \in 1..q : c[i] = a[i])
      /\ \A i \in 1..(q + n) : i \notin 1..q => i - q \in 1..n /\ c[i] = ts[i - q]
  BY <1>1, <1>2, <1>6
<1>4. \A i \in 1..(q + n) : c[i] = i
  BY <1>1, <1>3
<1>5. c = [r \in 1..(q + n) |-> r]
  BY <1>3, <1>4
<1> QED
  BY <1>0, <1>2, <1>5

\* The caches of a call that is going well are caches, and hold q rows each.
LEMMA AbsorbedTyped ==
  ASSUME NEW q \in Nat
  PROVE  /\ Absorbed(q) \in [Layers -> Cache]
         /\ \A l \in Layers : /\ Absorbed(q)[l].rows = [r \in 1..q |-> r]
                              /\ Len(Absorbed(q)[l].rows) = q /\ Absorbed(q)[l].dirty = FALSE
<1>0. PICK a : a = [r \in 1..q |-> r]
  OBVIOUS
<1>1. a \in Seq(Nat) /\ Len(a) = q
  BY <1>0, CountedTyped
<1>2. Absorbed(q) = [l \in Layers |-> [rows |-> a, dirty |-> FALSE]]
  BY <1>0 DEF Absorbed
<1> QED
  BY <1>0, <1>1, <1>2 DEF Cache

\* A forward over the next tokens goes through every layer unless it is the one that
\* fails, and selects the token after them.
LEMMA ForwardWorks ==
  ASSUME NEW q \in Nat, caches = Absorbed(q), NEW n \in Nat, q + n <= Window,
         NEW ts \in [1..n -> Nat], \A i \in 1..n : ts[i] = q + i,
         NEW faulty \in BOOLEAN, ~faulty, NEW o \in Forward(ts, faulty)
  PROVE  /\ o.ok /\ Committed(o.caches) = Absorbed(q + n)
         /\ Argmax(o.caches) = q + n + 1
<1>1. ts \in Seq(Nat) /\ Len(ts) = n
  OBVIOUS
<1>2. Len(Kinds) \in Reach(n)
  <2>1. caches # <<>>
    BY AbsorbedTyped, CachesExist
  <2>2. Agree
    <3>1. \A l \in FullLayers : l \in Layers /\ Len(caches[l].rows) = q
      BY AbsorbedTyped, KindsTyped
    <3> QED
      BY <3>1 DEF Agree
  <2>3. \A l \in Layers : Takes(l, n)
    BY AbsorbedTyped DEF Takes
  <2> QED
    BY <2>1, <2>2, <2>3, KindsTyped DEF Reach
<1>3. Max(Reach(n)) = Len(Kinds)
  <2>1. PICK m : m = Max(Reach(n))
    OBVIOUS
  <2>2. m \in 0..Len(Kinds) /\ Len(Kinds) <= m
    BY <1>2, <2>1, ReachTyped
  <2> QED
    BY <2>1, <2>2, KindsTyped
<1>4. PICK c : c = Grown(ts, Len(Kinds), FALSE)
  OBVIOUS
<1>5. o.ok /\ o.caches = c
  <2>1. PICK S : S = Forward(ts, faulty)
    OBVIOUS
  <2>2. S = {[ok |-> Max(Reach(Len(ts))) = Len(Kinds),
              caches |-> Grown(ts, Max(Reach(Len(ts))), FALSE)]}
    BY <2>1, SMT DEF Forward
  <2>3. o = [ok |-> Len(Kinds) = Len(Kinds), caches |-> c]
    BY <1>1, <1>3, <1>4, <2>1, <2>2, Zenon
  <2> QED
    BY ONLY <2>3
<1>0. PICK full : full = [r \in 1..(q + n) |-> r]
  OBVIOUS
<1>6. full \in Seq(Nat) /\ Len(full) = q + n
  BY <1>0, CountedTyped
<1>7. DOMAIN c = Layers /\ \A l \in Layers : c[l] = [rows |-> full, dirty |-> TRUE]
  <2>1. DOMAIN caches = Layers
    BY AbsorbedTyped
  <2>2. DOMAIN c = Layers
    BY <1>4, <2>1 DEF Grown
  <2>3. ASSUME NEW l \in Layers
        PROVE  c[l] = [rows |-> full, dirty |-> TRUE]
    <3>1. l <= Len(Kinds)
      BY KindsTyped
    <3>2. c[l] = IF l <= Len(Kinds) THEN [rows |-> caches[l].rows \o ts, dirty |-> TRUE]
                 ELSE IF l = Len(Kinds) + 1 /\ FALSE
                 THEN [caches[l] EXCEPT !.dirty = TRUE] ELSE caches[l]
      BY ONLY <1>4, <2>1, l \in Layers, Zenon DEF Grown
    <3>3. caches[l].rows = [r \in 1..q |-> r]
      BY AbsorbedTyped
    <3>4. caches[l].rows \o ts = full
      <4>1. [r \in 1..q |-> r] \o ts = [r \in 1..(q + n) |-> r]
        BY CountedOn, Zenon
      <4> QED
        BY ONLY <1>0, <3>3, <4>1
    <3> QED
      BY ONLY <3>1, <3>2, <3>4
  <2> QED
    BY <2>2, <2>3
<1>8. Committed(c) = Absorbed(q + n)
  <2>1. \A l \in Layers : [c[l] EXCEPT !.dirty = FALSE] = [rows |-> full, dirty |-> FALSE]
    <3>1. ASSUME NEW l \in Layers
          PROVE  [c[l] EXCEPT !.dirty = FALSE] = [rows |-> full, dirty |-> FALSE]
      <4>0. PICK x : x = c[l]
        OBVIOUS
      <4>1. x \in Cache /\ x.rows = full
        <5>1. x = [rows |-> full, dirty |-> TRUE]
          BY <1>7, <4>0
        <5> QED
          BY ONLY <1>6, <5>1 DEF Cache
      <4>2. /\ [x EXCEPT !.dirty = FALSE] \in Cache /\ [x EXCEPT !.dirty = FALSE].rows = full
            /\ [x EXCEPT !.dirty = FALSE].dirty = FALSE
        BY <4>1 DEF Cache
      <4>3. PICK y : y = [x EXCEPT !.dirty = FALSE]
        OBVIOUS
      <4>4. y = [rows |-> full, dirty |-> FALSE]
        BY <4>2, <4>3 DEF Cache
      <4> QED
        BY <4>0, <4>3, <4>4
    <3> QED
      BY <3>1
  <2>2. Committed(c) = [l \in Layers |-> [rows |-> full, dirty |-> FALSE]]
    BY <1>7, <2>1 DEF Committed
  <2> QED
    BY <1>0, <2>2 DEF Absorbed
<1>9. Argmax(c) = q + n + 1
  <2>0. 1 \in Layers
    BY KindsTyped
  <2>1. Len(c[1].rows) = q + n
    BY <1>6, <1>7, <2>0
  <2>2. \A l \in Layers : c[l].rows = [r \in 1..(q + n) |-> r]
    BY <1>0, <1>7
  <2> QED
    BY <2>1, <2>2, Zenon DEF Argmax
<1> QED
  BY <1>5, <1>8, <1>9

-----------------------------------------------------------------------------
\* The multiples of c are c apart, and the next one after a multiple is c further.
LEMMA Multiples ==
  ASSUME NEW c \in Nat \ {0}, NEW a \in Nat, a % c = 0
  PROVE  /\ (a + c) % c = 0 /\ 0 % c = 0
         /\ \A b \in Nat : b % c = 0 /\ a < b => a + c <= b
<1>1. \A n \in Nat : n = c * (n \div c) + (n % c) /\ n \div c \in Nat
  OBVIOUS
<1>2. PICK p \in Nat : a = c * p
  BY <1>1
<1>3. a + c = c * (p + 1) /\ 0 = c * 0 /\ p + 1 \in Nat
  BY <1>2
<1>4. \A k \in Nat : (c * k) % c = 0
  OBVIOUS
<1>5. (a + c) % c = 0 /\ 0 % c = 0
  <2>1. (c * (p + 1)) % c = 0 /\ (c * 0) % c = 0
    BY <1>3, <1>4
  <2> QED
    BY <1>3, <2>1, Zenon
<1>6. ASSUME NEW b \in Nat, b % c = 0, a < b
      PROVE  a + c <= b
  <2>0. b = c * (b \div c) + (b % c) /\ b \div c \in Nat
    OBVIOUS
  <2>1. PICK q \in Nat : b = c * q
    BY <1>6, <2>0
  <2>2. p < q
    <3>1. ASSUME q <= p PROVE c * q <= c * p
      BY <3>1
    <3> QED
      BY <1>2, <1>6, <2>1, <3>1
  <2>3. c * p + c <= c * q
    BY <2>2
  <2> QED
    BY <1>2, <2>1, <2>3
<1> QED
  BY <1>5, <1>6

\* The fields of a plan.
LEMMA PlanTyped ==
  ASSUME NEW p \in Plans
  PROVE  /\ p.prompt \in Nat \ {0} /\ p.new \in Nat /\ p.oom \in BOOLEAN
         /\ p.eos \in Nat /\ p.host \in Nat /\ p.gpu \in Nat
         /\ p.host \in Starts(p.prompt, p.new) \cup {Window}
         /\ p.gpu \in Starts(p.prompt, p.new) \cup {Window}
         /\ p # NoCall
<1>1. PICK pr \in Prompts, n \in News \cup {0} :
        p \in {[prompt |-> pr, new |-> n, host |-> h, gpu |-> g, eos |-> e, oom |-> o] :
                 h, g \in Starts(pr, n) \cup {Window}, e \in {0} \cup (pr + 1)..(pr + n),
                 o \in BOOLEAN}
  BY DEF Plans
<1>2. pr \in Nat \ {0} /\ n \in Nat
  BY GeneratorAssumption
<1>3. \A s \in Starts(pr, n) \cup {Window} : s \in Nat
  BY <1>2, GeneratorAssumption DEF Starts
<1>4. PICK h \in Starts(pr, n) \cup {Window}, g \in Starts(pr, n) \cup {Window},
           e \in {0} \cup (pr + 1)..(pr + n), o \in BOOLEAN :
        p = [prompt |-> pr, new |-> n, host |-> h, gpu |-> g, eos |-> e, oom |-> o]
  BY <1>1
<1>5. /\ p.prompt = pr /\ p.new = n /\ p.host = h /\ p.gpu = g /\ p.eos = e /\ p.oom = o
  BY <1>4
<1>6. e \in Nat
  BY <1>2
<1>7. NoCall.prompt = 0
  BY DEF NoCall
<1>8. p # NoCall
  BY <1>2, <1>5, <1>7
<1> QED
  BY <1>2, <1>3, <1>5, <1>6, <1>8

\* A chunk that succeeds leaves the plan's failures ahead of the next one.
LEMMA NextChunk ==
  ASSUME NEW p \in Plans, Admits(p), NEW s, AtChunk(p, s), Chunk > 0, p.prompt - s > Chunk,
         p.host # s, p.gpu # s
  PROVE  AtChunk(p, s + Chunk)
<1>1. /\ p.prompt \in Nat \ {0} /\ p.new \in Nat /\ p.host \in Nat /\ p.gpu \in Nat
      /\ Chunk \in Nat \ {0} /\ s \in Nat /\ Window \in Nat
  BY PlanTyped, GeneratorAssumption DEF AtChunk
<1>2. s % Chunk = 0
  BY <1>1 DEF AtChunk, Starts
<1>3. /\ (s + Chunk) % Chunk = 0
      /\ \A b \in Nat : b % Chunk = 0 /\ s < b => s + Chunk <= b
  BY <1>1, <1>2, Multiples
<1>4. \A h \in Starts(p.prompt, p.new) \cup {Window} : h > s => h >= s + Chunk
  <2>1. ASSUME NEW h \in Starts(p.prompt, p.new), h > s
        PROVE  h >= s + Chunk
    BY <1>1, <1>3, <2>1 DEF Starts
  <2>2. Window >= s + Chunk
    BY <1>1 DEF Admits
  <2> QED
    BY <2>1, <2>2
<1>5. p.host > s /\ p.gpu > s
  BY <1>1 DEF AtChunk
<1>6. p.host >= s + Chunk /\ p.gpu >= s + Chunk
  BY <1>4, <1>5, PlanTyped
<1>7. s + Chunk \in 0..(p.prompt - 1)
  BY <1>1
<1> QED
  BY <1>1, <1>3, <1>6, <1>7 DEF AtChunk, Starts

\* At the last chunk, what fails is that chunk's forward or a decode step's.
LEMMA LastChunk ==
  ASSUME NEW p \in Plans, Admits(p), NEW s, AtChunk(p, s),
         ~(Chunk > 0 /\ p.prompt - s > Chunk)
  PROVE  /\ p.host = s \/ p.host >= p.prompt
         /\ p.gpu = s \/ p.gpu >= p.prompt
<1>1. /\ p.prompt \in Nat \ {0} /\ p.new \in Nat /\ p.host \in Nat /\ p.gpu \in Nat
      /\ Chunk \in Nat /\ s \in Nat /\ Window \in Nat
  BY PlanTyped, GeneratorAssumption DEF AtChunk
<1>2. ASSUME NEW h \in Starts(p.prompt, p.new) \cup {Window}, h >= s
      PROVE  h = s \/ h >= p.prompt
  <2>1. CASE h = Window
    BY <1>1, <2>1 DEF Admits
  <2>2. CASE h \in Starts(p.prompt, p.new) /\ Chunk = 0
    BY <1>1, <1>2, <2>2 DEF Starts, AtChunk
  <2>3. CASE h \in Starts(p.prompt, p.new) /\ Chunk # 0
    <3>1. s % Chunk = 0 /\ h \in Nat
      BY <1>1, <2>3 DEF AtChunk, Starts
    <3>2. \A b \in Nat : b % Chunk = 0 /\ s < b => s + Chunk <= b
      BY <1>1, <2>3, <3>1, Multiples
    <3>3. h % Chunk = 0 \/ h >= p.prompt
      BY <1>1, <2>3 DEF Starts
    <3> QED
      BY <1>1, <1>2, <2>3, <3>1, <3>2, <3>3
  <2> QED
    BY <1>2, <2>1, <2>2, <2>3
<1>3. p.host >= s /\ p.gpu >= s
  BY DEF AtChunk
<1> QED
  BY <1>2, <1>3, PlanTyped

\* A call starts at its first chunk.
LEMMA FirstChunk ==
  ASSUME NEW p \in Plans
  PROVE  AtChunk(p, 0)
<1>1. /\ p.prompt \in Nat \ {0} /\ p.new \in Nat /\ p.host \in Nat /\ p.gpu \in Nat
      /\ Chunk \in Nat
  BY PlanTyped, GeneratorAssumption
<1>2. Chunk # 0 => 0 % Chunk = 0
  BY <1>1
<1> QED
  BY <1>1, <1>2 DEF AtChunk, Starts

-----------------------------------------------------------------------------
\* Outside the iterator only types, quiet and the prefill are left to show.
LEMMA OutsideStep ==
  ASSUME TypeOK', Quiet', Filling', phase' \in {"none", "prefill", "refused"}
  PROVE  IInv'
<1>1. inflight' = <<>> /\ front' = <<>> /\ yielded' = 0
  BY DEF Quiet, Outside
<1>2. plan'.new \in Nat
  <2>1. plan' = NoCall \/ plan' \in Plans
    BY DEF TypeOK
  <2>2. NoCall.new = 0
    BY DEF NoCall
  <2> QED
    BY <2>1, <2>2, PlanTyped
<1>3. Len(inflight') = 0 /\ Len(front') = 0
  BY <1>1
<1>4. Sent' = 0
  BY <1>1, <1>3 DEF Sent
<1>5. Ahead'
  BY <1>2, <1>4 DEF Ahead
<1>6. ~Going'
  BY DEF Going
<1>7. Pipelined' /\ Committing' /\ Answered'
  BY <1>6 DEF Pipelined, Committing, Answered
<1> QED
  BY <1>5, <1>7 DEF IInv

\* What is known outside the iterator.
LEMMA OutsideFacts ==
  ASSUME IInv, Outside
  PROVE  /\ inflight = <<>> /\ front = <<>> /\ gpu = <<>>
         /\ yielded = 0 /\ ~done /\ ~deferred_err
         /\ phase = "none" => plan = NoCall /\ items = <<>>
         /\ phase = "prefill" => items = <<>>
         /\ phase # "none" => plan \in Plans /\ Admits(plan)
  BY DEF IInv, Quiet

\* Fresh caches are caches.
LEMMA FreshTyped ==
  /\ Fresh = Absorbed(0) /\ Fresh \in [Layers -> Cache]
  /\ \A l \in FullLayers : Len(Fresh[l].rows) <= Window
<1>1. [r \in 1..0 |-> r] = <<>>
  OBVIOUS
<1>2. Fresh = Absorbed(0)
  BY <1>1 DEF Fresh, Absorbed
<1>3. /\ Absorbed(0) \in [Layers -> Cache]
      /\ \A l \in Layers : Len(Absorbed(0)[l].rows) = 0
  BY AbsorbedTyped
<1>4. \A l \in FullLayers : l \in Layers
  BY KindsTyped
<1>5. 0 <= Window
  BY GeneratorAssumption
<1>6. \A l \in FullLayers : Len(Absorbed(0)[l].rows) = 0
  BY <1>3, <1>4, Zenon
<1> QED
  BY <1>2, <1>3, <1>5, <1>6

\* A reset empties every cache, or leaves none.
LEMMA ResetTyped ==
  ASSUME NEW oom, NEW c \in Reset(oom)
  PROVE  /\ c = Absorbed(0) \/ (c = <<>> /\ oom)
         /\ \/ c = <<>>
            \/ c \in [Layers -> Cache] /\ \A l \in FullLayers : Len(c[l].rows) <= Window
<1>1. c = Fresh \/ (c = <<>> /\ oom)
  BY DEF Reset
<1> QED
  BY <1>1, FreshTyped

\* The invariant holds at the start.
LEMMA InitIInv == Init => IInv
<1> SUFFICES ASSUME Init PROVE IInv
  OBVIOUS
<1>1. caches \in [Layers -> Cache] /\ \A l \in FullLayers : Len(caches[l].rows) <= Window
  BY FreshTyped DEF Init
<1>2. [s \in 0..Window |-> 0] \in [0..Window -> 0..Window]
  BY GeneratorAssumption
<1>3. <<>> \in Seq(Batches) /\ <<>> \in Seq(0..Window)
  OBVIOUS
<1>0. 0 \in 0..Window /\ 0 \in 0..MaxCalls /\ 1 \in Depths
  BY GeneratorAssumption
<1>4. TypeOK
  BY <1>0, <1>1, <1>2, <1>3, Zenon DEF Init, TypeOK, Cache
<1>5. Len(gpu) = 0 /\ Len(inflight) = 0 /\ Len(front) = 0
  BY DEF Init
<1>6. Quiet
  BY <1>5 DEF Init, Quiet, Outside
<1>7. Filling /\ Pipelined /\ Committing /\ Answered
  BY DEF Init, Filling, Pipelined, Committing, Answered, Going
<1>8. Sent = 0 /\ plan.new = 0
  BY <1>5 DEF Init, Sent, NoCall
<1>9. Ahead
  BY <1>8 DEF Init, Ahead
<1> QED
  BY <1>4, <1>6, <1>7, <1>9 DEF IInv

-----------------------------------------------------------------------------
\* set_inflight_depth.
LEMMA SetDepthStep ==
  ASSUME IInv, NEW d \in Depths, SetDepth(d)
  PROVE  IInv'
<1>1. phase = "none" /\ Outside
  BY DEF SetDepth, Outside
<1>2. TypeOK'
  BY DEF IInv, TypeOK, SetDepth, iter
<1>3. Quiet'
  BY DEF IInv, Quiet, Outside, SetDepth, iter
<1>4. Filling' /\ phase' = "none"
  BY <1>1 DEF SetDepth, Filling
<1> QED
  BY <1>2, <1>3, <1>4, OutsideStep

\* reset, called by the client.
LEMMA ClientResetStep ==
  ASSUME IInv, NEW oom \in BOOLEAN, ClientReset(oom)
  PROVE  IInv'
<1>1. phase = "none" /\ Outside
  BY DEF ClientReset, Outside
<1>2. TypeOK'
  <2>1. \/ caches' = <<>>
        \/ caches' \in [Layers -> Cache] /\ \A l \in FullLayers : Len(caches'[l].rows) <= Window
    BY ResetTyped DEF ClientReset
  <2> QED
    BY <2>1, Zenon DEF IInv, TypeOK, ClientReset, iter, Cache
<1>3. Quiet'
  BY DEF IInv, Quiet, Outside, ClientReset, iter
<1>4. Filling' /\ phase' = "none"
  BY <1>1 DEF ClientReset, Filling
<1> QED
  BY <1>2, <1>3, <1>4, OutsideStep

\* The caches after an evaluation keep their rows.
LEMMA CommittedKeeps ==
  ASSUME NEW c \in [Layers -> Cache]
  PROVE  /\ Committed(c) \in [Layers -> Cache]
         /\ \A l \in Layers : Committed(c)[l].rows = c[l].rows
<1>1. ASSUME NEW l \in Layers
      PROVE  /\ [c[l] EXCEPT !.dirty = FALSE] \in Cache
             /\ [c[l] EXCEPT !.dirty = FALSE].rows = c[l].rows
  <2>1. c[l] \in Cache
    OBVIOUS
  <2> QED
    BY <2>1 DEF Cache
<1>2. Committed(c) = [l \in Layers |-> [c[l] EXCEPT !.dirty = FALSE]]
  BY DEF Committed
<1> QED
  BY <1>1, <1>2

\* profiled_decode_step.
LEMMA ProfiledDecodeStepStep ==
  ASSUME IInv, ProfiledDecodeStep
  PROVE  IInv'
<1>1. phase = "none" /\ Outside
  BY DEF ProfiledDecodeStep, Outside
<1>2. caches' \in [Layers -> Cache] /\ \A l \in FullLayers : Len(caches'[l].rows) <= Window
  <2>1. caches \in [Layers -> Cache] /\ \A l \in FullLayers : Len(caches[l].rows) <= Window
    BY DEF IInv, TypeOK, ProfiledDecodeStep, Cache
  <2>5. PICK f \in BOOLEAN : \E o \in Forward(<<Garbage>>, f) :
          caches' \in IF o.ok THEN {o.caches, Committed(o.caches)} ELSE {o.caches}
    BY DEF ProfiledDecodeStep
  <2>2. PICK o \in Forward(<<Garbage>>, f) :
          caches' = o.caches \/ caches' = Committed(o.caches)
    BY <2>5
  <2>3. <<Garbage>> \in Seq(Nat)
    BY DEF Garbage
  <2>4. /\ o.caches \in [Layers -> Cache]
        /\ \A l \in FullLayers : Len(o.caches[l].rows) <= Window
    BY <2>1, <2>3, ForwardKeeps
  <2> QED
    BY <2>2, <2>4, CommittedKeeps, KindsTyped
<1>3. TypeOK'
  BY <1>2, Zenon DEF IInv, TypeOK, ProfiledDecodeStep, iter, Cache
<1>4. Quiet'
  BY DEF IInv, Quiet, Outside, ProfiledDecodeStep, iter
<1>5. Filling' /\ phase' = "none"
  BY <1>1 DEF ProfiledDecodeStep, Filling
<1> QED
  BY <1>3, <1>4, <1>5, OutsideStep

\* What a call's end leaves.
LEMMA OverStep ==
  ASSUME IInv, Over, gpu' = <<>>, UNCHANGED <<inflight_depth, bad, calls>>,
         \/ caches' = <<>>
         \/ caches' \in [Layers -> Cache] /\ \A l \in FullLayers : Len(caches'[l].rows) <= Window
  PROVE  IInv'
<1>1. [s \in 0..Window |-> 0] \in [0..Window -> 0..Window] /\ 0 \in 0..Window
  BY GeneratorAssumption
<1>2. <<>> \in Seq(Batches) /\ <<>> \in Seq(0..Window)
  OBVIOUS
<1>3. TypeOK'
  BY <1>1, <1>2, Zenon DEF IInv, TypeOK, Over, NoIterator, Cache
<1>4. Len(gpu') = 0
  OBVIOUS
<1>5. Quiet'
  BY <1>4 DEF Quiet, Outside, Over, NoIterator
<1>6. Filling' /\ phase' = "none"
  BY DEF Over, Filling
<1> QED
  BY <1>3, <1>5, <1>6, OutsideStep

\* The caller gets the error of a call that was refused.
LEMMA RefusedStep ==
  ASSUME IInv, Refused
  PROVE  IInv'
<1>1. gpu' = <<>>
  BY OutsideFacts DEF Refused, Outside
<1>2. \/ caches' = <<>>
      \/ caches' \in [Layers -> Cache] /\ \A l \in FullLayers : Len(caches'[l].rows) <= Window
  BY DEF IInv, TypeOK, Refused, Cache
<1> QED
  BY <1>1, <1>2, OverStep DEF Refused

\* An iterator that is dropped has waited for what it had in flight.
LEMMA DroppedStep ==
  ASSUME IInv, Dropped
  PROVE  IInv' /\ gpu = <<>>
<1>1. front = <<>>
  BY DEF IInv, Quiet, Dropped
<1>2. gpu \in Seq(Batches) /\ inflight \in Seq(Batches)
  BY DEF IInv, TypeOK
<1>3. PICK T : T = Batches
  OBVIOUS
<1>4. gpu \in Seq(T) /\ inflight \in Seq(T)
  BY <1>2, <1>3
<1>5. gpu = <<>>
  <2>1. DOMAIN gpu = 1..Len(gpu) /\ Len(gpu) \in Nat /\ DOMAIN inflight = 1..Len(inflight)
    BY <1>4
  <2>2. ASSUME NEW i \in 1..Len(gpu)
        PROVE  FALSE
    <3>1. gpu[i] \in ToSet(inflight) \/ gpu[i] \in ToSet(front)
      BY DEF IInv, Quiet
    <3>2. gpu[i] \notin ToSet(front)
      BY <1>1 DEF ToSet
    <3>3. PICK j \in DOMAIN inflight : gpu[i] = inflight[j]
      BY <3>1, <3>2 DEF ToSet
    <3>4. \A k \in DOMAIN gpu : gpu[k] # inflight[j]
      BY <3>3 DEF Dropped, Ran
    <3> QED
      BY <2>1, <3>3, <3>4
  <2>3. Len(gpu) = 0
    BY <2>1, <2>2
  <2> QED
    BY <1>4, <2>3
<1>6. gpu' = <<>> /\ UNCHANGED <<inflight_depth, bad, calls>> /\ Over
  BY <1>5 DEF Dropped
<1>7. \/ caches' = <<>>
      \/ caches' \in [Layers -> Cache] /\ \A l \in FullLayers : Len(caches'[l].rows) <= Window
  BY DEF IInv, TypeOK, Dropped, Cache
<1> QED
  BY <1>5, <1>6, <1>7, OverStep

\* The call starts.
LEMMA BeginStep ==
  ASSUME IInv, NEW p \in Plans, Begin(p)
  PROVE  IInv'
<1>1. /\ phase = "none" /\ plan' = p /\ start' = 0 /\ Admits(p)
      /\ calls' = calls + 1 /\ calls < MaxCalls /\ bad' = FALSE
      /\ UNCHANGED <<inflight_depth, iter, gpu, result>>
  BY DEF Begin
<1>2. /\ caches' = Absorbed(0) \/ caches' = <<>>
      /\ \/ caches' = <<>>
         \/ caches' \in [Layers -> Cache] /\ \A l \in FullLayers : Len(caches'[l].rows) <= Window
  BY ResetTyped DEF Begin
<1>3. \/ phase' = "refused" /\ items' = <<Error>>
      \/ phase' = "prefill" /\ items' = <<>> /\ caches' # <<>>
  BY DEF Begin
<1>4. calls' \in 0..MaxCalls
  BY <1>1, GeneratorAssumption DEF IInv, TypeOK
<1>5. 0 \in 0..Window /\ <<>> \in Seq(0..Window) /\ <<Error>> \in Seq(0..Window)
  BY GeneratorAssumption DEF Error
<1>6. items' \in Seq(0..Window)
  BY <1>3, <1>5
<1>7. TypeOK'
  BY <1>1, <1>2, <1>3, <1>4, <1>5, <1>6, Zenon DEF IInv, TypeOK, iter, Cache
<1>8. p # NoCall
  BY PlanTyped
<1>9. Quiet'
  BY <1>1, <1>3, <1>8 DEF IInv, Quiet, Outside, iter
<1>10. Filling'
  BY <1>1, <1>2, <1>3, FirstChunk DEF Filling
<1> QED
  BY <1>3, <1>7, <1>9, <1>10, OutsideStep

\* The tokens of a chunk come next.
LEMMA PromptTyped ==
  ASSUME NEW s \in Nat, NEW n \in Nat
  PROVE  /\ Prompt(s, n) \in [1..n -> Nat] /\ Prompt(s, n) \in Seq(Nat)
         /\ \A i \in 1..n : Prompt(s, n)[i] = s + i
  BY DEF Prompt

\* A prefill that fails refuses the call.
LEMMA RefuseStep ==
  ASSUME IInv, phase = "prefill", Refuse,
         UNCHANGED <<inflight_depth, plan, start, iter, gpu, result, bad, calls>>,
         caches' \in [Layers -> Cache] /\ \A l \in FullLayers : Len(caches'[l].rows) <= Window
  PROVE  IInv'
<1>1. items' = <<Error>> /\ phase' = "refused"
  BY DEF Refuse
<1>2. <<Error>> \in Seq(0..Window)
  BY GeneratorAssumption DEF Error
<1>3. TypeOK'
  BY <1>1, <1>2, Zenon DEF IInv, TypeOK, iter, Cache
<1>4. Quiet'
  BY <1>1 DEF IInv, Quiet, Outside, iter
<1>5. Filling'
  BY <1>1 DEF Filling
<1> QED
  BY <1>1, <1>3, <1>4, <1>5, OutsideStep

\* What is known of a prefill.
LEMMA PrefillFacts ==
  ASSUME IInv, phase = "prefill"
  PROVE  /\ plan \in Plans /\ Admits(plan) /\ AtChunk(plan, start)
         /\ start \in Nat /\ plan.prompt \in Nat /\ start < plan.prompt /\ plan.prompt <= Window
         /\ caches = Absorbed(start) /\ caches \in [Layers -> Cache]
         /\ \A l \in FullLayers : Len(caches[l].rows) <= Window
         /\ inflight = <<>> /\ front = <<>> /\ gpu = <<>> /\ items = <<>>
         /\ yielded = 0 /\ ~done /\ ~deferred_err /\ ~bad
<1>1. /\ plan \in Plans /\ Admits(plan) /\ AtChunk(plan, start) /\ caches = Absorbed(start)
      /\ ~bad
  BY OutsideFacts DEF IInv, Filling, Outside
<1>2. plan.prompt \in Nat /\ plan.new \in Nat
  BY <1>1, PlanTyped
<1>3. start \in Nat /\ start < plan.prompt /\ plan.prompt <= Window
  BY <1>1, <1>2, GeneratorAssumption DEF AtChunk, Admits
<1>4. caches \in [Layers -> Cache] /\ \A l \in FullLayers : Len(caches[l].rows) <= Window
  <2>1. caches \in [Layers -> Cache]
    BY <1>1, <1>3, AbsorbedTyped
  <2>2. caches # <<>>
    BY <2>1, CachesExist
  <2> QED
    BY <2>1, <2>2 DEF IInv, TypeOK
<1> QED
  BY <1>1, <1>2, <1>3, <1>4, OutsideFacts DEF Outside

\* A forward of the prefill: what it leaves, and that only its own failure stops it.
LEMMA PrefillForward ==
  ASSUME IInv, phase = "prefill", NEW n \in Nat, start + n <= Window,
         NEW o \in Forward(Prompt(start, n), plan.host = start)
  PROVE  /\ o.ok \in BOOLEAN /\ o.ok = (plan.host # start)
         /\ o.caches \in [Layers -> Cache]
         /\ \A l \in FullLayers : Len(o.caches[l].rows) <= Window
         /\ \A l \in Layers : Len(caches[l].rows) <= Len(o.caches[l].rows)
         /\ o.ok => /\ Committed(o.caches) = Absorbed(start + n)
                    /\ Argmax(o.caches) = start + n + 1
<1>1. /\ start \in Nat /\ caches = Absorbed(start) /\ caches \in [Layers -> Cache]
      /\ \A l \in FullLayers : Len(caches[l].rows) <= Window
  BY PrefillFacts
<1>2. PICK f \in BOOLEAN : f = (plan.host = start)
  OBVIOUS
<1>3. PICK ts : ts = Prompt(start, n)
  OBVIOUS
<1>4. ts \in [1..n -> Nat] /\ ts \in Seq(Nat) /\ \A i \in 1..n : ts[i] = start + i
  BY <1>1, <1>3, PromptTyped
<1>5. o \in Forward(ts, f)
  BY <1>2, <1>3
<1>6. /\ o.ok \in BOOLEAN /\ (f => ~o.ok) /\ o.caches \in [Layers -> Cache]
      /\ \A l \in FullLayers : Len(o.caches[l].rows) <= Window
      /\ \A l \in Layers : Len(caches[l].rows) <= Len(o.caches[l].rows)
  BY <1>1, <1>4, <1>5, ForwardKeeps
<1>7. ~f => /\ o.ok /\ Committed(o.caches) = Absorbed(start + n)
            /\ Argmax(o.caches) = start + n + 1
  BY <1>1, <1>4, <1>5, ForwardWorks
<1> QED
  BY <1>2, <1>6, <1>7

\* A chunk of the prefill.
LEMMA FillChunkStep ==
  ASSUME IInv, FillChunk
  PROVE  IInv'
<1>1. phase = "prefill" /\ MoreChunks
  BY DEF FillChunk
<1>2. Chunk \in Nat \ {0} /\ plan.prompt - start > Chunk /\ start + Chunk <= Window
  BY <1>1, PrefillFacts, GeneratorAssumption DEF MoreChunks
<1>3. PICK o \in Forward(Prompt(start, Chunk), plan.host = start) :
        IF o.ok /\ plan.gpu # start
        THEN /\ caches' = Committed(o.caches)
             /\ start' = start + Chunk
             /\ UNCHANGED <<phase, items>>
        ELSE caches' = o.caches /\ Refuse /\ UNCHANGED start
  BY DEF FillChunk
<1>4. UNCHANGED <<inflight_depth, plan, iter, gpu, result, bad, calls>>
  BY DEF FillChunk
<1>5. /\ o.ok \in BOOLEAN /\ o.ok = (plan.host # start)
      /\ o.caches \in [Layers -> Cache]
      /\ \A l \in FullLayers : Len(o.caches[l].rows) <= Window
      /\ o.ok => Committed(o.caches) = Absorbed(start + Chunk)
  BY <1>1, <1>2, PrefillForward
<1>6. CASE ~(o.ok /\ plan.gpu # start)
  <2>1. caches' = o.caches /\ Refuse /\ UNCHANGED start
    BY <1>3, <1>6
  <2> QED
    BY <1>1, <1>4, <1>5, <2>1, RefuseStep
<1>7. CASE o.ok /\ plan.gpu # start
  <2>1. /\ caches' = Absorbed(start + Chunk) /\ start' = start + Chunk
        /\ phase' = "prefill" /\ items' = items
    BY <1>1, <1>3, <1>5, <1>7
  <2>2. /\ caches' \in [Layers -> Cache] /\ \A l \in FullLayers : Len(caches'[l].rows) <= Window
    <3>1. caches' = Committed(o.caches)
      BY <1>3, <1>7
    <3> QED
      BY <1>5, <3>1, CommittedKeeps, KindsTyped
  <2>3. start' \in 0..Window
    BY <1>1, <1>2, <2>1, PrefillFacts
  <2>4. TypeOK'
    BY <1>1, <1>4, <2>1, <2>2, <2>3, Zenon DEF IInv, TypeOK, iter, Cache
  <2>5. Quiet'
    BY <1>1, <1>4, <2>1 DEF IInv, Quiet, Outside, iter
  <2>6. AtChunk(plan, start + Chunk)
    <3>1. plan.host # start /\ plan.gpu # start
      BY ONLY <1>5, <1>7
    <3>2. Chunk > 0 /\ plan.prompt - start > Chunk
      BY <1>2
    <3>3. plan \in Plans /\ Admits(plan) /\ AtChunk(plan, start)
      BY <1>1, PrefillFacts
    <3> QED
      BY <3>1, <3>2, <3>3, NextChunk
  <2>7. Filling'
    BY <1>1, <1>4, <2>1, <2>6, PrefillFacts DEF Filling
  <2> QED
    BY <2>1, <2>4, <2>5, <2>7, OutsideStep
<1> QED
  BY <1>6, <1>7

\* The last chunk of a synchronous prefill.
LEMMA PrefillSyncStep ==
  ASSUME IInv, PrefillSync
  PROVE  IInv'
<1>1. phase = "prefill"
  BY DEF PrefillSync
<1>2. PICK n : n = plan.prompt - start
  OBVIOUS
<1>3. n \in Nat /\ start + n <= Window
  BY <1>1, <1>2, PrefillFacts, GeneratorAssumption
<1>4. PICK o \in Forward(Prompt(start, n), plan.host = start) :
        IF o.ok /\ plan.gpu # start
        THEN caches' = Committed(o.caches) /\ Over
        ELSE caches' = o.caches /\ Refuse /\ UNCHANGED <<plan, start, iter, result>>
  BY <1>2 DEF PrefillSync
<1>5. UNCHANGED <<inflight_depth, gpu, bad, calls>>
  BY DEF PrefillSync
<1>6. /\ o.caches \in [Layers -> Cache]
      /\ \A l \in FullLayers : Len(o.caches[l].rows) <= Window
  BY <1>1, <1>3, PrefillForward
<1>7. CASE ~(o.ok /\ plan.gpu # start)
  <2>1. caches' = o.caches /\ Refuse /\ UNCHANGED <<plan, start, iter, result>>
    BY <1>4, <1>7
  <2> QED
    BY <1>1, <1>5, <1>6, <2>1, RefuseStep
<1>8. CASE o.ok /\ plan.gpu # start
  <2>1. caches' = Committed(o.caches) /\ Over
    BY <1>4, <1>8
  <2>2. caches' \in [Layers -> Cache] /\ \A l \in FullLayers : Len(caches'[l].rows) <= Window
    BY <1>6, <2>1, CommittedKeeps, KindsTyped
  <2>3. gpu' = <<>>
    BY <1>1, <1>5, PrefillFacts
  <2> QED
    BY <1>5, <2>1, <2>2, <2>3, OverStep
<1> QED
  BY <1>7, <1>8

-----------------------------------------------------------------------------
\* A committed batch has a position and an id in range.
LEMMA BatchTyped ==
  ASSUME NEW p \in Nat, NEW s \in 0..(p - 1), NEW j \in Nat, p + j + 1 <= Window
  PROVE  Batch(p, s, j) \in Batches /\ At(p, s, j) \in 0..Window
<1>1. At(p, s, j) \in 0..Window /\ p + j + 1 \in 0..Window
  BY GeneratorAssumption DEF At
<1> QED
  BY <1>1 DEF Batch, Batches

\* The last chunk of generate, when it succeeds.
LEMMA FirstTokenWorks ==
  ASSUME IInv, phase = "prefill", ~MoreChunks, plan.new # 0, plan.host # start,
         caches' = Absorbed(plan.prompt),
         inflight' = Append(inflight, Batch(plan.prompt, start, 0)),
         gpu' = Append(gpu, Batch(plan.prompt, start, 0)),
         next_id' = plan.prompt + 1, depth' = inflight_depth, phase' = "idle",
         UNCHANGED <<inflight_depth, plan, start, yielded, done, deferred_err, front, result,
                     bad, items, calls>>
  PROVE  IInv'
<1>1. /\ plan \in Plans /\ Admits(plan) /\ AtChunk(plan, start)
      /\ start \in Nat /\ plan.prompt \in Nat /\ start < plan.prompt
      /\ inflight = <<>> /\ front = <<>> /\ gpu = <<>> /\ items = <<>>
      /\ yielded = 0 /\ ~done /\ ~deferred_err /\ ~bad
  BY PrefillFacts
<1>2. /\ plan.new \in Nat \ {0} /\ plan.host \in Nat /\ plan.gpu \in Nat /\ Window \in Nat
      /\ plan.prompt + plan.new <= Window /\ plan # NoCall
  BY <1>1, PlanTyped, GeneratorAssumption DEF Admits
<1>3. PICK b : b = Batch(plan.prompt, start, 0)
  OBVIOUS
<1>4. b \in Batches
  BY <1>1, <1>2, <1>3, BatchTyped
<1>5. /\ inflight' = <<b>> /\ gpu' = <<b>>
  BY <1>1, <1>3
<1>6. /\ Len(inflight') = 1 /\ Len(gpu') = 1 /\ inflight'[1] = b /\ gpu'[1] = b
      /\ inflight' \in Seq(Batches) /\ gpu' \in Seq(Batches) /\ Len(front') = 0
  BY <1>1, <1>4, <1>5
<1>7. Sent' = 1 /\ HasRun' = 0
  BY <1>1, <1>6 DEF Sent, HasRun
<1>8. /\ caches' \in [Layers -> Cache] /\ \A l \in FullLayers : Len(caches'[l].rows) <= Window
  <2>1. /\ caches' \in [Layers -> Cache] /\ \A l \in Layers : Len(caches'[l].rows) = plan.prompt
    BY <1>1, AbsorbedTyped
  <2>2. \A l \in FullLayers : l \in Layers
    BY KindsTyped
  <2> QED
    BY <1>1, <1>2, <2>1, <2>2
<1>9. inflight_depth \in Depths /\ 1 <= Saturating(inflight_depth)
  BY GeneratorAssumption DEF IInv, TypeOK, Saturating
<1>10. next_id' \in 0..Window
  BY <1>1, <1>2
<1>11. TypeOK'
  BY <1>6, <1>8, <1>9, <1>10, Zenon DEF IInv, TypeOK, Cache
<1>12. Quiet'
  <2>1. inflight'[1] \in ToSet(inflight')
    BY <1>6 DEF ToSet
  <2>2. \A i \in 1..Len(gpu') : gpu'[i] \in ToSet(inflight')
    BY <1>6, <2>1
  <2> QED
    BY <1>1, <1>2, <2>2 DEF Quiet, Outside
<1>13. Filling'
  BY DEF Filling
<1>14. Ahead'
  BY <1>1, <1>2, <1>6, <1>7, <1>9 DEF Ahead
<1>15. Pipelined'
  <2>1. \A i \in 1..Len(inflight') :
          inflight'[i] = Batch(plan'.prompt, start', yielded' + Len(front') + i - 1)
    BY <1>1, <1>3, <1>6
  <2>2. \A i \in 1..Len(gpu') : gpu'[i] = Batch(plan'.prompt, start', HasRun' + i - 1)
    BY <1>1, <1>3, <1>6, <1>7
  <2> QED
    BY <1>6, <2>1, <2>2 DEF Pipelined
<1>16. plan.host >= plan.prompt /\ (plan.gpu = start \/ plan.gpu >= plan.prompt)
  <2>1. /\ plan.host = start \/ plan.host >= plan.prompt
        /\ plan.gpu = start \/ plan.gpu >= plan.prompt
    BY <1>1, LastChunk DEF MoreChunks
  <2> QED
    BY <2>1
<1>17. Committing'
  <2>1. /\ yielded' < plan'.new /\ Sent' >= 1 /\ start' \in 0..(plan'.prompt - 1)
        /\ plan'.host >= plan'.prompt + Sent' - 1
        /\ plan'.prompt + Sent' - 1 = plan.prompt /\ ~deferred_err'
    BY <1>1, <1>2, <1>7, <1>16
  <2> QED
    BY <1>7, <2>1 DEF Committing
<1>18. Answered'
  <2>1. At(plan.prompt, start, 0) = start /\ yielded' = 0
    BY <1>1 DEF At
  <2>2. plan.gpu >= start
    BY <1>1, <1>2, <1>16
  <2>3. items' = [i \in 1..yielded' |-> plan'.prompt + i]
    BY <1>1
  <2>4. \A j \in yielded'..(HasRun' - 1) : FALSE
    BY <1>7, <2>1
  <2> QED
    BY <1>1, <1>16, <2>1, <2>2, <2>3, <2>4 DEF Answered
<1> QED
  BY <1>11, <1>12, <1>13, <1>14, <1>15, <1>17, <1>18 DEF IInv

\* The last chunk of generate.
LEMMA FirstTokenStep ==
  ASSUME IInv, FirstToken
  PROVE  IInv'
<1>1. phase = "prefill" /\ ~MoreChunks /\ plan.new # 0
  BY DEF FirstToken
<1>2. PICK n : n = plan.prompt - start
  OBVIOUS
<1>3. n \in Nat /\ start + n = plan.prompt /\ plan.prompt <= Window
  BY <1>1, <1>2, PrefillFacts
<1>4. PICK o \in Forward(Prompt(start, n), plan.host = start) :
        IF o.ok
        THEN /\ Push(o.caches, start)
             /\ depth' = inflight_depth
             /\ phase' = "idle" /\ UNCHANGED items
        ELSE caches' = o.caches /\ Refuse /\ UNCHANGED <<inflight, gpu, next_id, depth>>
  BY <1>2 DEF FirstToken
<1>5. UNCHANGED <<inflight_depth, plan, start, yielded, done, deferred_err, front, result,
                  bad, calls>>
  BY DEF FirstToken
<1>6. /\ o.ok \in BOOLEAN /\ o.ok = (plan.host # start) /\ o.caches \in [Layers -> Cache]
      /\ \A l \in FullLayers : Len(o.caches[l].rows) <= Window
      /\ o.ok => /\ Committed(o.caches) = Absorbed(start + n)
                 /\ Argmax(o.caches) = start + n + 1
  BY <1>1, <1>3, PrefillForward
<1>7. CASE ~o.ok
  <2>1. /\ caches' = o.caches /\ Refuse
        /\ UNCHANGED <<inflight_depth, plan, start, iter, gpu, result, bad, calls>>
    BY <1>4, <1>5, <1>7 DEF iter
  <2> QED
    BY <1>1, <1>6, <2>1, RefuseStep
<1>8. CASE o.ok
  <2>1. Batch(plan.prompt, start, 0) = [at |-> start, id |-> plan.prompt + 1]
    BY <1>1, PrefillFacts DEF Batch, At
  <2>2. /\ caches' = Absorbed(plan.prompt)
        /\ inflight' = Append(inflight, Batch(plan.prompt, start, 0))
        /\ gpu' = Append(gpu, Batch(plan.prompt, start, 0))
        /\ next_id' = plan.prompt + 1
    BY <1>3, <1>4, <1>6, <1>8, <2>1, Zenon DEF Push
  <2>3. depth' = inflight_depth /\ phase' = "idle" /\ UNCHANGED items /\ plan.host # start
    BY <1>4, <1>6, <1>8
  <2> QED
    BY <1>1, <1>5, <2>2, <2>3, FirstTokenWorks
<1> QED
  BY <1>6, <1>7, <1>8

-----------------------------------------------------------------------------
\* What is known while the caller has an iterator that goes on.
LEMMA GoingFacts ==
  ASSUME IInv, Going
  PROVE  /\ plan \in Plans /\ Admits(plan) /\ plan # NoCall
         /\ plan.prompt \in Nat \ {0} /\ plan.new \in Nat /\ plan.host \in Nat
         /\ plan.gpu \in Nat /\ plan.eos \in Nat
         /\ Window \in Nat /\ plan.prompt + plan.new <= Window
         /\ start \in 0..(plan.prompt - 1) /\ start \in Nat
         /\ yielded \in Nat /\ yielded < plan.new
         /\ Len(front) \in Nat /\ Len(inflight) \in Nat /\ Len(gpu) \in Nat
         /\ inflight \in Seq(Batches) /\ front \in Seq(Batches) /\ gpu \in Seq(Batches)
         /\ Len(gpu) <= Len(front) + Len(inflight)
         /\ Sent \in Nat /\ Sent >= 1 /\ Sent <= plan.new
         /\ HasRun \in Nat /\ yielded <= HasRun /\ HasRun <= Sent
         /\ depth \in Depths
<1>1. plan \in Plans /\ Admits(plan)
  BY DEF IInv, Quiet, Going
<1>2. /\ plan.prompt \in Nat \ {0} /\ plan.new \in Nat /\ plan.host \in Nat
      /\ plan.gpu \in Nat /\ plan.eos \in Nat /\ plan # NoCall
  BY <1>1, PlanTyped
<1>3. Window \in Nat /\ plan.prompt + plan.new <= Window
  BY <1>1, GeneratorAssumption DEF Admits
<1>4. inflight \in Seq(Batches) /\ front \in Seq(Batches) /\ gpu \in Seq(Batches)
  BY DEF IInv, TypeOK
<1>5. Len(front) \in Nat /\ Len(inflight) \in Nat /\ Len(gpu) \in Nat
  BY <1>4
<1>6. /\ yielded < plan.new /\ Sent >= 1 /\ start \in 0..(plan.prompt - 1)
      /\ Len(gpu) <= Len(front) + Len(inflight) /\ Sent <= plan.new /\ depth \in Depths
  BY DEF IInv, Committing, Pipelined, Ahead, Going
<1>7. yielded \in Nat
  BY <1>3 DEF IInv, TypeOK
<1>8. Sent \in Nat /\ HasRun \in Nat /\ yielded <= HasRun /\ HasRun <= Sent
  BY <1>5, <1>6, <1>7 DEF Sent, HasRun
<1> QED
  BY <1>1, <1>2, <1>3, <1>4, <1>5, <1>6, <1>7, <1>8

\* The parts about the pipeline mention no more than these.
Pipe == <<plan, start, inflight, front, gpu, yielded, done, deferred_err, caches, next_id,
          result, bad, items>>

\* The client calls next.
LEMMA CallStep ==
  ASSUME IInv, Call
  PROVE  IInv'
<1>1. phase = "idle" /\ ~done /\ phase' = "commit" /\ Going
  BY DEF Call, Going
<1>2. UNCHANGED Pipe /\ UNCHANGED <<inflight_depth, depth, calls>>
  BY DEF Call, Pipe, iter
<1>3. TypeOK'
  BY <1>1, <1>2, Zenon DEF IInv, TypeOK, Pipe
<1>4. Quiet'
  BY <1>1, <1>2 DEF IInv, Quiet, Outside, Pipe
<1>5. Sent' = Sent /\ HasRun' = HasRun
  BY <1>2 DEF Sent, HasRun, Pipe
<1>6. Len(inflight) <= Saturating(depth)
  BY <1>1 DEF IInv, Ahead
<1>7. Ahead'
  BY <1>1, <1>2, <1>5, <1>6 DEF IInv, Ahead, Pipe
<1>8. Filling'
  BY <1>1 DEF Filling
<1>9. Pipelined'
  BY <1>1, <1>2, <1>5 DEF IInv, Pipelined, Pipe
<1>10. Committing'
  BY <1>1, <1>2, <1>5 DEF IInv, Committing, Pipe
<1>11. Answered'
  BY <1>1, <1>2, <1>5 DEF IInv, Answered, Pipe
<1> QED
  BY <1>3, <1>4, <1>7, <1>8, <1>9, <1>10, <1>11 DEF IInv

\* The client drops the iterator.
LEMMA DropStep ==
  ASSUME IInv, Drop
  PROVE  IInv'
<1>1. phase = "idle" /\ phase' = "drop"
  BY DEF Drop
<1>2. UNCHANGED Pipe /\ UNCHANGED <<inflight_depth, depth, calls>>
  BY DEF Drop, Pipe, iter
<1>3. TypeOK'
  BY <1>1, <1>2, Zenon DEF IInv, TypeOK, Pipe
<1>4. Quiet'
  BY <1>1, <1>2 DEF IInv, Quiet, Outside, Pipe
<1>5. Sent' = Sent
  BY <1>2 DEF Sent, Pipe
<1>6. Ahead'
  BY <1>1, <1>2, <1>5 DEF IInv, Ahead, Pipe
<1>7. Filling' /\ ~Going'
  BY <1>1 DEF Filling, Going
<1> QED
  BY <1>3, <1>4, <1>6, <1>7 DEF IInv, Pipelined, Committing, Answered

\* A decode forward: what it leaves, and that only its own failure stops it.
LEMMA DecodeForward ==
  ASSUME IInv, phase = "commit", CommitMore,
         NEW o \in Forward(<<next_id>>, plan.host = plan.prompt + Sent - 1)
  PROVE  /\ o.ok \in BOOLEAN /\ o.ok = (plan.host # plan.prompt + Sent - 1)
         /\ o.caches \in [Layers -> Cache]
         /\ \A l \in FullLayers : Len(o.caches[l].rows) <= Window
         /\ \A l \in Layers : Len(caches[l].rows) <= Len(o.caches[l].rows)
         /\ o.ok => /\ Committed(o.caches) = Absorbed(plan.prompt + Sent)
                    /\ Argmax(o.caches) = plan.prompt + Sent + 1
<1>1. Going /\ ~deferred_err
  BY DEF IInv, Quiet, Going, CommitMore
<1>2. PICK q : q = plan.prompt + Sent - 1
  OBVIOUS
<1>3. /\ q \in Nat /\ plan.prompt + Sent = q + 1 /\ Window \in Nat
      /\ front = <<>> /\ Len(front) = 0
  <2>1. plan.prompt \in Nat \ {0} /\ Sent \in Nat /\ Sent >= 1 /\ Window \in Nat
    BY <1>1, GoingFacts
  <2>2. front = <<>> /\ Len(front) = 0
    BY DEF IInv, Quiet
  <2> QED
    BY <1>2, <2>1, <2>2
<1>4. caches = Absorbed(q) /\ next_id = q + 1
  BY <1>1, <1>2, <1>3 DEF IInv, Committing
<1>5. q + 1 <= Window
  <2>1. Sent < plan.new
    <3>1. yielded \in Nat /\ Len(inflight) \in Nat
      BY <1>1, GoingFacts
    <3>2. yielded + Len(inflight) < plan.new
      BY DEF CommitMore
    <3> QED
      BY <1>3, <3>1, <3>2 DEF Sent
  <2>2. PICK p, s, n : p = plan.prompt /\ s = Sent /\ n = plan.new
    OBVIOUS
  <2>3. p \in Nat /\ s \in Nat /\ n \in Nat /\ p + n <= Window
    BY <1>1, <2>2, GoingFacts
  <2>4. q = p + s - 1 /\ s < n
    BY <1>2, <2>1, <2>2
  <2> QED
    BY ONLY <1>3, <2>3, <2>4
<1>6. PICK ts : ts = <<next_id>>
  OBVIOUS
<1>7. ts \in [1..1 -> Nat] /\ ts \in Seq(Nat) /\ \A i \in 1..1 : ts[i] = q + i
  BY <1>3, <1>4, <1>6
<1>8. PICK f \in BOOLEAN : f = (plan.host = q)
  OBVIOUS
<1>9. o \in Forward(ts, f)
  BY <1>2, <1>6, <1>8
<1>10. caches \in [Layers -> Cache] /\ \A l \in FullLayers : Len(caches[l].rows) <= Window
  <2>1. caches \in [Layers -> Cache] /\ \A l \in Layers : Len(caches[l].rows) = q
    BY <1>3, <1>4, AbsorbedTyped
  <2>2. \A l \in FullLayers : l \in Layers
    BY KindsTyped
  <2> QED
    BY <1>3, <1>5, <2>1, <2>2
<1>11. /\ o.ok \in BOOLEAN /\ (f => ~o.ok) /\ o.caches \in [Layers -> Cache]
       /\ \A l \in FullLayers : Len(o.caches[l].rows) <= Window
       /\ \A l \in Layers : Len(caches[l].rows) <= Len(o.caches[l].rows)
  BY <1>7, <1>9, <1>10, ForwardKeeps
<1>12. ~f => /\ o.ok /\ Committed(o.caches) = Absorbed(q + 1)
             /\ Argmax(o.caches) = q + 1 + 1
  BY <1>3, <1>4, <1>5, <1>7, <1>9, ForwardWorks
<1> QED
  BY <1>2, <1>3, <1>8, <1>11, <1>12

\* A decode step that fails on the host: its error is stashed.
LEMMA AdvanceFails ==
  ASSUME IInv, phase = "commit", CommitMore, plan.host = plan.prompt + Sent - 1,
         caches' \in [Layers -> Cache], \A l \in FullLayers : Len(caches'[l].rows) <= Window,
         deferred_err' = TRUE,
         UNCHANGED <<inflight, gpu, next_id, inflight_depth, phase, plan, start, depth, yielded,
                     done, front, result, bad, items, calls>>
  PROVE  IInv'
<1>1. Going /\ phase' = "commit"
  BY DEF IInv, Quiet, Going
<1>2. TypeOK'
  BY Zenon DEF IInv, TypeOK, Cache
<1>3. Quiet'
  BY <1>1 DEF IInv, Quiet, Outside
<1>4. Sent' = Sent /\ HasRun' = HasRun
  BY DEF Sent, HasRun
<1>5. Ahead'
  BY <1>1, <1>4 DEF IInv, Ahead
<1>6. Filling'
  BY <1>1 DEF Filling
<1>7. Pipelined'
  BY <1>1, <1>4 DEF IInv, Pipelined
<1>8. Committing'
  BY <1>1, <1>4, GoingFacts DEF IInv, Committing
<1>9. Answered'
  BY <1>1, <1>4 DEF IInv, Answered
<1> QED
  BY <1>2, <1>3, <1>5, <1>6, <1>7, <1>8, <1>9 DEF IInv

\* A decode step that succeeds: its batch is the next one.
LEMMA AdvanceWorks ==
  ASSUME IInv, phase = "commit", CommitMore, plan.host # plan.prompt + Sent - 1,
         caches' = Absorbed(plan.prompt + Sent),
         inflight' = Append(inflight, Batch(plan.prompt, start, Sent)),
         gpu' = Append(gpu, Batch(plan.prompt, start, Sent)),
         next_id' = plan.prompt + Sent + 1,
         UNCHANGED <<deferred_err, inflight_depth, phase, plan, start, depth, yielded,
                     done, front, result, bad, items, calls>>
  PROVE  IInv'
<1>1. Going /\ phase' = "commit" /\ ~deferred_err /\ front = <<>> /\ Len(front) = 0
  BY DEF IInv, Quiet, Going, CommitMore
<1>21. /\ plan.prompt \in Nat /\ plan.new \in Nat /\ Window \in Nat
       /\ plan.prompt + plan.new <= Window
       /\ Sent \in Nat /\ Sent >= 1 /\ Sent <= plan.new
  BY <1>1, GoingFacts
<1>22. yielded \in Nat /\ Len(front) \in Nat /\ Len(inflight) \in Nat /\ Len(gpu) \in Nat
  BY <1>1, GoingFacts
<1>23. start \in 0..(plan.prompt - 1) /\ plan.host \in Nat /\ yielded < plan.new
  BY <1>1, GoingFacts
<1>2. Sent < plan.new /\ Sent = yielded + Len(inflight)
  BY <1>1, <1>21, <1>22 DEF CommitMore, Sent
<1>3. PICK b : b = Batch(plan.prompt, start, Sent)
  OBVIOUS
<1>4. b \in Batches /\ plan.prompt + Sent + 1 \in 0..Window
  <2>1. plan.prompt + Sent + 1 <= Window
    <3>1. PICK p, s, n : p = plan.prompt /\ s = Sent /\ n = plan.new
      OBVIOUS
    <3>2. p \in Nat /\ s \in Nat /\ n \in Nat /\ Window \in Nat /\ p + n <= Window /\ s < n
      BY <1>2, <1>21, <3>1
    <3>3. p + s + 1 <= Window
      BY ONLY <3>2
    <3> QED
      BY <3>1, <3>3
  <2>2. Batch(plan.prompt, start, Sent) \in Batches
    BY <1>21, <1>23, <2>1, BatchTyped
  <2> QED
    BY <1>3, <1>21, <2>1, <2>2
<1>5. PICK T : T = Batches
  OBVIOUS
<1>6. inflight \in Seq(T) /\ gpu \in Seq(T) /\ b \in T
  BY <1>1, <1>4, <1>5, GoingFacts
<1>7. /\ inflight' \in Seq(T) /\ Len(inflight') = Len(inflight) + 1
      /\ ToSet(inflight') = ToSet(inflight) \cup {b}
      /\ inflight'[Len(inflight) + 1] = b
      /\ \A i \in 1..Len(inflight) : inflight'[i] = inflight[i]
  BY <1>3, <1>6, AppendItems
<1>8. /\ gpu' \in Seq(T) /\ Len(gpu') = Len(gpu) + 1
      /\ gpu'[Len(gpu) + 1] = b
      /\ \A i \in 1..Len(gpu) : gpu'[i] = gpu[i]
  BY <1>3, <1>6, AppendItems
<1>9. Sent' = Sent + 1 /\ HasRun' = HasRun
  BY <1>1, <1>7, <1>8, <1>22 DEF Sent, HasRun
<1>10. caches' \in [Layers -> Cache] /\ \A l \in FullLayers : Len(caches'[l].rows) <= Window
  <2>1. /\ caches' \in [Layers -> Cache]
        /\ \A l \in Layers : Len(caches'[l].rows) = plan.prompt + Sent
    <3>1. plan.prompt + Sent \in Nat
      BY <1>21
    <3> QED
      BY <3>1, AbsorbedTyped
  <2>2. \A l \in FullLayers : l \in Layers
    BY KindsTyped
  <2>3. plan.prompt + Sent <= Window
    BY <1>21
  <2> QED
    BY <2>1, <2>2, <2>3
<1>11. TypeOK'
  BY <1>4, <1>5, <1>7, <1>8, <1>10, Zenon DEF IInv, TypeOK, Cache
<1>12. Quiet'
  <2>1. ASSUME NEW i \in 1..Len(gpu')
        PROVE  gpu'[i] \in ToSet(inflight') \cup ToSet(front')
    <3>1. CASE i \in 1..Len(gpu)
      <4>1. gpu[i] \in ToSet(inflight) \cup ToSet(front)
        BY <3>1 DEF IInv, Quiet
      <4> QED
        BY <1>7, <1>8, <3>1, <4>1
    <3>2. CASE i = Len(gpu) + 1
      BY <1>7, <1>8, <3>2
    <3>3. i \in 1..Len(gpu) \/ i = Len(gpu) + 1
      BY <1>8, <1>22
    <3> QED
      BY <3>1, <3>2, <3>3
  <2>2. \A i \in 1..Len(gpu') : gpu'[i] \in ToSet(inflight') \cup ToSet(front')
    BY <2>1
  <2>3. /\ phase' = "none" <=> plan' = NoCall
        /\ phase' # "none" => plan' \in Plans /\ Admits(plan)'
        /\ front' = <<>> /\ ~done'
    BY <1>1, GoingFacts DEF Admits, Going
  <2> QED
    BY <1>1, <2>2, <2>3 DEF Quiet, Outside
<1>13. Filling'
  BY <1>1 DEF Filling
<1>14. Ahead'
  <2>5. depth \in Depths
    BY <1>1, GoingFacts
  <2>4. depth \in Nat /\ Huge \in Nat
    BY ONLY <2>5, GeneratorAssumption
  <2>1. Len(inflight) < Saturating(depth) /\ Saturating(depth) \in Nat
    BY <2>4 DEF CommitMore, Saturating
  <2>2. Len(inflight') <= Saturating(depth)
    BY <1>7, <1>22, <2>1
  <2>3. Sent' <= plan.new
    BY <1>2, <1>9, <1>21
  <2> QED
    BY <1>1, <2>2, <2>3, GoingFacts DEF Ahead
<1>15. Pipelined'
  <2>1. ASSUME NEW i \in 1..Len(inflight')
        PROVE  inflight'[i] = Batch(plan.prompt, start, yielded + Len(front) + i - 1)
    <3>1. CASE i \in 1..Len(inflight)
      <4>1. inflight[i] = Batch(plan.prompt, start, yielded + Len(front) + i - 1)
        BY <1>1, <3>1 DEF IInv, Pipelined
      <4> QED
        BY <1>7, <3>1, <4>1
    <3>2. CASE i = Len(inflight) + 1
      <4>1. yielded + Len(front) + i - 1 = Sent
        BY <1>1, <1>2, <1>22, <3>2
      <4> QED
        BY <1>3, <1>7, <3>2, <4>1
    <3>3. i \in 1..Len(inflight) \/ i = Len(inflight) + 1
      BY <1>7, <1>22
    <3> QED
      BY <3>1, <3>2, <3>3
  <2>2. ASSUME NEW i \in 1..Len(gpu')
        PROVE  gpu'[i] = Batch(plan.prompt, start, HasRun + i - 1)
    <3>1. CASE i \in 1..Len(gpu)
      <4>1. gpu[i] = Batch(plan.prompt, start, HasRun + i - 1)
        BY <1>1, <3>1 DEF IInv, Pipelined
      <4> QED
        BY <1>8, <3>1, <4>1
    <3>2. CASE i = Len(gpu) + 1
      <4>1. HasRun + i - 1 = Sent
        BY <1>21, <1>22, <3>2 DEF HasRun
      <4> QED
        BY <1>3, <1>8, <3>2, <4>1
    <3>3. i \in 1..Len(gpu) \/ i = Len(gpu) + 1
      BY <1>8, <1>22
    <3> QED
      BY <3>1, <3>2, <3>3
  <2>3. Len(gpu') <= Len(front') + Len(inflight')
    <3>1. Len(gpu) <= Len(front) + Len(inflight)
      BY <1>1, GoingFacts
    <3> QED
      BY <1>1, <1>7, <1>8, <1>22, <3>1
  <2>4. \A i \in 1..Len(inflight') :
          inflight'[i] = Batch(plan'.prompt, start', yielded' + Len(front') + i - 1)
    BY <2>1
  <2>5. \A i \in 1..Len(gpu') : gpu'[i] = Batch(plan'.prompt, start', HasRun' + i - 1)
    BY <1>9, <2>2
  <2> QED
    BY <1>1, <2>3, <2>4, <2>5 DEF Pipelined
<1>16. Committing'
  <2>1. plan.host >= plan.prompt + Sent - 1 /\ plan.host # plan.prompt + Sent - 1
    BY <1>1 DEF IInv, Committing
  <2>2. /\ plan'.host >= plan'.prompt + Sent' - 1 /\ Sent' >= 1
        /\ plan'.prompt + Sent' - 1 = plan.prompt + Sent
        /\ plan'.prompt + Sent' = plan.prompt + Sent + 1
        /\ yielded' < plan'.new /\ start' \in 0..(plan'.prompt - 1) /\ ~deferred_err'
    <3>1. /\ plan.host >= plan.prompt + (Sent + 1) - 1 /\ Sent + 1 >= 1
          /\ plan.prompt + (Sent + 1) - 1 = plan.prompt + Sent
          /\ plan.prompt + (Sent + 1) = plan.prompt + Sent + 1
      <4>1. PICK h, pr, n : h = plan.host /\ pr = plan.prompt /\ n = Sent
        OBVIOUS
      <4>2. /\ pr \in Nat /\ n \in Nat /\ h \in Nat
            /\ h >= pr + n - 1 /\ h # pr + n - 1
        BY <1>21, <1>23, <2>1, <4>1, Zenon
      <4>3. h >= pr + (n + 1) - 1 /\ n + 1 >= 1 /\ pr + (n + 1) - 1 = pr + n
            /\ pr + (n + 1) = pr + n + 1
        BY ONLY <4>2
      <4> QED
        BY <4>1, <4>3, Zenon
    <3> QED
      BY <1>1, <1>9, <1>23, <3>1
  <2> QED
    BY <2>2, Zenon DEF Committing
<1>17. Answered'
  BY <1>1, <1>9 DEF IInv, Answered
<1> QED
  BY <1>11, <1>12, <1>13, <1>14, <1>15, <1>16, <1>17 DEF IInv

\* A turn of the commit-ahead loop.
LEMMA AdvanceStep ==
  ASSUME IInv, Advance
  PROVE  IInv'
<1>1. phase = "commit" /\ CommitMore /\ Going /\ Len(front) = 0
  BY DEF Advance, IInv, Quiet, Going
<1>21. /\ plan.prompt \in Nat /\ plan.new \in Nat /\ Window \in Nat
       /\ plan.prompt + plan.new <= Window
       /\ Sent \in Nat /\ Sent >= 1 /\ Sent <= plan.new
  BY <1>1, GoingFacts
<1>22. yielded \in Nat /\ Len(front) \in Nat /\ Len(inflight) \in Nat /\ Len(gpu) \in Nat
  BY <1>1, GoingFacts
<1>23. start \in 0..(plan.prompt - 1) /\ plan.host \in Nat /\ yielded < plan.new
  BY <1>1, GoingFacts
<1>2. plan.prompt + yielded + Len(inflight) - 1 = plan.prompt + Sent - 1
  <2>1. PICK p, y, i : p = plan.prompt /\ y = yielded /\ i = Len(inflight)
    OBVIOUS
  <2>2. p \in Nat /\ y \in Nat /\ i \in Nat /\ Sent = y + 0 + i
    BY <1>1, <1>21, <1>22, <2>1 DEF Sent
  <2>3. p + y + i - 1 = p + Sent - 1
    BY ONLY <2>2
  <2> QED
    BY <2>1, <2>3
<1>3. PICK q : q = plan.prompt + Sent - 1
  OBVIOUS
<1>4. PICK o \in Forward(<<next_id>>, plan.host = q) :
        IF o.ok THEN Push(o.caches, q) /\ UNCHANGED deferred_err
        ELSE /\ caches' = o.caches /\ deferred_err' = TRUE
             /\ UNCHANGED <<inflight, gpu, next_id>>
  BY <1>2, <1>3 DEF Advance
<1>5. UNCHANGED <<inflight_depth, phase, plan, start, depth, yielded, done, front, result,
                  bad, items, calls>>
  BY DEF Advance
<1>6. /\ o.ok \in BOOLEAN /\ o.ok = (plan.host # plan.prompt + Sent - 1)
      /\ o.caches \in [Layers -> Cache]
      /\ \A l \in FullLayers : Len(o.caches[l].rows) <= Window
      /\ o.ok => /\ Committed(o.caches) = Absorbed(plan.prompt + Sent)
                 /\ Argmax(o.caches) = plan.prompt + Sent + 1
  BY <1>1, <1>3, DecodeForward
<1>7. CASE ~o.ok
  <2>1. caches' = o.caches /\ deferred_err' = TRUE /\ UNCHANGED <<inflight, gpu, next_id>>
    BY <1>4, <1>7
  <2>2. plan.host = plan.prompt + Sent - 1
    BY ONLY <1>6, <1>7
  <2> QED
    BY <1>1, <1>5, <1>6, <2>1, <2>2, AdvanceFails
<1>8. CASE o.ok
  <2>1. Batch(plan.prompt, start, Sent) = [at |-> q, id |-> plan.prompt + Sent + 1]
    BY <1>3, <1>21 DEF Batch, At
  <2>2. /\ caches' = Absorbed(plan.prompt + Sent)
        /\ inflight' = Append(inflight, Batch(plan.prompt, start, Sent))
        /\ gpu' = Append(gpu, Batch(plan.prompt, start, Sent))
        /\ next_id' = plan.prompt + Sent + 1
        /\ deferred_err' = deferred_err
    BY <1>4, <1>6, <1>8, <2>1, Zenon DEF Push
  <2>3. plan.host # plan.prompt + Sent - 1
    BY ONLY <1>6, <1>8
  <2> QED
    BY <1>1, <1>5, <2>2, <2>3, AdvanceWorks
<1> QED
  BY <1>6, <1>7, <1>8

-----------------------------------------------------------------------------
\* next finds nothing in flight: the call is over.
LEMMA PopNone ==
  ASSUME IInv, phase = "commit", inflight = <<>>,
         done' = TRUE, deferred_err' = FALSE, phase' = "idle",
         items' = IF deferred_err THEN Append(items, Error) ELSE items,
         UNCHANGED <<front, inflight, caches, inflight_depth, plan, start, depth, next_id,
                     yielded, gpu, result, bad, calls>>
  PROVE  IInv'
<1>1. Going
  BY DEF IInv, Quiet, Going
<1>2. items' \in Seq(0..Window)
  <2>1. items \in Seq(0..Window) /\ Error \in 0..Window
    BY GeneratorAssumption DEF IInv, TypeOK, Error
  <2>2. Append(items, Error) \in Seq(0..Window)
    BY <2>1
  <2> QED
    BY <2>1, <2>2
<1>3. TypeOK'
  BY <1>2, Zenon DEF IInv, TypeOK, Cache
<1>4. Quiet'
  BY <1>1, GoingFacts DEF IInv, Quiet, Outside
<1>5. Sent' = Sent
  BY DEF Sent
<1>6. Len(inflight') = 0 /\ depth \in Nat
  <2>1. depth \in Depths
    BY <1>1, GoingFacts
  <2> QED
    BY <2>1, GeneratorAssumption
<1>7. Len(inflight') <= Saturating(depth) /\ Len(inflight') <= depth
  BY <1>6, GeneratorAssumption DEF Saturating
<1>8. Ahead'
  BY <1>1, <1>5, <1>7, GoingFacts DEF IInv, Ahead
<1>9. Filling' /\ ~Going'
  BY DEF Filling, Going
<1> QED
  BY <1>3, <1>4, <1>8, <1>9 DEF IInv, Pipelined, Committing, Answered

\* next takes the oldest batch and waits for it.
LEMMA PopSome ==
  ASSUME IInv, phase = "commit", inflight # <<>>,
         front' = <<Head(inflight)>>, inflight' = Tail(inflight), phase' = "wait",
         UNCHANGED <<done, deferred_err, items, caches, inflight_depth, plan, start, depth,
                     next_id, yielded, gpu, result, bad, calls>>
  PROVE  IInv'
<1>1. Going /\ Len(front) = 0 /\ front = <<>> /\ ~done
  BY DEF IInv, Quiet, Going
<1>2. PICK T : T = Batches
  OBVIOUS
<1>3. inflight \in Seq(T) /\ gpu \in Seq(T)
  BY <1>1, <1>2, GoingFacts
<1>4. PICK n : n = Len(inflight)
  OBVIOUS
<1>5. /\ n \in Nat \ {0} /\ inflight' \in Seq(T) /\ Len(inflight') = n - 1
      /\ \A i \in 1..(n - 1) : inflight'[i] = inflight[i + 1]
  BY <1>3, <1>4
<1>6. Head(inflight) = inflight[1] /\ inflight[1] \in T
  BY <1>3, <1>4, <1>5
<1>7. front' \in Seq(T) /\ Len(front') = 1 /\ front'[1] = inflight[1]
  BY <1>6
<1>8. Sent' = Sent /\ HasRun' = HasRun
  <2>1. yielded \in Nat
    BY <1>1, GoingFacts
  <2>2. yielded + 1 + (n - 1) = yielded + 0 + n
    BY <1>5, <2>1
  <2> QED
    BY <1>1, <1>4, <1>5, <1>7, <2>2 DEF Sent, HasRun
<1>9. TypeOK'
  BY <1>2, <1>5, <1>7, Zenon DEF IInv, TypeOK, Cache
<1>10. Quiet'
  <2>1. ASSUME NEW i \in 1..Len(gpu')
        PROVE  gpu'[i] \in ToSet(inflight') \cup ToSet(front')
    <3>1. gpu'[i] \in ToSet(inflight) \cup ToSet(front)
      BY DEF IInv, Quiet
    <3>2. gpu'[i] \in ToSet(inflight)
      BY <1>1, <3>1 DEF ToSet
    <3>3. PICK k \in 1..n : gpu'[i] = inflight[k]
      BY <1>3, <1>4, <3>2 DEF ToSet
    <3>4. CASE k = 1
      <4>1. 1 \in DOMAIN front'
        BY <1>7
      <4> QED
        BY <1>7, <3>3, <3>4, <4>1 DEF ToSet
    <3>5. CASE k # 1
      <4>1. k - 1 \in 1..(n - 1) /\ (k - 1) + 1 = k
        BY <1>5, <3>5
      <4>2. k - 1 \in DOMAIN inflight' /\ inflight'[k - 1] = inflight[k]
        BY <1>5, <4>1
      <4> QED
        BY <3>3, <4>2 DEF ToSet
    <3> QED
      BY <3>4, <3>5
  <2>2. \A i \in 1..Len(gpu') : gpu'[i] \in ToSet(inflight') \cup ToSet(front')
    BY <2>1
  <2>3. /\ phase' = "none" <=> plan' = NoCall
        /\ phase' # "none" => plan' \in Plans /\ Admits(plan)'
    BY <1>1, GoingFacts DEF Admits
  <2> QED
    BY <1>1, <1>7, <2>2, <2>3 DEF Quiet, Outside
<1>11. Filling'
  BY DEF Filling
<1>12. Len(inflight') <= depth
  <2>1. depth \in Depths
    BY <1>1, GoingFacts
  <2>2. depth \in Nat /\ Huge \in Nat
    BY ONLY <2>1, GeneratorAssumption
  <2>3. n <= Saturating(depth)
    BY <1>4 DEF IInv, Ahead
  <2> QED
    BY <1>5, <2>2, <2>3 DEF Saturating
<1>13. Ahead'
  BY <1>1, <1>8, <1>12, GoingFacts DEF Ahead
<1>14. Pipelined'
  <2>1. \A i \in 1..n : inflight[i] = Batch(plan.prompt, start, yielded + Len(front) + i - 1)
    BY <1>1, <1>4 DEF IInv, Pipelined
  <2>2. yielded \in Nat
    BY <1>1, GoingFacts
  <2>3. front'[1] = Batch(plan.prompt, start, yielded)
    <3>1. 1 \in 1..n /\ yielded + Len(front) + 1 - 1 = yielded
      BY <1>1, <1>5, <2>2
    <3> QED
      BY <1>7, <2>1, <3>1, Zenon
  <2>4. ASSUME NEW i \in 1..(n - 1)
        PROVE  inflight'[i] = Batch(plan.prompt, start, yielded + 1 + i - 1)
    <3>1. i + 1 \in 1..n /\ yielded + Len(front) + (i + 1) - 1 = yielded + 1 + i - 1
      BY <1>1, <1>5, <2>2
    <3> QED
      BY <1>5, <2>1, <3>1, Zenon
  <2>5. \A i \in 1..Len(inflight') :
          inflight'[i] = Batch(plan'.prompt, start', yielded' + Len(front') + i - 1)
    BY <1>5, <1>7, <2>4
  <2>6. Len(gpu') <= Len(front') + Len(inflight')
    <3>1. Len(gpu) <= Len(front) + Len(inflight)
      BY <1>1, GoingFacts
    <3> QED
      BY <1>1, <1>4, <1>5, <1>7, <3>1
  <2>7. \A i \in 1..Len(gpu') : gpu'[i] = Batch(plan'.prompt, start', HasRun' + i - 1)
    BY <1>1, <1>8 DEF IInv, Pipelined
  <2> QED
    BY <2>3, <2>5, <2>6, <2>7 DEF Pipelined
<1>15. Committing'
  BY <1>1, <1>8 DEF IInv, Committing
<1>16. Answered'
  BY <1>1, <1>8 DEF IInv, Answered
<1> QED
  BY <1>9, <1>10, <1>11, <1>13, <1>14, <1>15, <1>16 DEF IInv

\* The commit-ahead loop is through.
LEMMA PopStep ==
  ASSUME IInv, Pop
  PROVE  IInv'
<1>1. CASE inflight = <<>>
  BY <1>1, PopNone DEF Pop
<1>2. CASE inflight # <<>>
  BY <1>2, PopSome DEF Pop
<1> QED
  BY <1>1, <1>2

\* What the wait returns is the token the batch computes, or its failure.
LEMMA ReadItem ==
  ASSUME IInv, Read, NEW id, id = result[front[1].at]
  PROVE  /\ id \in 0..Window
         /\ HasRun > yielded
         /\ \/ /\ plan.gpu = At(plan.prompt, start, yielded) /\ id = Error
            \/ /\ plan.gpu > At(plan.prompt, start, yielded) /\ id = plan.prompt + yielded + 1
<1>1. Going /\ Len(front) = 1 /\ phase = "wait"
  BY DEF IInv, Quiet, Going, Read
<1>2. /\ plan.prompt \in Nat /\ start \in 0..(plan.prompt - 1) /\ yielded \in Nat
      /\ plan.gpu \in Nat
  BY <1>1, GoingFacts
<1>3. front[1] = Batch(plan.prompt, start, yielded)
  BY <1>1 DEF IInv, Pipelined
<1>4. front[1].at = At(plan.prompt, start, yielded)
  BY <1>3 DEF Batch
<1>5. HasRun > yielded
  <2>1. HasRun \in Nat /\ yielded <= HasRun
    BY <1>1, GoingFacts
  <2>2. ASSUME HasRun = yielded
        PROVE  FALSE
    <3>1. Len(inflight) \in Nat /\ Len(gpu) \in Nat
      BY <1>1, GoingFacts
    <3>2. Len(gpu) = 1 + Len(inflight)
      BY <1>1, <1>2, <2>2, <3>1 DEF HasRun, Sent
    <3>3. 1 \in 1..Len(gpu) /\ HasRun + 1 - 1 = yielded
      BY <1>2, <2>2, <3>1, <3>2
    <3>4. gpu[1] = Batch(plan.prompt, start, HasRun + 1 - 1)
      BY <1>1, <3>3 DEF IInv, Pipelined
    <3>5. gpu[1] = front[1]
      BY <1>3, <3>3, <3>4, Zenon
    <3>6. gpu \in Seq(Batches)
      BY <1>1, GoingFacts
    <3>7. 1 \in DOMAIN gpu
      BY <3>3, <3>6
    <3> QED
      BY <3>5, <3>7 DEF Read, Ran
  <2> QED
    BY <1>2, <2>1, <2>2
<1>6. yielded \in yielded..(HasRun - 1)
  <2>1. HasRun \in Nat
    BY <1>1, GoingFacts
  <2> QED
    BY <1>2, <1>5, <2>1
<1>7. PICK a : a = At(plan.prompt, start, yielded)
  OBVIOUS
<1>8. /\ plan.gpu > a => result[a] = plan.prompt + yielded + 1
      /\ plan.gpu = a => result[a] = Error
      /\ plan.gpu >= a
  BY <1>1, <1>6, <1>7 DEF IInv, Answered
<1>9. a \in 0..Window
  <2>1. /\ Window \in Nat /\ plan.new \in Nat /\ plan.prompt + plan.new <= Window
        /\ yielded < plan.new
    BY <1>1, GoingFacts
  <2>2. plan.prompt + yielded + 1 <= Window
    BY <1>2, <2>1
  <2> QED
    BY <1>2, <1>7, <2>2, BatchTyped
<1>10. result[a] \in 0..Window
  BY <1>9 DEF IInv, TypeOK
<1>11. a \in Nat
  BY <1>9
<1> QED
  BY <1>2, <1>4, <1>5, <1>7, <1>8, <1>10, <1>11

\* Reading a failed batch ends the call.
LEMMA ReadFails ==
  ASSUME IInv, phase = "wait", items' = Append(items, Error), yielded' = yielded, done' = TRUE,
         front' = <<>>, phase' = "idle", \A i \in DOMAIN gpu : gpu[i] # front[1],
         UNCHANGED <<caches, inflight_depth, plan, start, depth, inflight, next_id,
                     deferred_err, gpu, result, bad, calls>>
  PROVE  IInv'
<1>1. Going /\ Len(front) = 1 /\ Len(front') = 0
  BY DEF IInv, Quiet, Going
<1>2. items' \in Seq(0..Window)
  <2>1. items \in Seq(0..Window) /\ Error \in 0..Window
    BY GeneratorAssumption DEF IInv, TypeOK, Error
  <2> QED
    BY <2>1
<1>3. front' \in Seq(Batches)
  OBVIOUS
<1>4. TypeOK'
  BY <1>2, <1>3, Zenon DEF IInv, TypeOK, Cache
<1>5. gpu \in Seq(Batches) /\ front \in Seq(Batches)
  BY <1>1, GoingFacts
<1>6. DOMAIN gpu = 1..Len(gpu) /\ DOMAIN front = 1..1
  BY <1>1, <1>5
<1>7. \A i \in 1..Len(gpu) : gpu[i] \in ToSet(inflight)
  BY <1>6 DEF IInv, Quiet, ToSet
<1>8. Quiet'
  BY <1>1, <1>7, GoingFacts DEF IInv, Quiet, Outside
<1>9. Sent' <= plan.new
  <2>1. /\ yielded \in Nat /\ Len(inflight) \in Nat /\ plan.new \in Nat
    BY <1>1, GoingFacts
  <2>2. yielded + Len(front) + Len(inflight) <= plan.new
    BY DEF IInv, Ahead, Sent
  <2> QED
    BY <1>1, <2>1, <2>2 DEF Sent
<1>10. Len(inflight') <= depth /\ Len(inflight') <= Saturating(depth)
  <2>1. Len(inflight) <= depth /\ depth \in Depths
    BY <1>1, GoingFacts DEF IInv, Ahead
  <2>2. depth \in Nat /\ Huge \in Nat
    BY ONLY <2>1, GeneratorAssumption
  <2>3. Len(inflight) \in Nat
    BY <1>1, GoingFacts
  <2> QED
    BY <2>1, <2>2, <2>3 DEF Saturating
<1>11. Ahead'
  BY <1>1, <1>9, <1>10, GoingFacts DEF Ahead
<1>12. Filling' /\ ~Going'
  BY DEF Filling, Going
<1> QED
  BY <1>4, <1>8, <1>11, <1>12 DEF IInv, Pipelined, Committing, Answered

\* Reading a token.
LEMMA ReadWorks ==
  ASSUME IInv, phase = "wait", HasRun > yielded,
         plan.gpu > At(plan.prompt, start, yielded),
         plan.prompt + yielded + 1 \in 0..Window,
         items' = Append(items, plan.prompt + yielded + 1), yielded' = yielded + 1,
         done' \in BOOLEAN, yielded' >= plan.new => done',
         front' = <<>>, phase' = "idle", \A i \in DOMAIN gpu : gpu[i] # front[1],
         UNCHANGED <<caches, inflight_depth, plan, start, depth, inflight, next_id,
                     deferred_err, gpu, result, bad, calls>>
  PROVE  IInv'
<1>1. Going /\ Len(front) = 1 /\ Len(front') = 0
  BY DEF IInv, Quiet, Going
<1>2. /\ yielded \in Nat /\ Len(inflight) \in Nat /\ plan.new \in Nat /\ plan.prompt \in Nat
      /\ Len(gpu) \in Nat
  BY <1>1, GoingFacts
<1>3. items' \in Seq(0..Window)
  <2>1. items \in Seq(0..Window)
    BY DEF IInv, TypeOK
  <2> QED
    BY <2>1
<1>4. front' \in Seq(Batches)
  OBVIOUS
<1>5. yielded' \in 0..Window
  BY <1>2, GeneratorAssumption
<1>6. TypeOK'
  BY <1>3, <1>4, <1>5, Zenon DEF IInv, TypeOK, Cache
<1>7. gpu \in Seq(Batches) /\ front \in Seq(Batches)
  BY <1>1, GoingFacts
<1>8. DOMAIN gpu = 1..Len(gpu) /\ DOMAIN front = 1..1
  BY <1>1, <1>7
<1>9. \A i \in 1..Len(gpu) : gpu[i] \in ToSet(inflight)
  BY <1>8 DEF IInv, Quiet, ToSet
<1>10. Quiet'
  BY <1>1, <1>9, GoingFacts DEF IInv, Quiet, Outside
<1>11. Sent' = Sent /\ HasRun' = HasRun
  BY <1>1, <1>2 DEF Sent, HasRun
<1>12. Len(inflight') <= depth /\ Len(inflight') <= Saturating(depth)
  <2>1. Len(inflight) <= depth /\ depth \in Depths
    BY <1>1, GoingFacts DEF IInv, Ahead
  <2>2. depth \in Nat /\ Huge \in Nat
    BY ONLY <2>1, GeneratorAssumption
  <2> QED
    BY <1>2, <2>1, <2>2 DEF Saturating
<1>13. Ahead'
  BY <1>1, <1>11, <1>12, GoingFacts DEF Ahead
<1>14. Filling'
  BY DEF Filling
<1>15. Pipelined'
  <2>1. ASSUME NEW i \in 1..Len(inflight')
        PROVE  inflight'[i] = Batch(plan'.prompt, start', yielded' + Len(front') + i - 1)
    <3>1. inflight[i] = Batch(plan.prompt, start, yielded + Len(front) + i - 1)
      BY <1>1 DEF IInv, Pipelined
    <3>2. yielded + Len(front) + i - 1 = yielded' + Len(front') + i - 1
      BY <1>1, <1>2
    <3> QED
      BY <3>1, <3>2
  <2>2. Len(gpu') <= Len(front') + Len(inflight')
    <3>1. yielded + 1 + Len(inflight) - Len(gpu) > yielded
      BY <1>1 DEF HasRun, Sent
    <3> QED
      BY <1>1, <1>2, <3>1
  <2>3. \A i \in 1..Len(gpu') : gpu'[i] = Batch(plan'.prompt, start', HasRun' + i - 1)
    BY <1>1, <1>11 DEF IInv, Pipelined
  <2> QED
    BY <2>1, <2>2, <2>3 DEF Pipelined
<1>16. Committing'
  <2>1. Going' => yielded' < plan'.new
    BY <1>2 DEF Going
  <2> QED
    BY <1>1, <1>11, <2>1 DEF IInv, Committing
<1>17. Answered'
  <2>1. PICK P, S, g, y : P = plan.prompt /\ S = start /\ g = plan.gpu /\ y = yielded
    OBVIOUS
  <2>2. P \in Nat /\ S \in 0..(P - 1) /\ g \in Nat /\ y \in Nat
    BY <1>1, <2>1, GoingFacts
  <2>3. (g = S \/ g >= P) /\ g > At(P, S, y)
    BY <1>1, <2>1 DEF IInv, Answered
  <2>4. g >= At(P, S, y + 1)
    BY <2>2, <2>3 DEF At
  <2>5. \A j \in yielded'..(HasRun' - 1) : j \in yielded..(HasRun - 1)
    <3>1. HasRun \in Nat
      BY <1>1, GoingFacts
    <3> QED
      BY <1>2, <1>11, <3>1
  <2>6. items = [i \in 1..y |-> P + i]
    BY <1>1, <2>1 DEF IInv, Answered
  <2>7. items' = [i \in 1..(y + 1) |-> P + i]
    <3>1. items' = Append(items, P + y + 1)
      BY <2>1
    <3>2. PICK q : q = items
      OBVIOUS
    <3>3. q \in Seq(Nat) /\ Len(q) = y /\ \A i \in 1..y : q[i] = P + i
      BY <2>2, <2>6, <3>2
    <3>4. PICK a : a = Append(q, P + y + 1)
      OBVIOUS
    <3>5. /\ a \in Seq(Nat) /\ Len(a) = y + 1 /\ a[y + 1] = P + y + 1
          /\ \A i \in 1..y : a[i] = q[i]
      BY <2>2, <3>3, <3>4
    <3>6. \A i \in 1..(y + 1) : a[i] = P + i
      BY <2>2, <3>3, <3>5
    <3>7. a = [i \in 1..(y + 1) |-> P + i]
      BY <3>5, <3>6
    <3> QED
      BY <3>1, <3>2, <3>4, <3>7
  <2>8. items' = [i \in 1..yielded' |-> plan'.prompt + i]
    BY <2>1, <2>7
  <2>9. plan'.gpu >= At(plan'.prompt, start', yielded')
    BY <2>1, <2>4
  <2> QED
    BY <1>1, <1>11, <2>5, <2>8, <2>9 DEF IInv, Answered
<1> QED
  BY <1>6, <1>10, <1>13, <1>14, <1>15, <1>16, <1>17 DEF IInv

\* next returns what its wait returned.
LEMMA ReadStep ==
  ASSUME IInv, Read
  PROVE  IInv'
<1>1. PICK id : id = result[front[1].at]
  OBVIOUS
<1>2. /\ id \in 0..Window /\ HasRun > yielded
      /\ \/ /\ plan.gpu = At(plan.prompt, start, yielded) /\ id = Error
         \/ /\ plan.gpu > At(plan.prompt, start, yielded) /\ id = plan.prompt + yielded + 1
  BY <1>1, ReadItem
<1>3. /\ items' = Append(items, id)
      /\ yielded' = IF id = Error THEN yielded ELSE yielded + 1
      /\ done' = (id \in {Error, plan.eos} \/ yielded' >= plan.new)
      /\ front' = <<>> /\ phase = "wait" /\ phase' = "idle"
      /\ \A i \in DOMAIN gpu : gpu[i] # front[1]
      /\ UNCHANGED <<caches, inflight_depth, plan, start, depth, inflight, next_id,
                     deferred_err, gpu, result, bad, calls>>
  BY <1>1, Zenon DEF Read, Ran
<1>4. CASE plan.gpu = At(plan.prompt, start, yielded) /\ id = Error
  <2>1. done' = TRUE /\ yielded' = yielded /\ items' = Append(items, Error)
    BY <1>3, <1>4
  <2> QED
    BY <1>3, <2>1, ReadFails
<1>5. CASE plan.gpu > At(plan.prompt, start, yielded) /\ id = plan.prompt + yielded + 1
  <2>1. plan.prompt \in Nat /\ yielded \in Nat
    <3>1. Going
      BY <1>3 DEF IInv, Quiet, Going
    <3> QED
      BY <3>1, GoingFacts
  <2>2. id # Error
    BY <1>5, <2>1 DEF Error
  <2>3. /\ yielded' = yielded + 1 /\ done' \in BOOLEAN /\ (yielded' >= plan.new => done')
        /\ items' = Append(items, plan.prompt + yielded + 1)
        /\ plan.prompt + yielded + 1 \in 0..Window
    BY <1>2, <1>3, <1>5, <2>2
  <2> QED
    BY <1>2, <1>3, <1>5, <2>3, ReadWorks
<1> QED
  BY <1>2, <1>4, <1>5

-----------------------------------------------------------------------------
\* The GPU runs the oldest batch it has.
LEMMA RunStep ==
  ASSUME IInv, Run
  PROVE  IInv'
<1>1. /\ gpu # <<>> /\ gpu' = Tail(gpu)
      /\ UNCHANGED <<caches, inflight_depth, phase, plan, start, iter, items, calls>>
  BY DEF Run
<1>2. PICK b : b = Head(gpu)
  OBVIOUS
<1>3. /\ result' = [result EXCEPT ![b.at] = IF plan.gpu = b.at THEN Error
                                            ELSE IF bad THEN Garbage ELSE b.id]
      /\ bad' = (bad \/ plan.gpu = b.at)
  BY <1>2 DEF Run
<1>4. PICK T : T = Batches
  OBVIOUS
<1>5. gpu \in Seq(T)
  BY <1>4 DEF IInv, TypeOK
<1>6. PICK n : n = Len(gpu)
  OBVIOUS
<1>7. /\ n \in Nat \ {0} /\ gpu' \in Seq(T) /\ Len(gpu') = n - 1
      /\ \A i \in 1..(n - 1) : gpu'[i] = gpu[i + 1]
      /\ b = gpu[1] /\ b \in T
  BY <1>1, <1>2, <1>5, <1>6
<1>8. b.at \in 0..Window /\ b.id \in 0..Window
  BY <1>4, <1>7 DEF Batches
<1>9. Error \in 0..Window /\ Garbage \in 0..Window
  BY GeneratorAssumption DEF Error, Garbage
<1>10. result \in [0..Window -> 0..Window]
  BY DEF IInv, TypeOK
<1>11. /\ result' \in [0..Window -> 0..Window] /\ bad' \in BOOLEAN
  <2>1. bad \in BOOLEAN
    BY DEF IInv, TypeOK
  <2> QED
    BY <1>3, <1>8, <1>9, <1>10, <2>1
<1>12. TypeOK'
  BY <1>1, <1>4, <1>7, <1>11, Zenon DEF IInv, TypeOK, Cache, iter
<1>13. ~Outside
  BY <1>1 DEF IInv, Quiet
<1>14. Quiet'
  <2>1. \A i \in 1..n : gpu[i] \in ToSet(inflight) \cup ToSet(front)
    BY <1>6 DEF IInv, Quiet
  <2>2. \A i \in 1..(n - 1) : i + 1 \in 1..n
    BY <1>7
  <2>3. \A i \in 1..Len(gpu') : gpu'[i] \in ToSet(inflight) \cup ToSet(front)
    BY <1>7, <2>1, <2>2
  <2> QED
    BY <1>1, <1>13, <2>3 DEF IInv, Quiet, Outside, iter
<1>15. Sent' = Sent
  BY <1>1 DEF Sent, iter
<1>16. Ahead'
  BY <1>1, <1>15 DEF IInv, Ahead, iter
<1>17. Filling'
  BY <1>1, <1>13 DEF Filling, Outside
<1>18. Pipelined' /\ Committing' /\ Answered'
  <2>1. CASE ~Going
    BY <1>1, <2>1 DEF Going, Pipelined, Committing, Answered, iter
  <2>2. CASE Going
    <3>1. HasRun' = HasRun + 1
      <4>1. Sent \in Nat
        BY <2>2, GoingFacts
      <4> QED
        BY <1>6, <1>7, <1>15, <4>1 DEF HasRun
    <3>2. PICK r : r = HasRun
      OBVIOUS
    <3>3. r \in Nat /\ yielded \in Nat /\ yielded <= r
      BY <2>2, <3>2, GoingFacts
    <3>4. \A i \in 1..n : gpu[i] = Batch(plan.prompt, start, r + i - 1)
      BY <1>6, <2>2, <3>2 DEF IInv, Pipelined
    <3>5. b = Batch(plan.prompt, start, r)
      <4>1. 1 \in 1..n /\ r + 1 - 1 = r
        BY <1>7, <3>3
      <4> QED
        BY <1>7, <3>4, <4>1, Zenon
    <3>6. Pipelined'
      <4>1. ASSUME NEW i \in 1..(n - 1)
            PROVE  gpu'[i] = Batch(plan.prompt, start, r + 1 + i - 1)
        <5>1. i + 1 \in 1..n /\ r + (i + 1) - 1 = r + 1 + i - 1
          BY <1>7, <3>3
        <5> QED
          BY <1>7, <3>4, <5>1, Zenon
      <4>2. \A i \in 1..Len(gpu') : gpu'[i] = Batch(plan'.prompt, start', HasRun' + i - 1)
        BY <1>1, <1>7, <3>1, <3>2, <4>1
      <4>3. Len(gpu') <= Len(front') + Len(inflight')
        <5>1. /\ n <= Len(front) + Len(inflight) /\ Len(front) \in Nat /\ Len(inflight) \in Nat
          BY <1>6, <2>2, GoingFacts
        <5> QED
          BY <1>1, <1>7, <5>1 DEF iter
      <4> QED
        BY <1>1, <2>2, <4>2, <4>3 DEF IInv, Pipelined, iter
    <3>7. Committing'
      BY <1>1, <1>15, <2>2 DEF IInv, Committing, iter
    <3>8. Answered'
      <4>1. PICK P, S, g : P = plan.prompt /\ S = start /\ g = plan.gpu
        OBVIOUS
      <4>2. P \in Nat /\ S \in 0..(P - 1) /\ g \in Nat
        BY <2>2, <4>1, GoingFacts
      <4>3. b.at = At(P, S, r) /\ b.id = P + r + 1
        BY <3>5, <4>1 DEF Batch
      <4>4. PICK a : a = At(P, S, r)
        OBVIOUS
      <4>5. /\ (bad => r > 0 /\ g <= At(P, S, r - 1))
            /\ \A j \in yielded..(r - 1) : /\ g > At(P, S, j) => result[At(P, S, j)] = P + j + 1
                                           /\ g = At(P, S, j) => result[At(P, S, j)] = Error
        BY <2>2, <3>2, <4>1 DEF IInv, Answered
      <4>6. bad => g < a
        <5>1. ASSUME bad PROVE g < a
          <6>1. r > 0 /\ g <= At(P, S, r - 1)
            BY <4>5, <5>1
          <6> QED
            BY <3>3, <4>2, <4>4, <6>1 DEF At
        <5> QED
          BY <5>1
      <4>7. /\ result'[a] = IF g = a THEN Error ELSE IF bad THEN Garbage ELSE P + r + 1
            /\ \A x \in 0..Window : x # a => result'[x] = result[x]
        BY <1>3, <1>8, <1>10, <4>1, <4>3, <4>4
      <4>8. bad' => HasRun' > 0 /\ plan'.gpu <= At(plan'.prompt, start', HasRun' - 1)
        <5>1. HasRun' > 0 /\ HasRun' - 1 = r
          BY <3>1, <3>2, <3>3
        <5>2. a \in Nat
          BY <3>3, <4>2, <4>4 DEF At
        <5>3. bad' => bad \/ g = a
          BY <1>3, <4>1, <4>3, <4>4, Zenon
        <5>4. g < a \/ g = a => g <= a
          BY <4>2, <5>2
        <5>5. bad' => g <= a
          BY <4>6, <5>3, <5>4, Zenon
        <5> QED
          BY <1>1, <4>1, <4>4, <5>1, <5>5
      <4>9. ASSUME NEW j \in yielded..r
            PROVE  /\ g > At(P, S, j) => result'[At(P, S, j)] = P + j + 1
                   /\ g = At(P, S, j) => result'[At(P, S, j)] = Error
        <5>1. CASE j = r
          <6>1. a \in Nat
            BY <3>3, <4>2, <4>4 DEF At
          <6>2. g > a => result'[a] = P + r + 1
            BY <4>2, <4>6, <4>7, <6>1
          <6>3. g = a => result'[a] = Error
            BY <4>7
          <6> QED
            BY <4>4, <5>1, <6>2, <6>3
        <5>2. CASE j # r
          <6>1. j \in yielded..(r - 1) /\ j \in Nat
            BY <3>3, <5>2
          <6>2. At(P, S, j) < At(P, S, r) /\ At(P, S, j) \in Nat /\ a \in Nat
            BY <3>3, <4>2, <4>4, <6>1 DEF At
          <6>3. At(P, S, j) \in 0..Window /\ At(P, S, j) # a
            BY <1>8, <4>3, <4>4, <6>2, GeneratorAssumption
          <6>4. result'[At(P, S, j)] = result[At(P, S, j)]
            BY <4>7, <6>3
          <6> QED
            BY <4>5, <6>1, <6>4
        <5> QED
          BY <5>1, <5>2
      <4>10. \A j \in yielded'..(HasRun' - 1) :
               /\ plan'.gpu > At(plan'.prompt, start', j) =>
                    result'[At(plan'.prompt, start', j)] = plan'.prompt + j + 1
               /\ plan'.gpu = At(plan'.prompt, start', j) =>
                    result'[At(plan'.prompt, start', j)] = Error
        <5>1. yielded' = yielded /\ HasRun' - 1 = r
          BY <1>1, <3>1, <3>2, <3>3 DEF iter
        <5> QED
          BY <1>1, <4>1, <4>9, <5>1
      <4> QED
        BY <1>1, <2>2, <4>8, <4>10 DEF IInv, Answered, iter
    <3> QED
      BY <3>6, <3>7, <3>8
  <2> QED
    BY <2>1, <2>2
<1> QED
  BY <1>12, <1>14, <1>16, <1>17, <1>18 DEF IInv
-----------------------------------------------------------------------------
\* Every step keeps the invariant.
LEMMA NextIInv == IInv /\ [Next]_vars => IInv'
<1> SUFFICES ASSUME IInv, [Next]_vars PROVE IInv'
  OBVIOUS
<1>1. CASE \E d \in Depths : SetDepth(d)
  BY <1>1, SetDepthStep
<1>2. CASE \E oom \in BOOLEAN : ClientReset(oom)
  BY <1>2, ClientResetStep
<1>3. CASE \E p \in Plans : Begin(p)
  BY <1>3, BeginStep
<1>4. CASE Refused
  BY <1>4, RefusedStep
<1>5. CASE Call
  BY <1>5, CallStep
<1>6. CASE Drop
  BY <1>6, DropStep
<1>7. CASE ProfiledDecodeStep
  BY <1>7, ProfiledDecodeStepStep
<1>8. CASE FillChunk
  BY <1>8, FillChunkStep
<1>9. CASE PrefillSync
  BY <1>9, PrefillSyncStep
<1>10. CASE FirstToken
  BY <1>10, FirstTokenStep
<1>11. CASE Advance
  BY <1>11, AdvanceStep
<1>12. CASE Pop
  BY <1>12, PopStep
<1>13. CASE Read
  BY <1>13, ReadStep
<1>14. CASE Dropped
  BY <1>14, DroppedStep
<1>15. CASE Run
  BY <1>15, RunStep
<1>16. CASE UNCHANGED vars
  <2>1. UNCHANGED <<caches, inflight_depth, phase, plan, start, depth, inflight, next_id, yielded,
                    done, deferred_err, front, gpu, result, bad, items, calls>>
    BY <1>16 DEF vars, iter
  <2>2. TypeOK'
    BY <2>1 DEF IInv, TypeOK
  <2>3. Quiet' /\ Filling'
    BY <2>1 DEF IInv, Quiet, Outside, Filling
  <2>4. Ahead'
    BY <2>1 DEF IInv, Ahead, Sent
  <2>5. Sent' = Sent /\ HasRun' = HasRun /\ Going' = Going
    BY <2>1 DEF Sent, HasRun, Going
  <2>6. Pipelined'
    BY <2>1, <2>5 DEF IInv, Pipelined
  <2>7. Committing'
    BY <2>1, <2>5 DEF IInv, Committing
  <2>8. Answered'
    BY <2>1, <2>5 DEF IInv, Answered
  <2> QED
    BY <2>2, <2>3, <2>4, <2>6, <2>7, <2>8 DEF IInv
<1> QED
  BY <1>1, <1>2, <1>3, <1>4, <1>5, <1>6, <1>7, <1>8, <1>9, <1>10, <1>11, <1>12, <1>13, <1>14,
     <1>15, <1>16 DEF Next, Host

\* The invariant always holds.
LEMMA Always == Spec => []IInv
<1>1. Init => IInv
  BY InitIInv
<1>2. IInv /\ [Next]_vars => IInv'
  BY NextIInv
<1> QED
  BY <1>1, <1>2, PTL DEF Spec

\* The fields of the generator and its iterator keep their ranges, and no KvCache
\* ever holds more than the context window (generator.rs:26-32, 275-297).
THEOREM GeneratorTyped == Spec => []TypeOK
<1>1. IInv => TypeOK
  BY DEF IInv
<1> QED
  BY <1>1, Always, PTL

\* For every depth, no more than max_new_tokens forwards are ever committed, and at
\* most depth of them are left over when an item is returned (generator.rs:303-306).
THEOREM GeneratorLookahead == Spec => []LookaheadBounded
<1>1. IInv => LookaheadBounded
  <2>1. ASSUME IInv PROVE yielded + Len(inflight) + Len(front) <= plan.new
    <3>1. PICK a, b, c, n : a = yielded /\ b = Len(inflight) /\ c = Len(front) /\ n = plan.new
      OBVIOUS
    <3>2. a \in Nat /\ b \in Nat /\ c \in Nat
      BY <2>1, <3>1, GeneratorAssumption DEF IInv, TypeOK
    <3>3. a + c + b <= n
      BY <2>1, <3>1 DEF IInv, Ahead, Sent
    <3>4. a + b + c <= n
      <4>1. a + b + c = a + c + b
        BY <3>2
      <4> QED
        BY <3>3, <4>1
    <3> QED
      BY <3>1, <3>4
  <2>2. ASSUME IInv PROVE phase = "idle" /\ items # <<>> => Len(inflight) <= depth
    BY <2>2 DEF IInv, Ahead
  <2> QED
    BY <2>1, <2>2 DEF LookaheadBounded
<1> QED
  BY <1>1, Always, PTL

\* While a call goes well, every layer of any model has absorbed exactly the prompt
\* and the tokens committed after it, in order and with nothing left uncommitted,
\* whatever the calls before left behind (generator.rs:96-103, 339-345).
THEOREM GeneratorInStep == Spec => []InStep
<1>1. IInv => InStep
  <2> SUFFICES ASSUME IInv, phase \in {"idle", "commit", "wait"}, ~deferred_err, ~done
               PROVE  \A l \in Layers :
                        caches[l] = [rows |-> [r \in 1..(plan.prompt + yielded + Len(inflight)
                                                           + Len(front) - 1) |-> r],
                                     dirty |-> FALSE]
    BY DEF InStep
  <2>1. Going
    BY DEF Going
  <2>2. caches = Absorbed(plan.prompt + Sent - 1)
    BY <2>1 DEF IInv, Committing
  <2>3. plan.prompt + yielded + Len(inflight) + Len(front) - 1 = plan.prompt + Sent - 1
    <3>1. PICK p, y, i, f : /\ p = plan.prompt /\ y = yielded
                            /\ i = Len(inflight) /\ f = Len(front)
      OBVIOUS
    <3>2. p \in Nat /\ y \in Nat /\ i \in Nat /\ f \in Nat
      BY <2>1, <3>1, GoingFacts
    <3>3. Sent = y + f + i
      BY <3>1 DEF Sent
    <3>4. p + y + i + f - 1 = p + (y + f + i) - 1
      BY ONLY <3>2
    <3> QED
      BY ONLY <3>1, <3>3, <3>4
  <2> QED
    BY <2>2, <2>3 DEF Absorbed
<1> QED
  BY <1>1, Always, PTL

-----------------------------------------------------------------------------
\* Nothing is lost: every cache keeps at least the rows it had.
Grows == caches # <<>> => /\ caches' \in [Layers -> Cache]
                          /\ \A l \in Layers : Len(caches[l].rows) <= Len(caches'[l].rows)

\* A step that loses nothing shrinks nothing.
LEMMA GrowsOnly ==
  ASSUME TypeOK, Grows
  PROVE  ~Shrinks
<1>1. CASE caches = <<>>
  BY <1>1 DEF Shrinks
<1>2. CASE caches # <<>>
  <2>1. /\ caches' \in [Layers -> Cache]
        /\ \A l \in Layers : Len(caches[l].rows) <= Len(caches'[l].rows)
    BY <1>2 DEF Grows
  <2>2. caches \in [Layers -> Cache]
    BY <1>2 DEF TypeOK, Cache
  <2>3. caches' # <<>>
    BY <2>1, CachesExist
  <2>4. ASSUME NEW l \in Layers PROVE ~(Len(caches'[l].rows) < Len(caches[l].rows))
    <3>1. Len(caches[l].rows) \in Nat /\ Len(caches'[l].rows) \in Nat
      BY <2>1, <2>2 DEF Cache
    <3> QED
      BY <2>1, <3>1
  <2> QED
    BY <2>1, <2>2, <2>3, <2>4 DEF Shrinks
<1> QED
  BY <1>1, <1>2

\* Caches nobody touches lose nothing.
LEMMA SameGrows ==
  ASSUME TypeOK, caches' = caches
  PROVE  Grows
<1>1. caches # <<>> => caches \in [Layers -> Cache]
  BY DEF TypeOK, Cache
<1>2. caches # <<>> => \A l \in Layers : Len(caches[l].rows) \in Nat
  BY <1>1 DEF Cache
<1> QED
  BY <1>1, <1>2 DEF Grows

\* The prefill only adds rows.
LEMMA PrefillGrows ==
  ASSUME IInv, phase = "prefill", NEW n \in Nat, start + n <= Window,
         NEW o \in Forward(Prompt(start, n), plan.host = start),
         caches' = o.caches \/ caches' = Committed(o.caches)
  PROVE  Grows
<1>1. /\ o.caches \in [Layers -> Cache]
      /\ \A l \in Layers : Len(caches[l].rows) <= Len(o.caches[l].rows)
  BY PrefillForward
<1> QED
  BY <1>1, CommittedKeeps DEF Grows

\* A decode step only adds rows.
LEMMA DecodeGrows ==
  ASSUME IInv, Advance
  PROVE  Grows
<1>1. phase = "commit" /\ CommitMore /\ Going
  BY DEF Advance, IInv, Quiet, Going
<1>2. plan.prompt + yielded + Len(inflight) - 1 = plan.prompt + Sent - 1
  <2>1. PICK p, y, i : p = plan.prompt /\ y = yielded /\ i = Len(inflight)
    OBVIOUS
  <2>2. p \in Nat /\ y \in Nat /\ i \in Nat
    BY <1>1, <2>1, GoingFacts
  <2>3. Sent = y + 0 + i
    BY <1>1, <2>1 DEF Sent, IInv, Quiet
  <2>4. p + y + i - 1 = p + Sent - 1
    BY ONLY <2>2, <2>3
  <2> QED
    BY <2>1, <2>4
<1>3. PICK o \in Forward(<<next_id>>, plan.host = plan.prompt + Sent - 1) :
        caches' = o.caches \/ caches' = Committed(o.caches)
  BY <1>2 DEF Advance, Push
<1>4. /\ o.caches \in [Layers -> Cache]
      /\ \A l \in Layers : Len(caches[l].rows) <= Len(o.caches[l].rows)
  BY <1>1, DecodeForward
<1> QED
  BY <1>3, <1>4, CommittedKeeps DEF Grows

\* When a cache is rewound or thrown away, no committed batch is still to run, so no
\* kernel can write a slab that is being reset: the duty kv_cache.rs:330-333 leaves
\* to its caller (generator.rs:96-103).
THEOREM GeneratorRewindQuiet == Spec => RewindQuiet
<1>1. IInv /\ [Next]_vars => [Shrinks => gpu = <<>>]_vars
  <2> SUFFICES ASSUME IInv, Next PROVE ~Shrinks \/ gpu = <<>>
    OBVIOUS
  <2>0. TypeOK
    BY DEF IInv
  <2>1. CASE phase \in {"none", "refused"} \/ Dropped
    BY <2>1, OutsideFacts, DroppedStep DEF Outside
  <2>2. CASE FillChunk
    <3>1. phase = "prefill" /\ Chunk \in Nat /\ start + Chunk <= Window
      <4>1. phase = "prefill" /\ MoreChunks
        BY <2>2 DEF FillChunk
      <4> QED
        BY <4>1, PrefillFacts, GeneratorAssumption DEF MoreChunks
    <3>2. PICK o \in Forward(Prompt(start, Chunk), plan.host = start) :
            caches' = o.caches \/ caches' = Committed(o.caches)
      BY <2>2 DEF FillChunk
    <3> QED
      BY <2>0, <3>1, <3>2, PrefillGrows, GrowsOnly
  <2>3. CASE PrefillSync \/ FirstToken
    <3>1. phase = "prefill"
      BY <2>3 DEF PrefillSync, FirstToken
    <3>2. PICK n : n = plan.prompt - start
      OBVIOUS
    <3>3. n \in Nat /\ start + n <= Window
      BY <3>1, <3>2, PrefillFacts, GeneratorAssumption
    <3>4. PICK o \in Forward(Prompt(start, n), plan.host = start) :
            caches' = o.caches \/ caches' = Committed(o.caches)
      BY <2>3, <3>2 DEF PrefillSync, FirstToken, Push
    <3> QED
      BY <2>0, <3>1, <3>3, <3>4, PrefillGrows, GrowsOnly
  <2>4. CASE Advance
    BY <2>0, <2>4, DecodeGrows, GrowsOnly
  <2>5. CASE Call \/ Drop \/ Pop \/ Read \/ Run
    <3>1. caches' = caches
      BY <2>5 DEF Call, Drop, Pop, Read, Run
    <3> QED
      BY <2>0, <3>1, SameGrows, GrowsOnly
  <2> QED
    BY <2>1, <2>2, <2>3, <2>4, <2>5
    DEF Next, Host, SetDepth, ClientReset, Begin, Refused, ProfiledDecodeStep
<1> QED
  BY <1>1, Always, PTL DEF Spec, RewindQuiet
-----------------------------------------------------------------------------
\* What the caller sees of a call's end.
Ended == done \/ (items # <<>> /\ items[Len(items)] = Error)

\* While the call goes on, the caller has received tokens only.
LEMMA GoingItems ==
  ASSUME IInv, Going
  PROVE  /\ items \in Seq(0..Window) /\ Len(items) = yielded /\ ~Ended
<1>1. yielded \in Nat /\ plan.prompt \in Nat
  BY GoingFacts
<1>2. items = [i \in 1..yielded |-> plan.prompt + i] /\ items \in Seq(0..Window)
  BY DEF IInv, Answered, TypeOK
<1>3. Len(items) = yielded
  BY <1>1, <1>2
<1>4. ASSUME items # <<>> PROVE items[Len(items)] # Error
  <2>1. yielded > 0
    BY <1>1, <1>2, <1>3, <1>4
  <2> QED
    BY <1>1, <1>2, <1>3, <2>1 DEF Error
<1> QED
  BY <1>2, <1>3, <1>4 DEF Ended, Going

\* A step the caller cannot tell from none.
LEMMA Unseen ==
  ASSUME UNCHANGED <<plan, items, done>>
  PROVE  UNCHANGED Greedy!vars
  BY DEF Greedy!vars

\* A step that hands one more item to the caller.
LEMMA YieldStep ==
  ASSUME IInv, phase # "none", ~Ended, NEW i, i = Greedy!Item(plan, Len(items)),
         items \in Seq(0..Window), i \in 0..Window, items' = Append(items, i),
         done' \/ i = Error <=> i \in {Error, plan.eos} \/ Len(items) + 1 = plan.new,
         plan' = plan
  PROVE  Greedy!Yield
<1>1. plan # NoCall
  BY DEF IInv, Quiet
<1>2. items' # <<>> /\ items'[Len(items')] = i
  <2>1. PICK T : T = 0..Window
    OBVIOUS
  <2>2. items \in Seq(T) /\ i \in T
    BY <2>1
  <2> QED
    BY <2>2
<1>3. (done \/ (items # <<>> /\ items[Len(items)] = Error))' =
        (i \in {Error, plan.eos} \/ Len(items) + 1 = plan.new)
  BY <1>2, Zenon
<1> QED
  BY <1>1, <1>3 DEF Greedy!Yield, Ended

\* A step that ends the call.
LEMMA EndStep ==
  ASSUME IInv, phase # "none", Over
  PROVE  Greedy!End
<1>1. plan # NoCall
  BY DEF IInv, Quiet
<1>2. plan' = NoCall /\ items' = <<>> /\ done' = FALSE
  BY DEF Over, NoIterator
<1> QED
  BY <1>1, <1>2 DEF Greedy!End

\* A prefill that fails: a forward of the prompt is the one that fails.
LEMMA RefuseYields ==
  ASSUME IInv, phase = "prefill", plan.host = start \/ plan.gpu = start, Refuse,
         plan' = plan, done' = done
  PROVE  Greedy!Yield
<1>1. /\ start \in Nat /\ plan.prompt \in Nat /\ start < plan.prompt
      /\ items = <<>> /\ ~done
  BY PrefillFacts
<1>2. start + 2 <= plan.prompt + 0 + 1
  BY <1>1
<1>3. Greedy!Item(plan, Len(items)) = Error
  BY <1>1, <1>2 DEF Greedy!Item
<1>4. /\ items \in Seq(0..Window) /\ Error \in 0..Window
      /\ items' = Append(items, Error) /\ ~Ended
  BY <1>1, GeneratorAssumption DEF Refuse, Error, Ended
<1> QED
  BY <1>3, <1>4, YieldStep

\* The stashed error of a forward that failed ahead comes in its place.
LEMMA PopYields ==
  ASSUME IInv, Pop, inflight = <<>>
  PROVE  Greedy!Yield
<1>1. phase = "commit" /\ Going /\ front = <<>> /\ ~CommitMore
  BY DEF Pop, IInv, Quiet, Going
<1>2. /\ Len(inflight) = 0 /\ Len(front) = 0 /\ yielded \in Nat /\ plan.new \in Nat
      /\ yielded < plan.new /\ depth \in Depths /\ plan.prompt \in Nat /\ plan.host \in Nat
  BY <1>1, GoingFacts
<1>3. deferred_err
  <2>1. Saturating(depth) \in Nat /\ Saturating(depth) > 0
    BY <1>2, GeneratorAssumption DEF Saturating
  <2> QED
    BY <1>1, <1>2, <2>1 DEF CommitMore
<1>4. Sent = yielded
  BY <1>2 DEF Sent
<1>5. plan.host = plan.prompt + yielded - 1
  BY <1>1, <1>3, <1>4 DEF IInv, Committing
<1>6. plan.host + 2 <= plan.prompt + yielded + 1
  BY <1>2, <1>5
<1>7. items \in Seq(0..Window) /\ Len(items) = yielded /\ ~Ended
  BY <1>1, GoingItems
<1>8. Greedy!Item(plan, Len(items)) = Error
  BY <1>6, <1>7 DEF Greedy!Item
<1>9. items' = Append(items, Error) /\ done' /\ plan' = plan /\ Error \in 0..Window
  BY <1>3, GeneratorAssumption DEF Pop, Error
<1> QED
  BY <1>1, <1>7, <1>8, <1>9, YieldStep

\* What next() returns is the item of a decoder without lookahead.
LEMMA ReadYields ==
  ASSUME IInv, Read
  PROVE  Greedy!Yield
<1>1. phase = "wait" /\ Going /\ Len(front) = 1
  BY DEF Read, IInv, Quiet, Going
<1>2. PICK id : id = result[front[1].at]
  OBVIOUS
<1>3. /\ items' = Append(items, id) /\ plan' = plan
      /\ yielded' = IF id = Error THEN yielded ELSE yielded + 1
      /\ done' = (id \in {Error, plan.eos} \/ yielded' >= plan.new)
  BY <1>2 DEF Read
<1>4. items \in Seq(0..Window) /\ Len(items) = yielded /\ ~Ended
  BY <1>1, GoingItems
<1>5. PICK p, n, g, h, y : /\ p = plan.prompt /\ n = plan.new /\ g = plan.gpu
                           /\ h = plan.host /\ y = yielded
  OBVIOUS
<1>6. /\ p \in Nat /\ n \in Nat /\ g \in Nat /\ h \in Nat /\ y \in Nat /\ y < n
      /\ start \in 0..(p - 1) /\ Len(inflight) \in Nat
  BY <1>1, <1>5, GoingFacts
<1>7. /\ id \in 0..Window
      /\ \/ g = At(p, start, y) /\ id = Error
         \/ g > At(p, start, y) /\ id = p + y + 1
  BY <1>2, <1>5, ReadItem
<1>8. h >= p + y
  <2>1. h >= p + Sent - 1
    BY <1>1, <1>5 DEF IInv, Committing
  <2>2. Sent = y + 1 + Len(inflight)
    BY <1>1, <1>5 DEF Sent
  <2> QED
    BY <1>6, <2>1, <2>2
<1>9. CASE id = Error
  <2>1. g = At(p, start, y)
    BY <1>6, <1>7, <1>9 DEF Error
  <2>2. g + 2 <= p + y + 1
    BY <1>6, <2>1 DEF At
  <2>3. Greedy!Item(plan, Len(items)) = Error
    BY <1>4, <1>5, <2>2 DEF Greedy!Item
  <2> QED
    BY <1>1, <1>3, <1>4, <1>7, <1>9, <2>3, YieldStep
<1>10. CASE id # Error
  <2>1. g > At(p, start, y) /\ id = p + y + 1
    BY <1>7, <1>10
  <2>2. g = start \/ g >= p
    BY <1>1, <1>5 DEF IInv, Answered
  <2>3. ~(g + 2 <= p + y + 1)
    BY <1>6, <2>1, <2>2 DEF At
  <2>4. ~(h + 2 <= p + y + 1)
    BY <1>6, <1>8
  <2>5. Greedy!Item(plan, Len(items)) = id
    BY <1>4, <1>5, <2>1, <2>3, <2>4 DEF Greedy!Item
  <2>6. yielded' >= plan.new <=> Len(items) + 1 = plan.new
    BY <1>3, <1>4, <1>5, <1>6, <1>10
  <2>7. done' \/ id = Error <=> id \in {Error, plan.eos} \/ Len(items) + 1 = plan.new
    BY <1>3, <2>6, Zenon
  <2> QED
    BY <1>1, <1>3, <1>4, <1>7, <2>5, <2>7, YieldStep
<1> QED
  BY <1>9, <1>10

\* A call starts, or is refused for want of memory.
LEMMA BeginBegins ==
  ASSUME IInv, NEW p \in Plans, Begin(p)
  PROVE  Greedy!Begin
<1>1. plan = NoCall /\ ~done /\ plan' = p /\ done' = done
  BY OutsideFacts DEF Begin, Outside, iter
<1>2. CASE caches' = <<>>
  <2>1. p.oom
    <3>1. Absorbed(0) # <<>>
      BY AbsorbedTyped, CachesExist
    <3> QED
      BY <1>2, <3>1, ResetTyped DEF Begin
  <2>2. items' = <<Error>>
    BY <1>2 DEF Begin
  <2>3. items' # <<>> /\ items'[Len(items')] = Error
    BY <2>2
  <2>4. (done \/ (items # <<>> /\ items[Len(items)] = Error))' = TRUE
    BY <2>3
  <2> QED
    BY <1>1, <2>1, <2>2, <2>4 DEF Greedy!Begin
<1>3. CASE caches' # <<>>
  <2>1. items' = <<>>
    BY <1>3 DEF Begin
  <2>2. (done \/ (items # <<>> /\ items[Len(items)] = Error))' = FALSE
    BY <1>1, <2>1
  <2> QED
    BY <1>1, <2>1, <2>2 DEF Greedy!Begin
<1> QED
  BY <1>2, <1>3

\* Every step is a step of the decoder without lookahead, or none.
LEMMA GreedyNext ==
  ASSUME IInv, [Next]_vars
  PROVE  [Greedy!Next]_Greedy!vars
<1>1. CASE \/ UNCHANGED vars \/ (\E d \in Depths : SetDepth(d))
           \/ (\E oom \in BOOLEAN : ClientReset(oom))
           \/ ProfiledDecodeStep \/ Call \/ Drop \/ Advance \/ Run
  BY <1>1, Unseen DEF vars, iter, SetDepth, ClientReset, ProfiledDecodeStep, Call, Drop, Advance, Run
<1>2. CASE \E p \in Plans : Begin(p)
  BY <1>2, BeginBegins DEF Greedy!Next
<1>3. CASE Refused \/ Dropped
  BY <1>3, EndStep DEF Refused, Dropped, Greedy!Next
<1>4. CASE FillChunk
  <2>1. phase = "prefill" /\ Chunk \in Nat /\ start + Chunk <= Window
    <3>1. phase = "prefill" /\ MoreChunks
      BY <1>4 DEF FillChunk
    <3> QED
      BY <3>1, PrefillFacts, GeneratorAssumption DEF MoreChunks
  <2>2. PICK o \in Forward(Prompt(start, Chunk), plan.host = start) :
          IF o.ok /\ plan.gpu # start THEN UNCHANGED items ELSE Refuse
    BY <1>4 DEF FillChunk
  <2>3. o.ok = (plan.host # start) /\ o.ok \in BOOLEAN
    BY <2>1, PrefillForward
  <2>4. plan' = plan /\ done' = done
    BY <1>4 DEF FillChunk, iter
  <2>5. CASE o.ok /\ plan.gpu # start
    BY <2>2, <2>4, <2>5, Unseen
  <2>6. CASE ~(o.ok /\ plan.gpu # start)
    BY <2>1, <2>2, <2>3, <2>4, <2>6, RefuseYields DEF Greedy!Next
  <2> QED
    BY <2>5, <2>6
<1>5. CASE PrefillSync
  <2>1. phase = "prefill"
    BY <1>5 DEF PrefillSync
  <2>2. PICK n : n = plan.prompt - start
    OBVIOUS
  <2>3. n \in Nat /\ start + n <= Window
    BY <2>1, <2>2, PrefillFacts, GeneratorAssumption
  <2>4. PICK o \in Forward(Prompt(start, n), plan.host = start) :
          IF o.ok /\ plan.gpu # start THEN Over ELSE Refuse /\ UNCHANGED <<plan, iter>>
    BY <1>5, <2>2 DEF PrefillSync
  <2>5. o.ok = (plan.host # start) /\ o.ok \in BOOLEAN
    BY <2>1, <2>3, PrefillForward
  <2>6. CASE o.ok /\ plan.gpu # start
    BY <2>1, <2>4, <2>6, EndStep DEF Greedy!Next
  <2>7. CASE ~(o.ok /\ plan.gpu # start)
    <3>1. Refuse /\ plan' = plan /\ done' = done
      BY <2>4, <2>7 DEF iter
    <3> QED
      BY <2>1, <2>5, <2>7, <3>1, RefuseYields DEF Greedy!Next
  <2> QED
    BY <2>6, <2>7
<1>6. CASE FirstToken
  <2>1. phase = "prefill"
    BY <1>6 DEF FirstToken
  <2>2. PICK n : n = plan.prompt - start
    OBVIOUS
  <2>3. n \in Nat /\ start + n <= Window
    BY <2>1, <2>2, PrefillFacts, GeneratorAssumption
  <2>4. PICK o \in Forward(Prompt(start, n), plan.host = start) :
          IF o.ok THEN UNCHANGED items ELSE Refuse
    BY <1>6, <2>2 DEF FirstToken
  <2>5. o.ok = (plan.host # start) /\ o.ok \in BOOLEAN
    BY <2>1, <2>3, PrefillForward
  <2>6. plan' = plan /\ done' = done
    BY <1>6 DEF FirstToken
  <2>7. CASE o.ok
    BY <2>4, <2>6, <2>7, Unseen
  <2>8. CASE ~o.ok
    BY <2>1, <2>4, <2>5, <2>6, <2>8, RefuseYields DEF Greedy!Next
  <2> QED
    BY <2>7, <2>8
<1>7. CASE Pop
  <2>1. CASE inflight = <<>>
    BY <1>7, <2>1, PopYields DEF Greedy!Next
  <2>2. CASE inflight # <<>>
    BY <1>7, <2>2, Unseen DEF Pop
  <2> QED
    BY <2>1, <2>2
<1>8. CASE Read
  BY <1>8, ReadYields DEF Greedy!Next
<1> QED
  BY <1>1, <1>2, <1>3, <1>4, <1>5, <1>6, <1>7, <1>8 DEF Next, Host

\* At every depth, for every plan of failures and whatever became of the calls
\* before, the caller receives exactly what a decoder without lookahead gives it:
\* the same tokens, then the error in its place or the end (generator.rs:188-190,
\* 700-759).
THEOREM GeneratorGreedy == Spec => ImplementsGreedy
<1>1. Init => Greedy!Init
  BY DEF Init, Greedy!Init
<1>2. IInv /\ [Next]_vars => [Greedy!Next]_Greedy!vars
  BY GreedyNext
<1> QED
  BY <1>1, <1>2, Always, PTL DEF Spec, ImplementsGreedy, Greedy!Spec
=============================================================================
