---------------------------- MODULE BufferPool ----------------------------
(***************************************************************************)
(* The cross-token buffer pool of cider-press-runtime: a size-keyed        *)
(* free-list of MTLBuffers under a byte cap (buffer_pool.rs), the          *)
(* allocation entry point that draws from it (Device::alloc_pooled) and    *)
(* the owning handle that gives the buffer back when it drops              *)
(* (PooledBuffer).                                                         *)
(*                                                                         *)
(* A buffer is held by at most one handle.  The handle is "raw" from       *)
(* alloc_pooled until eval wraps it (Device::pooled): an eval that fails   *)
(* in between drops the raw buffer, which releases it to Metal; a wrapped  *)
(* one goes back to the pool.                                              *)
(***************************************************************************)
EXTENDS Integers, Sequences, FiniteSets, Functions

CONSTANTS Buffers,    \* identities of MTLBuffers (an identity may be reused)
          Sizes,      \* requested byte lengths, the keys of the free-list
          Caps,       \* the ceilings set_pool_cap is called with
          DefaultCap, \* the ceiling the pool starts with
          MaxTakes    \* bound: calls of alloc_pooled

ASSUME PoolAssumption == /\ Sizes \subseteq Nat \ {0} /\ IsFiniteSet(Sizes)
                         /\ Caps \subseteq Nat
                         /\ DefaultCap \in Nat
                         /\ MaxTakes \in Nat

VARIABLES
  free,             \* free[s]: the stack of recycled buffers of s bytes
  pooled_bytes, cap_bytes, hits, misses, high_water_bytes,
  alive,            \* the pool exists: a PooledBuffer's Weak still upgrades
  handle,           \* handle[b]: "none", "raw" (alloc_pooled's result) or "pooled"
  tag,              \* tag[b]: the free-list key travelling with the handle, 0 if none
  len               \* len[b]: the length Metal allocated b for, 0 if released

vars == <<free, pooled_bytes, cap_bytes, hits, misses, high_water_bytes,
          alive, handle, tag, len>>

counters == <<pooled_bytes, high_water_bytes>>

InFree(b) == \E s \in Sizes : \E i \in DOMAIN free[s] : free[s][i] = b

Larger(m, n) == IF m >= n THEN m ELSE n

Init == /\ free = [s \in Sizes |-> <<>>]
        /\ pooled_bytes = 0 /\ cap_bytes = DefaultCap
        /\ hits = 0 /\ misses = 0 /\ high_water_bytes = 0
        /\ alive = TRUE
        /\ handle = [b \in Buffers |-> "none"]
        /\ tag = [b \in Buffers |-> 0]
        /\ len = [b \in Buffers |-> 0]
-----------------------------------------------------------------------------
\* Mutant: the newest buffer is handed out without leaving the free-list.
TakeHitPeek(s) ==
  LET n == Len(free[s]) IN
  /\ n > 0
  /\ hits' = hits + 1
  /\ handle' = [handle EXCEPT ![free[s][n]] = "raw"]
  /\ tag' = [tag EXCEPT ![free[s][n]] = s]
  /\ UNCHANGED <<free, pooled_bytes, misses, high_water_bytes, len>>

\* Mutant: any recycled buffer that is large enough will do.
TakeHitFits(s) ==
  \E t \in {x \in Sizes : x >= s /\ free[x] # <<>>} :
    LET n == Len(free[t]) IN
    /\ free' = [free EXCEPT ![t] = SubSeq(@, 1, n - 1)]
    /\ pooled_bytes' = pooled_bytes - t
    /\ hits' = hits + 1
    /\ handle' = [handle EXCEPT ![free[t][n]] = "raw"]
    /\ tag' = [tag EXCEPT ![free[t][n]] = s]
    /\ UNCHANGED <<misses, high_water_bytes, len>>

\* BufferPool::take found a buffer of exactly s bytes: pop the newest one.
TakeHit(s) ==
  LET n == Len(free[s]) IN
  /\ n > 0
  /\ free' = [free EXCEPT ![s] = SubSeq(@, 1, n - 1)]
  /\ pooled_bytes' = pooled_bytes - s
  /\ hits' = hits + 1
  /\ handle' = [handle EXCEPT ![free[s][n]] = "raw"]
  /\ tag' = [tag EXCEPT ![free[s][n]] = s]
  /\ UNCHANGED <<misses, high_water_bytes, len>>

\* Mutant: the key is the rounded allocation instead of the requested length.
TakeMissRounded(s) ==
  /\ free[s] = <<>>
  /\ misses' = misses + 1
  /\ \E b \in Buffers :
       /\ len[b] = 0
       /\ len' = [len EXCEPT ![b] = s]
       /\ handle' = [handle EXCEPT ![b] = "raw"]
       /\ tag' = [tag EXCEPT ![b] = s + 16]
  /\ UNCHANGED <<free, pooled_bytes, high_water_bytes, hits>>

\* BufferPool::take missed, so Metal allocates.  The identity Metal returns is
\* one no live buffer has.
TakeMiss(s) ==
  /\ free[s] = <<>>
  /\ misses' = misses + 1
  /\ \E b \in Buffers :
       /\ len[b] = 0
       /\ len' = [len EXCEPT ![b] = s]
       /\ handle' = [handle EXCEPT ![b] = "raw"]
       /\ tag' = [tag EXCEPT ![b] = s]
  /\ UNCHANGED <<free, pooled_bytes, high_water_bytes, hits>>

\* The same miss with Metal refusing the allocation: only the miss is counted.
TakeFails(s) ==
  /\ free[s] = <<>>
  /\ misses' = misses + 1
  /\ UNCHANGED <<free, pooled_bytes, high_water_bytes, hits, handle, tag, len>>

AllocPooled(s) == /\ alive
                  /\ hits + misses < MaxTakes
                  /\ TakeHit(s) \/ TakeMiss(s) \/ TakeFails(s)
                  /\ UNCHANGED <<cap_bytes, alive>>

\* Device::pooled wraps a raw buffer with the key it was allocated under.
Wrap(b) == /\ handle[b] = "raw"
           /\ handle' = [handle EXCEPT ![b] = "pooled"]
           /\ UNCHANGED <<free, counters, cap_bytes, hits, misses, alive, tag, len>>

\* The last handle goes and b is released to Metal.
Release(b) == /\ handle' = [handle EXCEPT ![b] = "none"]
              /\ tag' = [tag EXCEPT ![b] = 0]
              /\ len' = [len EXCEPT ![b] = 0]
              /\ UNCHANGED <<free, counters>>

\* An eval failed before wrapping: its raw output buffers just drop.
DropRaw(b) == /\ handle[b] = "raw"
              /\ Release(b)
              /\ UNCHANGED <<cap_bytes, hits, misses, alive>>

\* BufferPool::give: keep the buffer unless that would exceed the cap.
Give(b, s) ==
  \/ /\ pooled_bytes + s > cap_bytes
     /\ Release(b)
  \/ /\ pooled_bytes + s <= cap_bytes
     /\ free' = [free EXCEPT ![s] = Append(@, b)]
     /\ pooled_bytes' = pooled_bytes + s
     /\ high_water_bytes' = Larger(high_water_bytes, pooled_bytes + s)
     /\ handle' = [handle EXCEPT ![b] = "none"]
     /\ tag' = [tag EXCEPT ![b] = 0]
     /\ UNCHANGED len

\* PooledBuffer::drop: back to the pool, or to Metal if the pool is gone.
DropPooled(b) ==
  /\ handle[b] = "pooled"
  /\ IF alive THEN Give(b, tag[b]) ELSE Release(b)
  /\ UNCHANGED <<cap_bytes, hits, misses, alive>>

\* Bytes waiting in the buckets of S.
BytesIn(S) == SumFunctionOnSet([x \in Sizes |-> x * Len(free[x])], S)

\* Mutant: only the bytes popped from the last bucket are subtracted.
PoppedLast(gone, s, n) == s * n

\* Bytes popped once the buckets in gone are emptied and n buffers popped from
\* bucket s.
Popped(gone, s, n) == BytesIn(gone) + s * n

\* Mutant: a shrink clears the free-list.
SetCapClears(c) ==
  /\ alive
  /\ cap_bytes' = c
  /\ IF pooled_bytes <= c
     THEN UNCHANGED <<free, pooled_bytes, len>>
     ELSE /\ free' = [s \in Sizes |-> <<>>]
          /\ pooled_bytes' = 0
          /\ len' = [b \in Buffers |-> IF InFree(b) THEN 0 ELSE len[b]]
  /\ UNCHANGED <<hits, misses, high_water_bytes, alive, handle, tag>>

\* BufferPool::set_cap.  The buckets are visited in the order of a hash map,
\* which is unspecified: those visited before the last one end up empty, the
\* last one is popped until the cap is met and no further.
SetCap(c) ==
  /\ alive
  /\ cap_bytes' = c
  /\ \/ /\ pooled_bytes <= c
        /\ UNCHANGED <<free, pooled_bytes, len>>
     \/ /\ pooled_bytes > c
        /\ \E gone \in SUBSET Sizes : \E s \in Sizes \ gone : \E n \in 1..Len(free[s]) :
             /\ pooled_bytes - Popped(gone, s, n) <= c
             /\ pooled_bytes - Popped(gone, s, n - 1) > c
             /\ free' = [x \in Sizes |->
                           IF x \in gone THEN <<>>
                           ELSE IF x = s THEN SubSeq(free[s], 1, Len(free[s]) - n)
                           ELSE free[x]]
             /\ pooled_bytes' = pooled_bytes - Popped(gone, s, n)
        /\ len' = [b \in Buffers |-> IF InFree(b) /\ ~InFree(b)' THEN 0 ELSE len[b]]
  /\ UNCHANGED <<hits, misses, high_water_bytes, alive, handle, tag>>

\* Mutant: the buffers still lent out are released with the pool.
TearDownAll ==
  /\ alive
  /\ \A b \in Buffers : handle[b] # "raw"
  /\ Cardinality({b \in Buffers : handle[b] = "pooled"}) <= 1
  /\ alive' = FALSE
  /\ free' = [s \in Sizes |-> <<>>]
  /\ pooled_bytes' = 0
  /\ len' = [b \in Buffers |-> 0]
  /\ UNCHANGED <<cap_bytes, hits, misses, high_water_bytes, handle, tag>>

\* The last handle on the device drops, and the pool with every buffer in it.
\* A tensor drops its device before its buffer, so the last tensor's buffer is
\* the one that can outlive the pool; no eval is running.
TearDown ==
  /\ alive
  /\ \A b \in Buffers : handle[b] # "raw"
  /\ Cardinality({b \in Buffers : handle[b] = "pooled"}) <= 1
  /\ alive' = FALSE
  /\ free' = [s \in Sizes |-> <<>>]
  /\ pooled_bytes' = 0
  /\ len' = [b \in Buffers |-> IF InFree(b) THEN 0 ELSE len[b]]
  /\ UNCHANGED <<cap_bytes, hits, misses, high_water_bytes, handle, tag>>

Next == \/ \E s \in Sizes : AllocPooled(s)
        \/ \E b \in Buffers : Wrap(b) \/ DropRaw(b) \/ DropPooled(b)
        \/ \E c \in Caps : SetCap(c)
        \/ TearDown

Spec == Init /\ [][Next]_vars
-----------------------------------------------------------------------------
\* TypeOK: the ranges of the free-list and of the handles (buffer_pool.rs:34-41,
\* 165-172); the byte counts are BytesAccounted's.
TypeOK == /\ free \in [Sizes -> Seq(Buffers)]
          /\ cap_bytes \in Nat
          /\ alive \in BOOLEAN
          /\ handle \in [Buffers -> {"none", "raw", "pooled"}]
          /\ tag \in [Buffers -> Sizes \cup {0}]
          /\ len \in [Buffers -> Sizes \cup {0}]

\* SoleOwner: the sole-ownership invariant of PooledBuffer (buffer_pool.rs:122).
\* No buffer sits twice in the free-list, and none sits there while a handle
\* holds it; so no two op outputs ever share storage through the pool.
SoleOwner ==
  \A s, t \in Sizes : \A i \in DOMAIN free[s], j \in DOMAIN free[t] :
    /\ free[s][i] = free[t][j] => s = t /\ i = j
    /\ handle[free[s][i]] = "none"

\* ExactSize: a buffer waits in the bucket of the length Metal allocated it for
\* and travels with that key.  The zeroed slack past the logical length, which
\* padded kernels read, relies on it (kernels/device.rs:203-216).
ExactSize ==
  /\ \A s \in Sizes : \A i \in DOMAIN free[s] : len[free[s][i]] = s
  /\ \A b \in Buffers : IF handle[b] = "none" THEN tag[b] = 0
                         ELSE tag[b] = len[b] /\ tag[b] \in Sizes

\* BytesAccounted: pooled_bytes is the sum over the free-list, through every
\* order of takes, gives, evictions and failures; the subtractions of take and
\* set_cap therefore never wrap (buffer_pool.rs:68, 101).  The peak covers it, and
\* it stays within the ceiling in force, a lowered one included (:89-92).
BytesAccounted ==
  pooled_bytes = BytesIn(Sizes) /\ pooled_bytes <= high_water_bytes /\ pooled_bytes <= cap_bytes

\* EvictsToFit: set_cap (buffer_pool.rs:94-107) releases buffers only of a pool
\* above the new ceiling, and stops at the pop that meets it.  The bucket it stops
\* in has lost a buffer that would not have fitted; of the others it has emptied
\* those it visited and left the rest alone.  It visits them in hash order, so a
\* smaller buffer released on the way may well have fitted.
EvictsToFit ==
  [][ (cap_bytes' # cap_bytes /\ pooled_bytes' # pooled_bytes) =>
        /\ pooled_bytes > cap_bytes'
        /\ \E s \in Sizes : /\ Len(free'[s]) < Len(free[s])
                            /\ pooled_bytes' + s > cap_bytes'
                            /\ \A t \in Sizes \ {s} : free'[t] \in {<<>>, free[t]} ]_vars

\* The pool keeps the promise of BufferLending.
Lending == INSTANCE BufferLending WITH
             place <- [b \in Buffers |-> IF handle[b] # "none" THEN "lent"
                                         ELSE IF InFree(b) THEN "idle" ELSE "absent"]

\* ImplementsLending: a client is only ever lent an idle buffer of exactly the
\* size it asked for or a new one, and eviction touches idle buffers only.
ImplementsLending == Lending!Spec
=============================================================================
