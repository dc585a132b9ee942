--------------------------- MODULE KvCacheProofs ---------------------------
(***************************************************************************)
(* Proofs about KvCache, for a slab of any length, any step sizes and any  *)
(* bounds: attention reads the prefix its view was taken of, no update is  *)
(* dropped, none can be replayed, and a row that holds its final content   *)
(* keeps it.                                                               *)
(*                                                                         *)
(* None of these is inductive.  What carries them is, for each row of the  *)
(* prefix, which update it is due (PrefixRows), that this update has       *)
(* landed, is queued or is still the latest one (RowsHold), that whatever  *)
(* else is queued for the row is older and runs first (WritesQueued), and  *)
(* that a queued attention stands behind the writes it needs               *)
(* (ReadsQueued).                                                          *)
(***************************************************************************)
EXTENDS KvCache, SequencesExt, FiniteSetTheorems, SequenceTheorems, TLAPS

-----------------------------------------------------------------------------
\* Numbers and sequences.

\* SetToSeq lists every member of a finite set once.
LEMMA SetToSeqLists ==
  ASSUME NEW S, IsFiniteSet(S)
  PROVE  /\ SetToSeq(S) \in Seq(S)
         /\ \A x \in S : \E i \in 1..Len(SetToSeq(S)) : SetToSeq(S)[i] = x
         /\ \A i, j \in 1..Len(SetToSeq(S)) : SetToSeq(S)[i] = SetToSeq(S)[j] => i = j
<1>1. Cardinality(S) \in Nat /\ ExistsBijection(1..Cardinality(S), S)
  BY FS_CardinalityType
<1>2. PICK b \in Bijection(1..Cardinality(S), S) : TRUE
  BY <1>1 DEF ExistsBijection
<1>3. b \in [1..Cardinality(S) -> S] /\ IsInjective(b)
  BY <1>2 DEF Bijection, Injection
<1>4. SetToSeq(S) \in [1..Cardinality(S) -> S] /\ IsInjective(SetToSeq(S))
  BY <1>3 DEF SetToSeq
<1>5. SetToSeq(S) \in Seq(S) /\ Len(SetToSeq(S)) = Cardinality(S)
  BY <1>1, <1>4
<1>6. \A x \in S : \E i \in 1..Cardinality(S) : SetToSeq(S)[i] = x
  <2>1. IsFiniteSet(1..Cardinality(S)) /\ Cardinality(1..Cardinality(S)) = Cardinality(S)
    BY <1>1, FS_Interval
  <2>2. SetToSeq(S) \in Injection(1..Cardinality(S), S)
    BY <1>4 DEF Injection
  <2>3. SetToSeq(S) \in Surjection(1..Cardinality(S), S)
    BY <2>1, <2>2, FS_Injection
  <2>4. QED
    BY <2>3 DEF Surjection
<1>7. QED
  BY <1>4, <1>5, <1>6 DEF IsInjective

\* A sequence without its i-th member.
LEMMA RemovedAt ==
  ASSUME NEW S, NEW q \in Seq(S), NEW i \in 1..Len(q)
  PROVE  /\ RemoveAt(q, i) \in Seq(S)
         /\ Len(RemoveAt(q, i)) = Len(q) - 1
         /\ \A j \in 1..(Len(q) - 1) : RemoveAt(q, i)[j] = IF j < i THEN q[j] ELSE q[j + 1]
<1>1. PICK a : a = SubSeq(q, 1, i - 1)
  OBVIOUS
<1>2. PICK b : b = SubSeq(q, i + 1, Len(q))
  OBVIOUS
<1>3. a \in Seq(S) /\ Len(a) = i - 1 /\ \A j \in 1..(i - 1) : a[j] = q[j]
  BY <1>1
<1>4. b \in Seq(S) /\ Len(b) = Len(q) - i /\ \A j \in 1..(Len(q) - i) : b[j] = q[i + j]
  BY <1>2
<1>5. RemoveAt(q, i) = a \o b
  BY <1>1, <1>2 DEF RemoveAt
<1>6. Len(a \o b) = Len(q) - 1 /\ a \o b \in Seq(S)
  BY <1>3, <1>4
<1>7. \A j \in 1..(Len(q) - 1) : (a \o b)[j] = IF j < i THEN q[j] ELSE q[j + 1]
  BY <1>3, <1>4
<1>8. QED
  BY <1>5, <1>6, <1>7

-----------------------------------------------------------------------------
\* The component.

UpdateNode == [slab : Slabs, offset : Nat, rows : Nat, committed : BOOLEAN]
Rows == Seq(Nat)
Job == [op : {"write", "read"}, upd : Nat, want : Rows, gen : Nat]
KeptView == [slab : Slabs, upd : Nat, want : Rows, gen : Nat]

\* Update u writes row r.
Covers(u, r) == r - updates[u].offset \in 1..updates[u].rows

IsWrite(s, i) == queue[s][i].op = "write"
Upd(s, i) == queue[s][i].upd

\* The write of update u stands before place i of queue s.
WriteBefore(s, u, i) == \E j \in 1..(i - 1) : IsWrite(s, j) /\ Upd(s, j) = u

Shapes ==
  /\ position \in Nat /\ gen \in Nat
  /\ updates \in Seq(UpdateNode)
  /\ appended \in [Slabs -> Rows]
  /\ queue \in [Slabs -> Seq(Job)]
  /\ IsFiniteSet(kept) /\ kept \subseteq KeptView

PrefixRows ==
  \A s \in Slabs : \A r \in 1..position :
    /\ appended[s][r] \in 1..latest[s]
    /\ updates[appended[s][r]].slab = s /\ Covers(appended[s][r], r)

\* A row of the prefix that the latest update writes is due to it.
LatestRows ==
  \A s \in Slabs : \A r \in 1..position :
    latest[s] # 0 /\ Covers(latest[s], r) => appended[s][r] = latest[s]

\* The writes of a queue are committed updates of that slab, oldest first, and
\* none is newer than what a row of the prefix is due.
WritesQueued ==
  \A s \in Slabs : \A i \in 1..Len(queue[s]) : IsWrite(s, i) =>
    /\ Upd(s, i) \in 1..latest[s]
    /\ updates[Upd(s, i)].slab = s /\ Committed(Upd(s, i))
    /\ \A r \in 1..position : Covers(Upd(s, i), r) => Upd(s, i) <= appended[s][r]
    /\ \A j \in 1..(i - 1) : IsWrite(s, j) => Upd(s, j) < Upd(s, i)

\* What a row of the prefix is due has landed, is not committed or is queued;
\* once it has landed nothing else is queued for the row.
RowsHold ==
  \A s \in Slabs : \A r \in 1..position :
    /\ \/ slab[s][r] = appended[s][r]
       \/ ~Committed(appended[s][r])
       \/ WriteBefore(s, appended[s][r], Len(queue[s]) + 1)
    /\ slab[s][r] = appended[s][r] =>
         \A i \in 1..Len(queue[s]) :
           IsWrite(s, i) /\ Covers(Upd(s, i), r) => Upd(s, i) = appended[s][r]

\* The rows in want are the first of the prefix.
Expects(s, want) == /\ Len(want) <= position
                    /\ \A r \in 1..Len(want) : want[r] = appended[s][r]

\* A view of this sequence slices an update that is as new as its rows.
Taken(v) == /\ v.upd <= Len(updates)
            /\ v.gen <= gen
            /\ v.gen = gen => /\ Expects(v.slab, v.want) /\ v.upd <= latest[v.slab]
                              /\ \A r \in 1..Len(v.want) : v.want[r] <= v.upd

ViewsTaken == \A v \in kept : Taken(v)

ReadsQueued ==
  \A s \in Slabs : \A i \in 1..Len(queue[s]) :
    ~IsWrite(s, i) /\ queue[s][i].gen = gen =>
      /\ Expects(s, queue[s][i].want)
      /\ \A r \in 1..Len(queue[s][i].want) :
           slab[s][r] = appended[s][r] \/ WriteBefore(s, appended[s][r], i)

IInv == /\ TypeOK /\ Shapes /\ PrefixRows /\ LatestRows /\ WritesQueued /\ RowsHold
        /\ ViewsTaken /\ ReadsQueued /\ NothingToReplay
-----------------------------------------------------------------------------
\* The types of the members of each variable.
LEMMA Members ==
  ASSUME TypeOK, Shapes
  PROVE  /\ position \in 0..MaxTokens /\ MaxTokens \in Nat
         /\ Len(updates) \in Nat /\ DOMAIN updates = 1..Len(updates)
         /\ \A u \in 1..Len(updates) :
              /\ updates[u].slab \in Slabs /\ updates[u].offset \in Nat
              /\ updates[u].rows \in Nat /\ updates[u].committed \in BOOLEAN
              /\ updates[u].offset + updates[u].rows <= MaxTokens
         /\ \A s \in Slabs : /\ latest[s] \in 0..Len(updates)
                             /\ latest[s] # 0 => updates[latest[s]].slab = s
                             /\ Len(appended[s]) = position
                             /\ appended[s] \in Rows
                             /\ queue[s] \in Seq(Job)
                             /\ Len(queue[s]) \in Nat
                             /\ DOMAIN queue[s] = 1..Len(queue[s])
         /\ \A s \in Slabs : \A i \in 1..Len(queue[s]) :
              /\ queue[s][i] \in Job
              /\ queue[s][i].op \in {"write", "read"} /\ queue[s][i].upd \in Nat
              /\ queue[s][i].want \in Rows /\ queue[s][i].gen \in Nat
         /\ \A v \in kept : /\ v.slab \in Slabs /\ v.upd \in Nat
                            /\ v.want \in Rows /\ v.gen \in Nat
<1>1. \A u \in 1..Len(updates) : updates[u] \in UpdateNode
  BY DEF Shapes
<1>2. \A u \in 1..Len(updates) :
        /\ updates[u].slab \in Slabs /\ updates[u].offset \in Nat
        /\ updates[u].rows \in Nat /\ updates[u].committed \in BOOLEAN
  BY <1>1 DEF UpdateNode
<1>3. \A s \in Slabs : queue[s] \in Seq(Job) /\ appended[s] \in Rows
  BY DEF Shapes
<1>4. \A s \in Slabs : Len(queue[s]) \in Nat /\ DOMAIN queue[s] = 1..Len(queue[s])
  BY <1>3
<1>5. \A s \in Slabs : \A i \in 1..Len(queue[s]) : queue[s][i] \in Job
  BY <1>3
<1>6. \A s \in Slabs : \A i \in 1..Len(queue[s]) :
        /\ queue[s][i].op \in {"write", "read"} /\ queue[s][i].upd \in Nat
        /\ queue[s][i].want \in Rows /\ queue[s][i].gen \in Nat
  BY <1>5 DEF Job
<1>7. Len(updates) \in Nat /\ DOMAIN updates = 1..Len(updates)
  BY DEF Shapes
<1>8. \A v \in kept : v \in KeptView
  BY DEF Shapes
<1>9. \A v \in kept : v.slab \in Slabs /\ v.upd \in Nat /\ v.want \in Rows /\ v.gen \in Nat
  BY <1>8 DEF KeptView
<1>10. QED
  BY <1>2, <1>3, <1>4, <1>5, <1>6, <1>7, <1>9, KvAssumption DEF TypeOK

\* While no update waits to be committed, none is uncommitted.
LEMMA AllCommitted ==
  ASSUME IInv, PriorUpdateCommitted
  PROVE  \A u \in 1..Len(updates) : updates[u].committed
<1>1. ASSUME NEW u \in 1..Len(updates), ~updates[u].committed PROVE FALSE
  <2>1. updates[u].slab \in Slabs /\ u # 0 /\ u \in DOMAIN updates
    BY Members DEF IInv
  <2>2. u = latest[updates[u].slab]
    BY <1>1, <2>1 DEF IInv, NothingToReplay, Committed
  <2>3. QED
    BY <1>1, <2>1, <2>2 DEF PriorUpdateCommitted, Committed
<1>2. QED
  BY <1>1

\* The invariant holds for empty caches.
LEMMA InitIInv == Init => IInv
<1>1. SUFFICES ASSUME Init PROVE IInv
  OBVIOUS
<1>2. /\ position = 0 /\ gen = 0 /\ kept = {} /\ updates = <<>> /\ Len(updates) = 0
      /\ latest = [s \in Slabs |-> 0] /\ appended = [s \in Slabs |-> <<>>]
      /\ queue = [s \in Slabs |-> <<>>] /\ \A s \in Slabs : Len(queue[s]) = 0
      /\ slab = [s \in Slabs |-> [r \in 1..MaxTokens |-> 0]]
  BY <1>1 DEF Init
<1>3. TypeOK
  BY <1>2, KvAssumption DEF TypeOK
<1>4. Shapes
  <2>1. updates \in Seq(UpdateNode) /\ appended \in [Slabs -> Rows] /\ queue \in [Slabs -> Seq(Job)]
    BY <1>2 DEF Rows
  <2>2. QED
    BY <1>2, <2>1, FS_EmptySet DEF Shapes
<1>5. PrefixRows /\ LatestRows /\ RowsHold
  BY <1>2 DEF PrefixRows, LatestRows, RowsHold
<1>6. WritesQueued /\ ReadsQueued /\ ViewsTaken /\ NothingToReplay
  BY <1>2 DEF WritesQueued, ReadsQueued, ViewsTaken, NothingToReplay
<1>7. QED
  BY <1>3, <1>4, <1>5, <1>6 DEF IInv
-----------------------------------------------------------------------------
\* A step that leaves the slabs, the queues and the sequence alone has to be argued
\* about only for what the queued reads expect of the prefix.
LEMMA ReadsStay ==
  ASSUME slab' = slab, gen' = gen, queue' = queue,
         \A s \in Slabs : \A i \in 1..Len(queue[s]) :
           ~IsWrite(s, i) /\ queue[s][i].gen = gen =>
             /\ Expects(s, queue[s][i].want)'
             /\ \A r \in 1..Len(queue[s][i].want) :
                  slab[s][r] = appended'[s][r] \/ WriteBefore(s, appended'[s][r], i)
  PROVE  ReadsQueued'
BY DEF ReadsQueued, Expects, IsWrite, WriteBefore, Upd

\* A call of update that succeeds, or fails between the two slabs: updates of
\* rows behind the prefix are built, and become the latest of their slabs.
LEMMA GrowStep ==
  ASSUME IInv, PriorUpdateCommitted, NEW t \in Nat, position + t <= MaxTokens,
         position' \in {position, position + t},
         updates' \in Seq(UpdateNode), Len(updates') >= Len(updates),
         \A u \in 1..Len(updates) : updates'[u] = updates[u],
         \A u \in (Len(updates) + 1)..Len(updates') :
           /\ updates'[u].offset = position /\ updates'[u].rows = t
           /\ ~updates'[u].committed /\ u = latest'[updates'[u].slab],
         latest' \in [Slabs -> 0..Len(updates')],
         \A s \in Slabs : \/ latest'[s] = latest[s] /\ position' = position
                          \/ latest'[s] > Len(updates) /\ updates'[latest'[s]].slab = s,
         appended' \in [Slabs -> Rows],
         \A s \in Slabs : /\ Len(appended'[s]) = position'
                          /\ \A r \in 1..position : appended'[s][r] = appended[s][r]
                          /\ \A r \in (position + 1)..position' : appended'[s][r] = latest'[s],
         UNCHANGED <<slab, gen, kept, queue>>
  PROVE  IInv'
<1>1. /\ position \in Nat /\ position' \in Nat /\ position <= position' /\ position' <= MaxTokens
      /\ Len(updates) \in Nat /\ Len(updates') \in Nat
      /\ MaxTokens \in Nat
  BY KvAssumption DEF IInv, Shapes, TypeOK
<1>2. \A s \in Slabs : /\ latest[s] \in 0..Len(updates) /\ latest'[s] \in 0..Len(updates')
                       /\ latest[s] <= latest'[s]
  <2>1. \A s \in Slabs : latest[s] \in 0..Len(updates)
    BY Members DEF IInv
  <2>2. \A s \in Slabs : latest'[s] \in 0..Len(updates')
    OBVIOUS
  <2>3. QED
    BY <1>1, <2>1, <2>2
<1>3. \A s \in Slabs : \A r \in 1..position :
        appended'[s][r] = appended[s][r] /\ appended[s][r] \in 1..latest[s]
  BY DEF IInv, PrefixRows
<1>4. \A s \in Slabs : \A r \in 1..position' : r \notin 1..position =>
        /\ r \in (position + 1)..position'
        /\ appended'[s][r] = latest'[s] /\ latest'[s] > Len(updates)
        /\ latest'[s] \in (Len(updates) + 1)..Len(updates')
        /\ updates'[latest'[s]].slab = s /\ r - position \in 1..t
  BY <1>1, <1>2
<1>5. \A u \in 1..Len(updates) : \A r \in Nat : Covers(u, r)' <=> Covers(u, r)
  BY DEF Covers
<1>6. \A u \in 0..Len(updates) : Committed(u)' <=> Committed(u)
  BY <1>1 DEF Committed
<1>7. \A s \in Slabs : \A i, u : /\ IsWrite(s, i)' <=> IsWrite(s, i) /\ Upd(s, i)' = Upd(s, i)
                                 /\ WriteBefore(s, u, i)' <=> WriteBefore(s, u, i)
  BY DEF IsWrite, Upd, WriteBefore
<1>8. \A s \in Slabs : queue'[s] = queue[s] /\ Len(queue[s]) \in Nat
  BY DEF IInv, Shapes
<1>9. TypeOK'
  <2>1. \A s \in Slabs : latest'[s] # 0 => updates'[latest'[s]].slab = s
    BY <1>1, <1>2, Members DEF IInv
  <2>2. \A u \in 1..Len(updates') : updates'[u].offset + updates'[u].rows <= MaxTokens
    <3>1. SUFFICES ASSUME NEW u \in 1..Len(updates')
                   PROVE  updates'[u].offset + updates'[u].rows <= MaxTokens
      OBVIOUS
    <3>2. CASE u \in 1..Len(updates)
      BY <3>2 DEF IInv, TypeOK, Shapes
    <3>3. CASE u \notin 1..Len(updates)
      BY <1>1, <3>3
    <3>4. QED
      BY <3>2, <3>3
  <2>3. slab' \in [Slabs -> [1..MaxTokens -> 0..Len(updates')]]
    <3>1. 0..Len(updates) \subseteq 0..Len(updates')
      BY <1>1
    <3>2. slab \in [Slabs -> [1..MaxTokens -> 0..Len(updates)]]
      BY DEF IInv, TypeOK
    <3>3. QED
      BY <3>1, <3>2
  <2>4. DOMAIN updates' = 1..Len(updates') /\ position' \in 0..MaxTokens /\ gen \in 0..MaxResets
    BY <1>1 DEF IInv, TypeOK
  <2>5. QED
    BY <1>1, <2>1, <2>2, <2>3, <2>4 DEF TypeOK
<1>10. Shapes'
  BY <1>1 DEF IInv, Shapes
<1>11. PrefixRows'
  <2>1. SUFFICES ASSUME NEW s \in Slabs, NEW r \in 1..position'
                 PROVE  /\ appended'[s][r] \in 1..latest'[s]
                        /\ updates'[appended'[s][r]].slab = s /\ Covers(appended[s][r], r)'
    BY DEF PrefixRows
  <2>2. CASE r \in 1..position
    <3>1. PICK u : u = appended[s][r]
      OBVIOUS
    <3>2. u \in 1..latest[s] /\ updates[u].slab = s /\ Covers(u, r) /\ appended'[s][r] = u
      BY <1>3, <2>2, <3>1 DEF IInv, PrefixRows
    <3>3. u \in 1..Len(updates) /\ u \in 1..latest'[s]
      BY <1>1, <1>2, <3>2
    <3>4. QED
      BY <3>1, <3>2, <3>3 DEF Covers
  <2>3. CASE r \notin 1..position
    BY <1>1, <1>2, <1>4, <2>3 DEF Covers
  <2>4. QED
    BY <2>2, <2>3
<1>12. LatestRows'
  <2>1. SUFFICES ASSUME NEW s \in Slabs, NEW r \in 1..position', latest'[s] # 0, Covers(latest[s], r)'
                 PROVE  appended'[s][r] = latest'[s]
    BY DEF LatestRows
  <2>2. CASE r \in 1..position /\ latest'[s] = latest[s]
    <3>1. Covers(latest[s], r)
      BY <1>2, <2>1, <2>2 DEF Covers
    <3>2. QED
      BY <2>1, <2>2, <3>1 DEF IInv, LatestRows
  <2>3. CASE r \in 1..position /\ latest'[s] # latest[s]
    BY <1>1, <1>2, <2>1, <2>3 DEF Covers
  <2>4. CASE r \notin 1..position
    BY <1>4, <2>4
  <2>5. QED
    BY <2>2, <2>3, <2>4
<1>13. WritesQueued'
  <2>1. SUFFICES ASSUME NEW s \in Slabs, NEW i \in 1..Len(queue[s]), IsWrite(s, i)
                 PROVE  /\ Upd(s, i) \in 1..latest'[s]
                        /\ updates'[Upd(s, i)].slab = s /\ Committed(Upd(s, i))'
                        /\ \A r \in 1..position' : Covers(Upd(s, i), r)' => Upd(s, i) <= appended'[s][r]
                        /\ \A j \in 1..(i - 1) : IsWrite(s, j) => Upd(s, j) < Upd(s, i)
    BY SMTT(20), <1>8 DEF WritesQueued, Committed, Covers, IsWrite, Upd
  <2>2. PICK u : u = Upd(s, i)
    OBVIOUS
  <2>3. /\ u \in 1..latest[s] /\ updates[u].slab = s /\ Committed(u)
        /\ \A r \in 1..position : Covers(u, r) => u <= appended[s][r]
        /\ \A j \in 1..(i - 1) : IsWrite(s, j) => Upd(s, j) < u
    BY <2>1, <2>2 DEF IInv, WritesQueued
  <2>4. u \in 1..Len(updates) /\ u \in 1..latest'[s]
    BY <1>1, <1>2, <2>3
  <2>5. updates'[u].slab = s /\ Committed(u)'
    BY <2>3, <2>4 DEF Committed
  <2>6. \A r \in 1..position' : Covers(u, r)' => u <= appended'[s][r]
    BY <1>1, <1>3, <1>4, <1>5, <2>3, <2>4
  <2>7. QED
    BY <2>2, <2>3, <2>4, <2>5, <2>6 DEF Committed, Covers, Upd
<1>14. RowsHold'
  <2>1. SUFFICES ASSUME NEW s \in Slabs, NEW r \in 1..position'
                 PROVE  /\ \/ slab[s][r] = appended'[s][r]
                           \/ ~Committed(appended[s][r])'
                           \/ WriteBefore(s, appended'[s][r], Len(queue[s]) + 1)
                        /\ slab[s][r] = appended'[s][r] =>
                             \A i \in 1..Len(queue[s]) :
                               IsWrite(s, i) /\ Covers(Upd(s, i), r)' => Upd(s, i) = appended'[s][r]
    BY <1>7, <1>8 DEF RowsHold, Committed, Covers, IsWrite, Upd, WriteBefore
  <2>2. CASE r \in 1..position
    <3>1. Committed(appended[s][r])' <=> Committed(appended[s][r])
      <4>1. PICK u : u = appended[s][r]
        OBVIOUS
      <4>2. u \in 1..Len(updates) /\ appended'[s][r] = u
        BY <1>1, <1>2, <1>3, <2>2, <4>1
      <4>3. QED
        BY <4>1, <4>2 DEF Committed
    <3>2. \A i \in 1..Len(queue[s]) : IsWrite(s, i) => Upd(s, i) \in 1..Len(updates)
      BY SMTT(20), <1>1, <1>2 DEF IInv, WritesQueued
    <3>3. \A i \in 1..Len(queue[s]) : IsWrite(s, i) /\ Covers(Upd(s, i), r)' => Covers(Upd(s, i), r)
      BY <3>2 DEF Covers, Upd
    <3>4. QED
      BY <1>3, <2>2, <3>1, <3>3 DEF IInv, RowsHold
  <2>3. CASE r \notin 1..position
    <3>1. ~Committed(appended[s][r])'
      BY <1>1, <1>4, <2>3 DEF Committed
    <3>2. slab[s][r] \in 0..Len(updates)
      BY <1>1 DEF IInv, TypeOK
    <3>3. QED
      BY <1>1, <1>4, <2>3, <3>1, <3>2
  <2>4. QED
    BY <2>2, <2>3
<1>15. \A s \in Slabs : \A want \in Rows : Expects(s, want) => Expects(s, want)'
  BY <1>1 DEF Expects, Rows
<1>16. ViewsTaken'
  <2>1. SUFFICES ASSUME NEW v \in kept PROVE Taken(v)'
    BY DEF ViewsTaken
  <2>2. v \in KeptView /\ Taken(v)
    BY DEF IInv, Shapes, ViewsTaken
  <2>3. v.slab \in Slabs /\ v.want \in Rows /\ v.upd \in Nat
    BY <2>2 DEF KeptView
  <2>4. QED
    BY <1>1, <1>2, <1>15, <2>2, <2>3 DEF Taken
<1>17. ReadsQueued'
  <2>0. slab' = slab /\ gen' = gen /\ queue' = queue
    OBVIOUS
  <2>1. SUFFICES ASSUME NEW s \in Slabs, NEW i \in 1..Len(queue[s]),
                        ~IsWrite(s, i), queue[s][i].gen = gen
                 PROVE  /\ Expects(s, queue[s][i].want)'
                        /\ \A r \in 1..Len(queue[s][i].want) :
                             slab[s][r] = appended'[s][r] \/ WriteBefore(s, appended'[s][r], i)
    BY <2>0, ReadsStay
  <2>2. queue[s][i].want \in Rows
    BY Members DEF IInv
  <2>3. /\ Expects(s, queue[s][i].want)
        /\ \A r \in 1..Len(queue[s][i].want) :
             slab[s][r] = appended[s][r] \/ WriteBefore(s, appended[s][r], i)
    BY <2>1 DEF IInv, ReadsQueued
  <2>4. \A r \in 1..Len(queue[s][i].want) : r \in 1..position
    BY <1>1, <2>2, <2>3 DEF Expects, Rows
  <2>5. Expects(s, queue[s][i].want)'
    BY <1>1, <1>8, <2>2, <2>3 DEF Expects, Rows
  <2>6. QED
    BY <1>3, <2>3, <2>4, <2>5
<1>18. NothingToReplay'
  <2>1. \A u \in 1..Len(updates) : updates'[u].committed
    BY AllCommitted
  <2>2. DOMAIN updates' = 1..Len(updates')
    OBVIOUS
  <2>3. QED
    BY <1>1, <2>1, <2>2 DEF NothingToReplay, Committed
<1>19. QED
  BY <1>9, <1>10, <1>11, <1>12, <1>13, <1>14, <1>16, <1>17, <1>18 DEF IInv

\* KvCache::update appends its rows.
LEMMA UpdateStep == \A t \in Steps : IInv /\ Update(t) => IInv'
<1>1. SUFFICES ASSUME NEW t \in Steps, IInv, Update(t) PROVE IInv'
  OBVIOUS
<1>2. t \in Nat /\ position \in Nat /\ Len(updates) \in Nat /\ updates \in Seq(UpdateNode)
  BY <1>1, KvAssumption, Members DEF IInv, Shapes
<1>3. PICK n \in Nat : n = Len(updates)
  BY <1>2
<1>4. PICK a : a = Node("k", t)
  OBVIOUS
<1>5. PICK b : b = Node("v", t)
  OBVIOUS
<1>6. /\ a \in UpdateNode /\ a.slab = "k" /\ a.offset = position /\ a.rows = t /\ ~a.committed
      /\ b \in UpdateNode /\ b.slab = "v" /\ b.offset = position /\ b.rows = t /\ ~b.committed
  BY <1>2, <1>4, <1>5 DEF Node, UpdateNode, Slabs
<1>7. /\ updates' = updates \o <<a, b>>
      /\ latest' = [s \in Slabs |-> IF s = "k" THEN n + 1 ELSE n + 2]
      /\ appended' = [s \in Slabs |-> appended[s] \o [i \in 1..t |-> IF s = "k" THEN n + 1 ELSE n + 2]]
      /\ position' = position + t /\ position + t <= MaxTokens
      /\ PriorUpdateCommitted
      /\ UNCHANGED <<slab, gen, kept, queue>>
  BY <1>1, <1>3, <1>4, <1>5, <1>2 DEF Update, Fits
<1>8. /\ updates' \in Seq(UpdateNode) /\ Len(updates') = n + 2
      /\ \A u \in 1..n : updates'[u] = updates[u]
      /\ updates'[n + 1] = a /\ updates'[n + 2] = b
  <2>1. <<a, b>> \in Seq(UpdateNode) /\ Len(<<a, b>>) = 2 /\ <<a, b>>[1] = a /\ <<a, b>>[2] = b
    BY <1>6
  <2>2. PICK c : c = <<a, b>>
    OBVIOUS
  <2>3. QED
    BY <1>2, <1>3, <1>7, <2>1, <2>2
<1>9. \A u \in (n + 1)..(n + 2) :
        /\ updates'[u].offset = position /\ updates'[u].rows = t
        /\ ~updates'[u].committed /\ u = latest'[updates'[u].slab]
  BY <1>3, <1>6, <1>7, <1>8 DEF Slabs
<1>10. /\ latest' \in [Slabs -> 0..(n + 2)]
       /\ \A s \in Slabs : latest'[s] > n /\ updates'[latest'[s]].slab = s
  BY <1>3, <1>6, <1>7, <1>8 DEF Slabs
<1>11. \A s \in Slabs :
         /\ appended'[s] \in Rows /\ Len(appended'[s]) = position + t
         /\ \A r \in 1..position : appended'[s][r] = appended[s][r]
         /\ \A r \in (position + 1)..(position + t) : appended'[s][r] = latest'[s]
  <2>1. SUFFICES ASSUME NEW s \in Slabs
                 PROVE  /\ appended'[s] \in Rows /\ Len(appended'[s]) = position + t
                        /\ \A r \in 1..position : appended'[s][r] = appended[s][r]
                        /\ \A r \in (position + 1)..(position + t) : appended'[s][r] = latest'[s]
    OBVIOUS
  <2>2. PICK q : q = appended[s]
    OBVIOUS
  <2>3. q \in Seq(Nat) /\ Len(q) = position
    BY <1>1, <2>2, Members DEF IInv, Rows
  <2>4. PICK m \in Nat : m = latest'[s] /\ m = IF s = "k" THEN n + 1 ELSE n + 2
    BY <1>3, <1>7
  <2>5. PICK w : w = [i \in 1..t |-> m]
    OBVIOUS
  <2>6. w \in Seq(Nat) /\ Len(w) = t /\ \A i \in 1..t : w[i] = m
    BY <1>2, <2>4, <2>5
  <2>7. appended'[s] = q \o w
    BY <1>7, <2>2, <2>4, <2>5
  <2>8. /\ q \o w \in Seq(Nat) /\ Len(q \o w) = position + t
        /\ \A r \in 1..position : (q \o w)[r] = q[r]
        /\ \A r \in (position + 1)..(position + t) : (q \o w)[r] = m
    <3>1. position \in Nat /\ t \in Nat
      BY <1>2
    <3>2. /\ q \o w \in Seq(Nat) /\ Len(q \o w) = position + t
          /\ \A r \in 1..(position + t) :
               (q \o w)[r] = IF r <= position THEN q[r] ELSE w[r - position]
      BY ONLY <2>3, <2>6, <3>1
    <3>3. \A r \in 1..position : (q \o w)[r] = q[r]
      BY ONLY <3>1, <3>2
    <3>4. ASSUME NEW r \in (position + 1)..(position + t) PROVE (q \o w)[r] = m
      <4>1. r - position \in 1..t /\ r \in 1..(position + t) /\ ~(r <= position)
        BY ONLY <3>1, r \in (position + 1)..(position + t)
      <4>2. QED
        BY ONLY <2>6, <3>2, <4>1
    <3>5. QED
      BY <3>2, <3>3, <3>4
  <2>9. QED
    BY <2>2, <2>4, <2>7, <2>8 DEF Rows
<1>12. appended' \in [Slabs -> Rows]
  BY <1>7, <1>11
<1>13. /\ position' = position + t /\ position + t <= MaxTokens /\ PriorUpdateCommitted
       /\ UNCHANGED <<slab, gen, kept, queue>>
  BY <1>7
<1>14. QED
  BY SMTT(20), <1>1, <1>2, <1>3, <1>8, <1>9, <1>10, <1>11, <1>12, <1>13, GrowStep

\* KvCache::update failing between the two slabs.
LEMMA UpdateFailsStep == \A t \in Steps : IInv /\ UpdateFails(t) => IInv'
<1>1. SUFFICES ASSUME NEW t \in Steps, IInv, UpdateFails(t) PROVE IInv'
  OBVIOUS
<1>2. t \in Nat /\ position \in Nat /\ Len(updates) \in Nat /\ updates \in Seq(UpdateNode)
  BY <1>1, KvAssumption, Members DEF IInv, Shapes
<1>3. PICK n \in Nat : n = Len(updates)
  BY <1>2
<1>4. PICK a : a = Node("k", t)
  OBVIOUS
<1>5. a \in UpdateNode /\ a.slab = "k" /\ a.offset = position /\ a.rows = t /\ ~a.committed
  BY <1>2, <1>4 DEF Node, UpdateNode, Slabs
<1>6. /\ updates' = Append(updates, a)
      /\ latest' = [latest EXCEPT !["k"] = n + 1]
      /\ position + t <= MaxTokens /\ PriorUpdateCommitted
      /\ UNCHANGED <<position, appended, slab, gen, kept, queue>>
  BY <1>1, <1>3, <1>4 DEF UpdateFails, Fits
<1>7. /\ updates' \in Seq(UpdateNode) /\ Len(updates') = n + 1
      /\ \A u \in 1..n : updates'[u] = updates[u]
      /\ updates'[n + 1] = a
  BY <1>2, <1>3, <1>5, <1>6
<1>8. latest \in [Slabs -> 0..n]
  BY <1>1, <1>3 DEF IInv, TypeOK
<1>9. /\ latest' \in [Slabs -> 0..(n + 1)] /\ latest'["k"] = n + 1
      /\ \A s \in Slabs : s # "k" => latest'[s] = latest[s]
  BY <1>3, <1>6, <1>8 DEF Slabs
<1>10. \A u \in (n + 1)..(n + 1) :
         /\ updates'[u].offset = position /\ updates'[u].rows = t
         /\ ~updates'[u].committed /\ u = latest'[updates'[u].slab]
  BY <1>3, <1>5, <1>7, <1>9
<1>11. \A s \in Slabs : \/ latest'[s] = latest[s] /\ position' = position
                        \/ latest'[s] > n /\ updates'[latest'[s]].slab = s
  BY <1>3, <1>5, <1>6, <1>7, <1>9
<1>12. /\ appended' \in [Slabs -> Rows]
       /\ \A s \in Slabs : /\ Len(appended'[s]) = position'
                           /\ \A r \in 1..position : appended'[s][r] = appended[s][r]
                           /\ \A r \in (position + 1)..position' : appended'[s][r] = latest'[s]
  <2>1. \A s \in Slabs : Len(appended[s]) = position
    BY <1>1, Members DEF IInv
  <2>2. \A r \in (position + 1)..position : FALSE
    BY <1>2
  <2>3. appended \in [Slabs -> Rows]
    BY <1>1 DEF IInv, Shapes
  <2>4. QED
    BY <1>6, <2>1, <2>2, <2>3
<1>13. QED
  BY <1>1, <1>2, <1>3, <1>6, <1>7, <1>9, <1>10, <1>11, <1>12, GrowStep

\* KvCache::reset starts an empty prefix over slabs nothing will write.
LEMMA ResetStep == IInv /\ Reset => IInv'
<1>1. SUFFICES ASSUME IInv, Reset PROVE IInv'
  OBVIOUS
<1>2. /\ position' = 0 /\ latest' = [s \in Slabs |-> 0] /\ appended' = [s \in Slabs |-> <<>>]
      /\ gen' = gen + 1 /\ gen < MaxResets /\ gen \in Nat
      /\ PriorUpdateCommitted /\ \A s \in Slabs : queue[s] = <<>> /\ Len(queue[s]) = 0
      /\ UNCHANGED <<updates, slab, kept, queue>>
  BY <1>1 DEF Reset, Idle, IInv, Shapes
<1>3. TypeOK'
  <2>1. latest' \in [Slabs -> 0..Len(updates)] /\ \A s \in Slabs : latest'[s] = 0
    BY <1>1, <1>2, Members DEF IInv
  <2>2. gen' \in 0..MaxResets /\ position' \in 0..MaxTokens
    BY <1>2, KvAssumption
  <2>3. \A s \in Slabs : Len(appended'[s]) = 0
    BY <1>2
  <2>4. QED
    BY <1>1, <1>2, <2>1, <2>2, <2>3 DEF IInv, TypeOK
<1>4. Shapes'
  <2>1. appended' \in [Slabs -> Rows]
    BY <1>2 DEF Rows
  <2>2. QED
    BY <1>1, <1>2, <2>1 DEF IInv, Shapes
<1>5. PrefixRows' /\ LatestRows' /\ RowsHold' /\ WritesQueued' /\ ReadsQueued'
  BY <1>2 DEF PrefixRows, LatestRows, RowsHold, WritesQueued, ReadsQueued
<1>6. ViewsTaken'
  <2>1. \A v \in kept : v.upd <= Len(updates) /\ v.gen <= gen /\ v.gen \in Nat
    BY <1>1, Members DEF IInv, ViewsTaken, Taken
  <2>2. QED
    BY <1>2, <2>1 DEF ViewsTaken, Taken
<1>7. NothingToReplay'
  BY <1>1, <1>2, AllCommitted, Members DEF NothingToReplay, Committed, IInv
<1>8. QED
  BY <1>3, <1>4, <1>5, <1>6, <1>7 DEF IInv
-----------------------------------------------------------------------------
\* A view of the cache is up to date when it is taken.
LEMMA ViewTaken ==
  ASSUME IInv, NEW s \in Slabs
  PROVE  Taken(View(s)) /\ View(s) \in KeptView
<1>1. PICK v : v = View(s)
  OBVIOUS
<1>2. v.slab = s /\ v.upd = latest[s] /\ v.want = appended[s] /\ v.gen = gen
  BY <1>1 DEF View
<1>3. /\ latest[s] \in Nat /\ latest[s] <= Len(updates) /\ Len(updates) \in Nat
      /\ appended[s] \in Rows /\ Len(appended[s]) = position /\ position \in Nat /\ gen \in Nat
  BY Members DEF IInv, Shapes
<1>4. \A r \in 1..position : appended[s][r] <= latest[s]
  BY <1>3 DEF IInv, PrefixRows
<1>5. Taken(v)
  BY <1>2, <1>3, <1>4 DEF Taken, Expects
<1>6. v \in KeptView
  BY <1>1, <1>3 DEF View, KeptView
<1>7. QED
  BY <1>1, <1>5, <1>6

\* Keeping and dropping views.
LEMMA KeptStep ==
  ASSUME IInv, IsFiniteSet(kept'), kept' \subseteq kept \cup {View(s) : s \in Slabs},
         UNCHANGED <<position, latest, updates, slab, gen, appended, queue>>
  PROVE  IInv'
<1>1. TypeOK' /\ NothingToReplay'
  BY DEF IInv, TypeOK, NothingToReplay, Committed
<1>2. PrefixRows' /\ LatestRows' /\ RowsHold' /\ WritesQueued' /\ ReadsQueued'
  <2>1. PrefixRows' /\ LatestRows'
    BY DEF IInv, PrefixRows, LatestRows, Covers
  <2>2. RowsHold'
    BY DEF IInv, RowsHold, Covers, Committed, IsWrite, Upd, WriteBefore
  <2>3. WritesQueued'
    BY DEF IInv, WritesQueued, Covers, Committed, IsWrite, Upd
  <2>4. ReadsQueued'
    BY DEF IInv, ReadsQueued, IsWrite, Upd, WriteBefore, Expects
  <2>5. QED
    BY <2>1, <2>2, <2>3, <2>4
<1>3. \A v \in kept' : Taken(v) /\ v \in KeptView
  BY ViewTaken DEF IInv, ViewsTaken, Shapes
<1>4. Shapes' /\ ViewsTaken'
  BY <1>3 DEF IInv, Shapes, ViewsTaken, Taken, Expects
<1>5. QED
  BY <1>1, <1>2, <1>4 DEF IInv

\* The caller keeps a view.
LEMMA KeepViewStep == \A s \in Slabs : IInv /\ KeepView(s) => IInv'
<1>1. SUFFICES ASSUME NEW s \in Slabs, IInv, KeepView(s) PROVE IInv'
  OBVIOUS
<1>2. IsFiniteSet(kept \cup {View(s)})
  BY <1>1, FS_AddElement DEF IInv, Shapes
<1>3. QED
  BY <1>1, <1>2, KeptStep DEF KeepView

\* The caller drops a view.
LEMMA DropViewStep == \A v \in kept : IInv /\ DropView(v) => IInv'
<1>1. SUFFICES ASSUME NEW v \in kept, IInv, DropView(v) PROVE IInv'
  OBVIOUS
<1>2. IsFiniteSet(kept \ {v})
  BY <1>1, FS_RemoveElement DEF IInv, Shapes
<1>3. QED
  BY <1>1, <1>2, KeptStep DEF DropView
-----------------------------------------------------------------------------
\* The views an evaluation may name.
Views == kept \cup {View(s) : s \in Slabs}

\* What is not committed yet is the latest update of its slab.
LEMMA ToDoLatest ==
  ASSUME IInv, NEW V \in SUBSET Views
  PROVE  /\ \A v \in V : Taken(v) /\ v \in KeptView
         /\ \A u \in ToDo(V) : /\ u \in 1..Len(updates) /\ ~updates[u].committed
                               /\ updates[u].slab \in Slabs
                               /\ u = latest[updates[u].slab]
<1>1. \A v \in V : Taken(v) /\ v \in KeptView
  BY ViewTaken DEF IInv, ViewsTaken, Shapes, Views
<1>2. \A v \in V : v.upd \in Nat /\ v.upd <= Len(updates)
  BY <1>1 DEF Taken, KeptView
<1>3. Len(updates) \in Nat /\ DOMAIN updates = 1..Len(updates)
  BY Members DEF IInv
<1>4. \A u \in ToDo(V) : u \in 1..Len(updates) /\ ~updates[u].committed
  BY <1>2, <1>3 DEF ToDo, Committed
<1>5. \A u \in ToDo(V) : updates[u].slab \in Slabs
  BY <1>4, Members DEF IInv
<1>6. \A u \in ToDo(V) : u = latest[updates[u].slab]
  BY <1>3, <1>4 DEF IInv, NothingToReplay, ToDo
<1>7. QED
  BY <1>1, <1>4, <1>5, <1>6

\* What the rows of a slab hold after some updates.
LEMMA WrittenRows ==
  ASSUME IInv, NEW s \in Slabs, NEW W \in SUBSET (1..Len(updates))
  PROVE  /\ Written(s, W) \in [1..MaxTokens -> 0..Len(updates)]
         /\ \A r \in 1..MaxTokens :
              \/ /\ Written(s, W)[r] = slab[s][r]
                 /\ \A u \in W : updates[u].slab = s => ~Covers(u, r)
              \/ \E u \in W : updates[u].slab = s /\ Covers(u, r) /\ Written(s, W)[r] = u
<1>1. \A r \in 1..MaxTokens : slab[s][r] \in 0..Len(updates)
  BY DEF IInv, TypeOK
<1>2. Len(updates) \in Nat
  BY Members DEF IInv
<1>3. \A r \in 1..MaxTokens :
        \/ /\ Written(s, W)[r] = slab[s][r]
           /\ \A u \in W : updates[u].slab = s => ~Covers(u, r)
        \/ \E u \in W : updates[u].slab = s /\ Covers(u, r) /\ Written(s, W)[r] = u
  <2>1. SUFFICES ASSUME NEW r \in 1..MaxTokens
                 PROVE  \/ /\ Written(s, W)[r] = slab[s][r]
                           /\ \A u \in W : updates[u].slab = s => ~Covers(u, r)
                        \/ \E u \in W : updates[u].slab = s /\ Covers(u, r) /\ Written(s, W)[r] = u
    OBVIOUS
  <2>2. PICK by : by = {u \in W : updates[u].slab = s /\ r - updates[u].offset \in 1..updates[u].rows}
    OBVIOUS
  <2>3. Written(s, W)[r] = IF by = {} THEN slab[s][r] ELSE CHOOSE u \in by : TRUE
    BY <2>2 DEF Written
  <2>4. QED
    BY <2>2, <2>3 DEF Covers
<1>4. \A r \in 1..MaxTokens : Written(s, W)[r] \in 0..Len(updates)
  BY <1>1, <1>2, <1>3
<1>5. Written(s, W) \in [1..MaxTokens -> 0..Len(updates)]
  BY <1>4 DEF Written
<1>6. QED
  BY <1>3, <1>5

\* The evaluation fails: whatever it wrote is what the prefix is due.
LEMMA EvalFailsRows ==
  ASSUME IInv, NEW V \in SUBSET Views, EvalFails(V)
  PROVE  /\ slab' \in [Slabs -> [1..MaxTokens -> 0..Len(updates)]]
         /\ \A s \in Slabs : \A r \in 1..position :
              slab[s][r] = appended[s][r] => slab'[s][r] = appended[s][r]
<1>1. PICK W \in SUBSET ToDo(V) : slab' = [s \in Slabs |-> Written(s, W)]
  BY DEF EvalFails
<1>2. W \in SUBSET (1..Len(updates))
  BY <1>1, ToDoLatest
<1>3. slab' \in [Slabs -> [1..MaxTokens -> 0..Len(updates)]]
  BY <1>1, <1>2, WrittenRows
<1>4. SUFFICES ASSUME NEW s \in Slabs, NEW r \in 1..position, slab[s][r] = appended[s][r]
               PROVE  slab'[s][r] = appended[s][r]
  BY <1>3
<1>5. r \in 1..MaxTokens
  BY Members DEF IInv
<1>6. CASE Written(s, W)[r] = slab[s][r]
  BY <1>1, <1>4, <1>6
<1>7. ASSUME NEW u \in W, updates[u].slab = s, Covers(u, r), Written(s, W)[r] = u
      PROVE  slab'[s][r] = appended[s][r]
  <2>1. u = latest[s] /\ u # 0
    BY <1>1, <1>2, <1>7, ToDoLatest
  <2>2. QED
    BY <1>1, <1>7, <2>1 DEF IInv, LatestRows
<1>8. QED
  BY <1>2, <1>5, <1>6, <1>7, WrittenRows

\* An evaluation fails on the GPU.
LEMMA EvalFailsStep == \A V \in SUBSET Views : IInv /\ EvalFails(V) => IInv'
<1>1. SUFFICES ASSUME NEW V \in SUBSET Views, IInv, EvalFails(V) PROVE IInv'
  OBVIOUS
<1>2. /\ UNCHANGED <<position, latest, updates, gen, appended, kept, queue>>
      /\ \A s \in Slabs : \A i \in DOMAIN queue[s] : queue[s][i].op = "read"
  BY <1>1 DEF EvalFails
<1>3. \A s \in Slabs : /\ \A i \in 1..Len(queue[s]) : ~IsWrite(s, i)
                       /\ Len(queue[s]) \in Nat
  BY <1>1, <1>2, Members DEF IInv, IsWrite
<1>4. /\ slab' \in [Slabs -> [1..MaxTokens -> 0..Len(updates)]]
      /\ \A s \in Slabs : \A r \in 1..position :
           slab[s][r] = appended[s][r] => slab'[s][r] = appended[s][r]
  BY <1>1, EvalFailsRows
<1>5. TypeOK' /\ Shapes' /\ NothingToReplay'
  BY <1>1, <1>2, <1>4 DEF IInv, TypeOK, Shapes, NothingToReplay, Committed
<1>6. PrefixRows' /\ LatestRows' /\ WritesQueued' /\ ViewsTaken'
  BY <1>1, <1>2 DEF IInv, PrefixRows, LatestRows, WritesQueued, ViewsTaken, Covers, Committed,
                    IsWrite, Upd, Taken, Expects
<1>7. \A s \in Slabs : \A u : \A i \in 1..(Len(queue[s]) + 1) : ~WriteBefore(s, u, i)
  BY <1>3 DEF WriteBefore
<1>8. RowsHold'
  <2>1. SUFFICES ASSUME NEW s \in Slabs, NEW r \in 1..position
                 PROVE  slab'[s][r] = appended[s][r] \/ ~Committed(appended[s][r])
    BY <1>2, <1>3 DEF RowsHold, Committed, IsWrite
  <2>2. slab[s][r] = appended[s][r] \/ ~Committed(appended[s][r])
    BY <1>1, <1>3, <1>7 DEF IInv, RowsHold
  <2>3. QED
    BY <1>4, <2>2
<1>9. ReadsQueued'
  <2>1. SUFFICES ASSUME NEW s \in Slabs, NEW i \in 1..Len(queue[s]),
                        ~IsWrite(s, i), queue[s][i].gen = gen
                 PROVE  /\ Expects(s, queue[s][i].want)
                        /\ \A r \in 1..Len(queue[s][i].want) : slab'[s][r] = appended[s][r]
    BY <1>2 DEF ReadsQueued, IsWrite, Expects
  <2>2. Expects(s, queue[s][i].want)
    BY <1>1, <2>1 DEF IInv, ReadsQueued
  <2>3. \A r \in 1..Len(queue[s][i].want) : slab[s][r] = appended[s][r] /\ r \in 1..position
    <3>1. \A r \in 1..Len(queue[s][i].want) : slab[s][r] = appended[s][r]
      BY <1>1, <1>3, <1>7, <2>1 DEF IInv, ReadsQueued
    <3>2. position \in Nat /\ Len(queue[s][i].want) \in Nat
      BY <1>1, Members DEF IInv, Rows
    <3>3. QED
      BY <2>2, <3>1, <3>2 DEF Expects
  <2>4. QED
    BY <1>4, <2>2, <2>3
<1>10. QED
  BY <1>5, <1>6, <1>8, <1>9 DEF IInv
-----------------------------------------------------------------------------
\* A job that runs spoils no row of the prefix, and an update that lands leaves
\* its rows as they are due.
LEMMA RunRows ==
  ASSUME IInv, NEW s \in Slabs, NEW i \in 1..Len(queue[s]), Run(s, i)
  PROVE  /\ slab' \in [Slabs -> [1..MaxTokens -> 0..Len(updates)]]
         /\ \A z \in Slabs : z # s => slab'[z] = slab[z]
         /\ \A z \in Slabs : \A r \in 1..position :
              slab[z][r] = appended[z][r] => slab'[z][r] = appended[z][r]
         /\ \A r \in 1..position :
              IsWrite(s, i) /\ Upd(s, i) = appended[s][r] => slab'[s][r] = appended[s][r]
         /\ \A r \in 1..position :
              slab'[s][r] # slab[s][r] => IsWrite(s, i) /\ slab'[s][r] = Upd(s, i)
<1>1. slab \in [Slabs -> [1..MaxTokens -> 0..Len(updates)]]
  BY DEF IInv, TypeOK
<1>2. slab' = IF IsWrite(s, i) THEN [slab EXCEPT ![s] = Written(s, {Upd(s, i)})] ELSE slab
  BY DEF Run, IsWrite, Upd
<1>3. CASE ~IsWrite(s, i)
  BY <1>1, <1>2, <1>3
<1>4. CASE IsWrite(s, i)
  <2>1. PICK w : w = Upd(s, i)
    OBVIOUS
  <2>2. w \in 1..latest[s] /\ updates[w].slab = s
    BY <1>4, <2>1 DEF IInv, WritesQueued
  <2>3. {w} \in SUBSET (1..Len(updates))
    BY <2>2, Members DEF IInv
  <2>4. PICK new : new = Written(s, {w})
    OBVIOUS
  <2>5. /\ new \in [1..MaxTokens -> 0..Len(updates)]
        /\ \A r \in 1..MaxTokens : \/ new[r] = slab[s][r] /\ ~Covers(w, r)
                                   \/ Covers(w, r) /\ new[r] = w
    BY <2>2, <2>3, <2>4, WrittenRows
  <2>6. /\ slab' = [slab EXCEPT ![s] = new]
        /\ slab'[s] = new /\ \A z \in Slabs : z # s => slab'[z] = slab[z]
    BY <1>1, <1>2, <1>4, <2>1, <2>4
  <2>7. slab' \in [Slabs -> [1..MaxTokens -> 0..Len(updates)]]
    BY <1>1, <2>5, <2>6
  <2>8. \A r \in 1..position : r \in 1..MaxTokens
    BY Members DEF IInv
  <2>9. \A r \in 1..position : slab[s][r] = appended[s][r] => new[r] = appended[s][r]
    <3>1. SUFFICES ASSUME NEW r \in 1..position, slab[s][r] = appended[s][r], Covers(w, r)
                   PROVE  w = appended[s][r]
      BY <2>5, <2>8
    <3>2. QED
      BY <1>4, <2>1, <3>1 DEF IInv, RowsHold
  <2>10. \A r \in 1..position : w = appended[s][r] => new[r] = w
    BY <2>5, <2>8 DEF IInv, PrefixRows
  <2>11. QED
    BY <1>4, <2>1, <2>5, <2>6, <2>7, <2>8, <2>9, <2>10
<1>5. QED
  BY <1>3, <1>4

\* The GPU runs a queued kernel.
LEMMA RunStep == \A s \in Slabs : \A i \in DOMAIN queue[s] : IInv /\ Run(s, i) => IInv'
<1>1. SUFFICES ASSUME NEW s \in Slabs, NEW i \in DOMAIN queue[s], IInv, Run(s, i) PROVE IInv'
  OBVIOUS
<1>2. i \in 1..Len(queue[s]) /\ \A z \in Slabs : queue[z] \in Seq(Job) /\ Len(queue[z]) \in Nat
  BY <1>1, Members DEF IInv
<1>3. /\ \A j \in 1..(i - 1) : ~IsWrite(s, j)
      /\ queue' = [queue EXCEPT ![s] = RemoveAt(queue[s], i)]
      /\ UNCHANGED <<position, latest, updates, gen, appended, kept>>
  BY <1>1 DEF Run, Clear, IsWrite
<1>4. queue \in [Slabs -> Seq(Job)]
  BY <1>1 DEF IInv, Shapes
<1>5. /\ queue'[s] \in Seq(Job) /\ Len(queue'[s]) = Len(queue[s]) - 1
      /\ \A j \in 1..(Len(queue[s]) - 1) :
           queue'[s][j] = IF j < i THEN queue[s][j] ELSE queue[s][j + 1]
      /\ \A z \in Slabs : z # s => queue'[z] = queue[z]
      /\ queue' \in [Slabs -> Seq(Job)]
  BY <1>2, <1>3, <1>4, RemovedAt
<1>6. /\ slab' \in [Slabs -> [1..MaxTokens -> 0..Len(updates)]]
      /\ \A z \in Slabs : z # s => slab'[z] = slab[z]
      /\ \A z \in Slabs : \A r \in 1..position :
           slab[z][r] = appended[z][r] => slab'[z][r] = appended[z][r]
      /\ \A r \in 1..position :
           IsWrite(s, i) /\ Upd(s, i) = appended[s][r] => slab'[s][r] = appended[s][r]
      /\ \A r \in 1..position :
           slab'[s][r] # slab[s][r] => IsWrite(s, i) /\ slab'[s][r] = Upd(s, i)
  BY <1>1, <1>2, RunRows
<1>7. \* Where the jobs that remain stood, and where they stand.
      \A z \in Slabs : \A j \in 1..Len(queue'[z]) :
        \E k \in 1..Len(queue[z]) : /\ queue'[z][j] = queue[z][k]
                                    /\ z = s => k # i
                                    /\ k = IF z = s /\ j >= i THEN j + 1 ELSE j
  <2>1. SUFFICES ASSUME NEW z \in Slabs, NEW j \in 1..Len(queue'[z])
                 PROVE  \E k \in 1..Len(queue[z]) : /\ queue'[z][j] = queue[z][k]
                                                    /\ z = s => k # i
                                                    /\ k = IF z = s /\ j >= i THEN j + 1 ELSE j
    OBVIOUS
  <2>2. CASE z # s
    BY <1>5, <2>2
  <2>3. CASE z = s /\ j < i
    BY <1>2, <1>5, <2>3
  <2>4. CASE z = s /\ j >= i
    BY <1>2, <1>5, <2>4
  <2>5. QED
    BY <1>2, <2>2, <2>3, <2>4
<1>8. \A z \in Slabs : \A u \in Nat : \A j \in 1..(Len(queue'[z]) + 1) : \A k \in 1..(Len(queue[z]) + 1) :
        (k = (IF z = s /\ j >= i THEN j + 1 ELSE j) /\ WriteBefore(z, u, k)
           /\ ~(z = s /\ IsWrite(s, i) /\ Upd(s, i) = u))
        => WriteBefore(z, u, j)'
  <2>1. SUFFICES ASSUME NEW z \in Slabs, NEW u \in Nat, NEW j \in 1..(Len(queue'[z]) + 1),
                        NEW k \in 1..(Len(queue[z]) + 1),
                        k = IF z = s /\ j >= i THEN j + 1 ELSE j, WriteBefore(z, u, k),
                        ~(z = s /\ IsWrite(s, i) /\ Upd(s, i) = u)
                 PROVE  \E x \in 1..(j - 1) : queue'[z][x].op = "write" /\ queue'[z][x].upd = u
    BY DEF WriteBefore, IsWrite, Upd
  <2>2. PICK y \in 1..(k - 1) : queue[z][y].op = "write" /\ queue[z][y].upd = u
    BY <2>1 DEF WriteBefore, IsWrite, Upd
  <2>3. CASE z # s
    BY <1>5, <2>1, <2>2, <2>3
  <2>4. CASE z = s
    <3>1. y > i
      BY <1>2, <1>3, <2>1, <2>2, <2>4 DEF IsWrite, Upd
    <3>2. y - 1 \in 1..(j - 1) /\ y - 1 >= i /\ y - 1 \in 1..(Len(queue[s]) - 1)
      BY SMTT(20), <1>2, <1>5, <2>1, <2>2, <2>4, <3>1
    <3>3. queue'[s][y - 1] = queue[s][y]
      BY <1>2, <1>5, <2>2, <3>1, <3>2
    <3>4. QED
      BY <2>2, <2>4, <3>2, <3>3
  <2>5. QED
    BY <2>3, <2>4
<1>9. TypeOK' /\ Shapes' /\ NothingToReplay' /\ PrefixRows' /\ LatestRows' /\ ViewsTaken'
  BY <1>1, <1>3, <1>5, <1>6
     DEF IInv, TypeOK, Shapes, NothingToReplay, PrefixRows, LatestRows, ViewsTaken, Covers,
         Committed, Taken, Expects
<1>10. WritesQueued'
  <2>1. SUFFICES ASSUME NEW z \in Slabs, NEW j \in 1..Len(queue'[z]), queue'[z][j].op = "write"
                 PROVE  /\ queue'[z][j].upd \in 1..latest[z]
                        /\ updates[queue'[z][j].upd].slab = z /\ Committed(queue'[z][j].upd)
                        /\ \A r \in 1..position :
                             Covers(queue'[z][j].upd, r) => queue'[z][j].upd <= appended[z][r]
                        /\ \A x \in 1..(j - 1) :
                             queue'[z][x].op = "write" => queue'[z][x].upd < queue'[z][j].upd
    BY <1>3 DEF WritesQueued, IsWrite, Upd, Committed, Covers
  <2>2. PICK k \in 1..Len(queue[z]) : /\ queue'[z][j] = queue[z][k]
                                      /\ k = IF z = s /\ j >= i THEN j + 1 ELSE j
    BY <1>7
  <2>3. /\ queue[z][k].upd \in 1..latest[z]
        /\ updates[queue[z][k].upd].slab = z /\ Committed(queue[z][k].upd)
        /\ \A r \in 1..position : Covers(queue[z][k].upd, r) => queue[z][k].upd <= appended[z][r]
        /\ \A x \in 1..(k - 1) : queue[z][x].op = "write" => queue[z][x].upd < queue[z][k].upd
    BY <1>1, <2>1, <2>2 DEF IInv, WritesQueued, IsWrite, Upd
  <2>4. ASSUME NEW x \in 1..(j - 1), queue'[z][x].op = "write"
        PROVE  queue'[z][x].upd < queue'[z][j].upd
    <3>1. Len(queue'[z]) \in Nat
      BY <1>5
    <3>2. PICK y \in 1..Len(queue[z]) : /\ queue'[z][x] = queue[z][y]
                                        /\ y = IF z = s /\ x >= i THEN x + 1 ELSE x
      BY <1>7, <2>4, <3>1
    <3>3. y \in 1..(k - 1)
      BY <1>2, <2>2, <2>4, <3>2
    <3>4. QED
      BY <2>2, <2>3, <2>4, <3>2, <3>3
  <2>5. QED
    BY <2>2, <2>3, <2>4
<1>11. RowsHold'
  <2>1. SUFFICES ASSUME NEW z \in Slabs, NEW r \in 1..position
                 PROVE  /\ \/ slab'[z][r] = appended[z][r]
                           \/ ~Committed(appended[z][r])
                           \/ WriteBefore(z, appended[z][r], Len(queue[z]) + 1)'
                        /\ slab'[z][r] = appended[z][r] =>
                             \A j \in 1..Len(queue'[z]) :
                               queue'[z][j].op = "write" /\ Covers(queue'[z][j].upd, r)
                                 => queue'[z][j].upd = appended[z][r]
    BY SMTT(20), <1>3 DEF RowsHold, IsWrite, Upd, Committed, Covers, WriteBefore
  <2>2. PICK a \in Nat : a = appended[z][r]
    BY <1>1, <2>1 DEF IInv, PrefixRows
  <2>3. slab'[z][r] = a \/ ~Committed(a) \/ WriteBefore(z, a, Len(queue[z]) + 1)'
    <3>1. CASE slab[z][r] = a \/ ~Committed(a)
      BY <1>6, <2>2, <3>1
    <3>2. CASE z = s /\ IsWrite(s, i) /\ Upd(s, i) = a
      BY <1>6, <2>2, <3>2
    <3>3. CASE WriteBefore(z, a, Len(queue[z]) + 1) /\ ~(z = s /\ IsWrite(s, i) /\ Upd(s, i) = a)
      <4>1. PICK j : j = Len(queue'[z]) + 1
        OBVIOUS
      <4>2. PICK k : k = Len(queue[z]) + 1
        OBVIOUS
      <4>3. /\ j \in 1..(Len(queue'[z]) + 1) /\ k \in 1..(Len(queue[z]) + 1)
            /\ k = IF z = s /\ j >= i THEN j + 1 ELSE j
        BY <1>2, <1>5, <4>1, <4>2
      <4>4. WriteBefore(z, a, j)'
        BY <1>8, <2>2, <3>3, <4>2, <4>3
      <4>5. QED
        BY <4>1, <4>4 DEF WriteBefore
    <3>4. QED
      BY <1>1, <2>2, <3>1, <3>2, <3>3 DEF IInv, RowsHold
  <2>4. ASSUME slab'[z][r] = a, NEW j \in 1..Len(queue'[z]),
               queue'[z][j].op = "write", Covers(queue'[z][j].upd, r)
        PROVE  queue'[z][j].upd = a
    <3>1. PICK k \in 1..Len(queue[z]) : /\ queue'[z][j] = queue[z][k] /\ (z = s => k # i)
      BY <1>7
    <3>2. IsWrite(z, k) /\ Upd(z, k) = queue'[z][j].upd /\ Covers(Upd(z, k), r)
      BY <2>4, <3>1 DEF IsWrite, Upd
    <3>3. CASE slab[z][r] = a
      BY <1>1, <2>2, <3>2, <3>3 DEF IInv, RowsHold
    <3>4. CASE slab[z][r] # a
      <4>1. z = s /\ IsWrite(s, i) /\ Upd(s, i) = a
        BY <1>6, <2>4, <3>4
      <4>2. i < k
        BY <1>2, <1>3, <3>1, <3>2, <4>1
      <4>3. Upd(s, i) < Upd(z, k)
        BY <1>1, <1>2, <3>2, <4>1, <4>2 DEF IInv, WritesQueued
      <4>4. Upd(z, k) <= a /\ Upd(z, k) \in Nat
        BY <1>1, <2>2, <3>2 DEF IInv, WritesQueued
      <4>5. QED
        BY <2>2, <4>1, <4>3, <4>4
    <3>5. QED
      BY <3>3, <3>4
  <2>5. QED
    BY <1>3, <2>2, <2>3, <2>4 DEF WriteBefore
<1>12. ReadsQueued'
  <2>1. SUFFICES ASSUME NEW z \in Slabs, NEW j \in 1..Len(queue'[z]),
                        queue'[z][j].op # "write", queue'[z][j].gen = gen
                 PROVE  /\ Expects(z, queue'[z][j].want)
                        /\ \A r \in 1..Len(queue'[z][j].want) :
                             slab'[z][r] = appended[z][r] \/ WriteBefore(z, appended[z][r], j)'
    BY <1>3 DEF ReadsQueued, IsWrite, Expects, WriteBefore, Upd
  <2>2. PICK k \in 1..Len(queue[z]) : /\ queue'[z][j] = queue[z][k]
                                      /\ k = IF z = s /\ j >= i THEN j + 1 ELSE j
    BY <1>7
  <2>3. PICK want : want = queue[z][k].want
    OBVIOUS
  <2>4. want \in Rows /\ Len(want) \in Nat /\ position \in Nat
    BY <1>1, <2>3, Members DEF IInv, Rows
  <2>5. /\ Expects(z, want)
        /\ \A r \in 1..Len(want) : slab[z][r] = appended[z][r] \/ WriteBefore(z, appended[z][r], k)
    BY <1>1, <2>1, <2>2, <2>3 DEF IInv, ReadsQueued, IsWrite
  <2>6. ASSUME NEW r \in 1..Len(want), slab'[z][r] # appended[z][r]
        PROVE  WriteBefore(z, appended[z][r], j)'
    <3>1. r \in 1..position
      BY <2>4, <2>5 DEF Expects
    <3>2. PICK a \in Nat : a = appended[z][r]
      BY <1>1, <3>1 DEF IInv, PrefixRows
    <3>3. WriteBefore(z, a, k) /\ ~(z = s /\ IsWrite(s, i) /\ Upd(s, i) = a)
      BY <1>6, <2>5, <2>6, <3>1, <3>2
    <3>4. k \in 1..(Len(queue[z]) + 1) /\ j \in 1..(Len(queue'[z]) + 1)
      BY <1>2, <1>5
    <3>5. WriteBefore(z, a, j)'
      BY <1>8, <2>2, <3>2, <3>3, <3>4
    <3>6. QED
      BY <1>3, <3>2, <3>5 DEF WriteBefore
  <2>7. QED
    BY <2>2, <2>3, <2>5, <2>6
<1>13. QED
  BY <1>9, <1>10, <1>11, <1>12 DEF IInv
-----------------------------------------------------------------------------
\* What an evaluation queues for a slab: the write of the latest update, if it
\* is not committed yet, then the attention over the views.
LEMMA JobsQueued ==
  ASSUME IInv, NEW V \in SUBSET Views, NEW s \in Slabs
  PROVE  /\ Jobs(s, V) \in Seq(Job)
         /\ \A x \in 1..Len(Jobs(s, V)) : Jobs(s, V)[x].op = "write" =>
              x = 1 /\ Jobs(s, V)[x].upd = latest[s] /\ latest[s] \in ToDo(V)
         /\ \A x \in 1..Len(Jobs(s, V)) : Jobs(s, V)[x].op # "write" =>
              \E v \in V : v.slab = s /\ Jobs(s, V)[x].want = v.want /\ Jobs(s, V)[x].gen = v.gen
         /\ latest[s] \in ToDo(V) =>
              1 \in 1..Len(Jobs(s, V)) /\ Jobs(s, V)[1].op = "write" /\ Jobs(s, V)[1].upd = latest[s]
<1>1. PICK A : A = {Write(u) : u \in {w \in ToDo(V) : updates[w].slab = s}}
  OBVIOUS
<1>2. PICK B : B = {Read(v) : v \in {w \in V : w.slab = s}}
  OBVIOUS
<1>3. /\ \A v \in V : Taken(v) /\ v \in KeptView
      /\ \A u \in ToDo(V) : u \in 1..Len(updates) /\ u = latest[updates[u].slab]
  BY ToDoLatest
<1>4. gen \in Nat /\ <<>> \in Rows
  BY DEF IInv, Shapes, Rows
<1>5. A \subseteq {Write(latest[s])}
  BY <1>1, <1>3
<1>6. latest[s] \in ToDo(V) => Write(latest[s]) \in A
  <2>1. latest[s] \in ToDo(V) => updates[latest[s]].slab = s
    BY <1>3 DEF IInv, TypeOK
  <2>2. QED
    BY <1>1, <2>1
<1>7. A # {} => latest[s] \in ToDo(V)
  BY <1>1, <1>3
<1>8. /\ Write(latest[s]).op = "write" /\ Write(latest[s]).upd = latest[s]
      /\ Write(latest[s]) \in Job
  <2>1. latest[s] \in Nat
    BY Members DEF IInv
  <2>2. QED
    BY <1>4, <2>1 DEF Write, Job
<1>9. \A y \in B : y \in Job /\ y.op = "read"
                   /\ \E v \in V : v.slab = s /\ y.want = v.want /\ y.gen = v.gen
  <2>1. \A v \in V : v.want \in Rows /\ v.gen \in Nat
    BY <1>3 DEF KeptView
  <2>2. \A v \in V : /\ Read(v) \in Job /\ Read(v).op = "read"
                     /\ Read(v).want = v.want /\ Read(v).gen = v.gen
    BY <2>1 DEF Read, Job
  <2>3. QED
    BY <1>2, <2>2
<1>10. IsFiniteSet(A)
  BY <1>5, FS_Singleton, FS_Subset
<1>11. IsFiniteSet(B)
  <2>1. IsFiniteSet(V)
    <3>1. {View(z) : z \in Slabs} = {View("k")} \cup {View("v")}
      BY DEF Slabs
    <3>2. IsFiniteSet({View("k")} \cup {View("v")})
      BY FS_Singleton, FS_Union
    <3>3. IsFiniteSet(kept)
      BY DEF IInv, Shapes
    <3>4. IsFiniteSet(kept \cup ({View("k")} \cup {View("v")}))
      BY <3>2, <3>3, FS_Union
    <3>5. QED
      BY <3>1, <3>4, FS_Subset DEF Views
  <2>2. PICK C : C = {w \in V : w.slab = s}
    OBVIOUS
  <2>3. IsFiniteSet(C)
    BY <2>1, <2>2, FS_Subset
  <2>4. PICK f : f = [v \in C |-> Read(v)]
    OBVIOUS
  <2>5. f \in Surjection(C, B)
    BY <1>2, <2>2, <2>4 DEF Surjection
  <2>6. QED
    BY <2>3, <2>5, FS_Surjection
<1>12. PICK a : a = SetToSeq(A)
  OBVIOUS
<1>13. PICK b : b = SetToSeq(B)
  OBVIOUS
<1>14. /\ a \in Seq(A) /\ \A x \in A : \E i \in 1..Len(a) : a[i] = x
       /\ \A i, j \in 1..Len(a) : a[i] = a[j] => i = j
  BY <1>10, <1>12, SetToSeqLists
<1>15. b \in Seq(B)
  BY <1>11, <1>13, SetToSeqLists
<1>16. Jobs(s, V) = a \o b
  BY <1>1, <1>2, <1>12, <1>13 DEF Jobs
<1>17. /\ \A i \in 1..Len(a) : a[i] = Write(latest[s]) /\ i = 1 /\ latest[s] \in ToDo(V)
       /\ Len(a) \in Nat
  <2>1. Len(a) \in Nat /\ \A i \in 1..Len(a) : a[i] = Write(latest[s]) /\ a[i] \in A
    BY <1>5, <1>14
  <2>2. \A i \in 1..Len(a) : 1 \in 1..Len(a) /\ i = 1
    BY <1>14, <2>1
  <2>3. QED
    BY <1>7, <2>1, <2>2
<1>18. latest[s] \in ToDo(V) => Len(a) = 1
  <2>1. latest[s] \in ToDo(V) => \E i \in 1..Len(a) : i = 1
    BY <1>6, <1>14, <1>17
  <2>2. \A i \in 1..Len(a) : i = 1
    BY <1>17
  <2>3. QED
    BY <1>17, <2>1, <2>2
<1>19. /\ Len(b) \in Nat /\ \A i \in 1..Len(b) : b[i] \in B
       /\ a \in Seq(Job) /\ b \in Seq(Job)
  <2>1. A \subseteq Job /\ B \subseteq Job
    BY <1>5, <1>8, <1>9
  <2>2. QED
    BY <1>14, <1>15, <2>1
<1>20. /\ a \o b \in Seq(Job) /\ Len(a \o b) = Len(a) + Len(b)
       /\ \A x \in 1..Len(a \o b) : \/ x \in 1..Len(a) /\ (a \o b)[x] = a[x]
                                    \/ x - Len(a) \in 1..Len(b) /\ (a \o b)[x] = b[x - Len(a)]
       /\ 1 \in 1..Len(a) => 1 \in 1..Len(a \o b) /\ (a \o b)[1] = a[1]
  BY <1>17, <1>19
<1>21. PICK J : J = a \o b
  OBVIOUS
<1>22. /\ \A i \in 1..Len(a) : a[i].op = "write" /\ a[i].upd = latest[s]
       /\ \A i \in 1..Len(b) : /\ b[i].op = "read"
                               /\ \E v \in V : v.slab = s /\ b[i].want = v.want /\ b[i].gen = v.gen
  <2>1. \A i \in 1..Len(a) : a[i] = Write(latest[s])
    BY <1>17
  <2>2. \A i \in 1..Len(b) : b[i] \in B
    BY <1>19
  <2>3. QED
    BY <1>8, <1>9, <2>1, <2>2
<1>23. \A x \in 1..Len(J) : \/ x \in 1..Len(a) /\ J[x] = a[x]
                            \/ \E y \in 1..Len(b) : J[x] = b[y]
  BY <1>20, <1>21
<1>24. \A x \in 1..Len(J) : J[x].op = "write" =>
         x = 1 /\ J[x].upd = latest[s] /\ latest[s] \in ToDo(V)
  <2>1. ASSUME NEW x \in 1..Len(J), J[x].op = "write"
        PROVE  x = 1 /\ J[x].upd = latest[s] /\ latest[s] \in ToDo(V)
    <3>1. x \in 1..Len(a) /\ J[x] = a[x]
      BY <1>22, <1>23, <2>1
    <3>2. QED
      BY <1>17, <1>22, <3>1
  <2>2. QED
    BY <2>1
<1>25. \A x \in 1..Len(J) : J[x].op # "write" =>
         \E v \in V : v.slab = s /\ J[x].want = v.want /\ J[x].gen = v.gen
  <2>1. ASSUME NEW x \in 1..Len(J), J[x].op # "write"
        PROVE  \E v \in V : v.slab = s /\ J[x].want = v.want /\ J[x].gen = v.gen
    <3>1. \E y \in 1..Len(b) : J[x] = b[y]
      BY <1>22, <1>23, <2>1
    <3>2. QED
      BY <1>22, <3>1
  <2>2. QED
    BY <2>1
<1>26. latest[s] \in ToDo(V) => 1 \in 1..Len(J) /\ J[1].op = "write" /\ J[1].upd = latest[s]
  <2>1. latest[s] \in ToDo(V) => 1 \in 1..Len(a)
    BY <1>18
  <2>2. 1 \in 1..Len(a) => 1 \in 1..Len(J) /\ J[1] = a[1]
    BY <1>20, <1>21
  <2>3. QED
    BY <1>22, <2>1, <2>2
<1>27. Jobs(s, V) = J /\ J \in Seq(Job)
  BY <1>16, <1>20, <1>21
<1>28. QED
  BY <1>24, <1>25, <1>26, <1>27

\* An evaluation succeeds.
LEMMA EvalStep == \A V \in SUBSET Views : IInv /\ Eval(V) => IInv'
<1>1. SUFFICES ASSUME NEW V \in SUBSET Views, IInv, Eval(V) PROVE IInv'
  OBVIOUS
<1>2. /\ queue' = [s \in Slabs |-> queue[s] \o Jobs(s, V)]
      /\ updates' = [u \in DOMAIN updates |->
                       IF u \in ToDo(V) THEN [updates[u] EXCEPT !.committed = TRUE] ELSE updates[u]]
      /\ UNCHANGED <<position, latest, slab, gen, appended, kept>>
  BY <1>1 DEF Eval
<1>3. /\ Len(updates) \in Nat /\ DOMAIN updates = 1..Len(updates) /\ updates \in Seq(UpdateNode)
      /\ \A u \in 1..Len(updates) : updates[u] \in UpdateNode
      /\ \A s \in Slabs : queue[s] \in Seq(Job) /\ Len(queue[s]) \in Nat
      /\ position \in Nat
  BY <1>1, Members DEF IInv, Shapes
<1>4. /\ \A v \in V : Taken(v) /\ v \in KeptView
      /\ \A u \in ToDo(V) : u \in 1..Len(updates) /\ ~updates[u].committed
  BY <1>1, ToDoLatest
<1>5. \A u \in 1..Len(updates) :
        /\ updates'[u] \in UpdateNode /\ updates'[u].slab = updates[u].slab
        /\ updates'[u].offset = updates[u].offset /\ updates'[u].rows = updates[u].rows
        /\ updates'[u].committed <=> (updates[u].committed \/ u \in ToDo(V))
  <2>1. \A u \in 1..Len(updates) :
          updates'[u] = IF u \in ToDo(V) THEN [updates[u] EXCEPT !.committed = TRUE] ELSE updates[u]
    BY <1>2, <1>3
  <2>2. QED
    BY <1>3, <2>1 DEF UpdateNode
<1>6. updates' \in Seq(UpdateNode) /\ Len(updates') = Len(updates) /\ DOMAIN updates' = 1..Len(updates)
  <2>1. updates' \in [1..Len(updates) -> UpdateNode]
    BY <1>2, <1>3, <1>5
  <2>2. QED
    BY <1>3, <2>1
<1>7. /\ \A u \in 0..Len(updates) : Committed(u)' <=> Committed(u) \/ u \in ToDo(V)
      /\ \A u \in 1..Len(updates) : \A r \in Nat : Covers(u, r)' <=> Covers(u, r)
  BY <1>3, <1>5 DEF Committed, Covers
<1>8. \* The queues keep their jobs, and get the new ones behind.
      \A s \in Slabs :
        /\ queue'[s] \in Seq(Job) /\ Len(queue'[s]) \in Nat /\ Len(queue'[s]) >= Len(queue[s])
        /\ \A j \in 1..Len(queue[s]) : queue'[s][j] = queue[s][j]
        /\ \A j \in (Len(queue[s]) + 1)..Len(queue'[s]) : IsWrite(s, j)' =>
             /\ j = Len(queue[s]) + 1 /\ Upd(s, j)' = latest[s] /\ latest[s] \in ToDo(V)
        /\ \A j \in (Len(queue[s]) + 1)..Len(queue'[s]) : ~IsWrite(s, j)' =>
             \E v \in V : v.slab = s /\ queue'[s][j].want = v.want /\ queue'[s][j].gen = v.gen
        /\ latest[s] \in ToDo(V) =>
             /\ Len(queue[s]) + 1 \in 1..Len(queue'[s])
             /\ queue'[s][Len(queue[s]) + 1].op = "write"
             /\ queue'[s][Len(queue[s]) + 1].upd = latest[s]
  <2>1. SUFFICES ASSUME NEW s \in Slabs
        PROVE
        /\ queue'[s] \in Seq(Job) /\ Len(queue'[s]) \in Nat /\ Len(queue'[s]) >= Len(queue[s])
        /\ \A j \in 1..Len(queue[s]) : queue'[s][j] = queue[s][j]
        /\ \A j \in (Len(queue[s]) + 1)..Len(queue'[s]) : queue'[s][j].op = "write" =>
             /\ j = Len(queue[s]) + 1 /\ queue'[s][j].upd = latest[s] /\ latest[s] \in ToDo(V)
        /\ \A j \in (Len(queue[s]) + 1)..Len(queue'[s]) : queue'[s][j].op # "write" =>
             \E v \in V : v.slab = s /\ queue'[s][j].want = v.want /\ queue'[s][j].gen = v.gen
        /\ latest[s] \in ToDo(V) =>
             /\ Len(queue[s]) + 1 \in 1..Len(queue'[s])
             /\ queue'[s][Len(queue[s]) + 1].op = "write"
             /\ queue'[s][Len(queue[s]) + 1].upd = latest[s]
    BY <1>2, <2>1 DEF IsWrite, Upd
  <2>2. PICK q : q = queue[s]
    OBVIOUS
  <2>3. PICK J : J = Jobs(s, V)
    OBVIOUS
  <2>4. /\ J \in Seq(Job)
        /\ \A x \in 1..Len(J) : J[x].op = "write" =>
             x = 1 /\ J[x].upd = latest[s] /\ latest[s] \in ToDo(V)
        /\ \A x \in 1..Len(J) : J[x].op # "write" =>
             \E v \in V : v.slab = s /\ J[x].want = v.want /\ J[x].gen = v.gen
        /\ latest[s] \in ToDo(V) => 1 \in 1..Len(J) /\ J[1].op = "write" /\ J[1].upd = latest[s]
    BY <1>1, <2>3, JobsQueued
  <2>5. queue'[s] = q \o J
    BY <1>2, <2>2, <2>3
  <2>6. q \in Seq(Job) /\ Len(q) \in Nat /\ Len(J) \in Nat
    BY <1>3, <2>2, <2>4
  <2>7. /\ q \o J \in Seq(Job) /\ Len(q \o J) = Len(q) + Len(J)
        /\ \A j \in 1..Len(q) : (q \o J)[j] = q[j]
        /\ \A j \in (Len(q) + 1)..(Len(q) + Len(J)) :
             j - Len(q) \in 1..Len(J) /\ (q \o J)[j] = J[j - Len(q)]
    BY <2>4, <2>6
  <2>8. PICK z : z = q \o J
    OBVIOUS
  <2>9. /\ z \in Seq(Job) /\ Len(z) = Len(q) + Len(J)
        /\ \A j \in 1..Len(q) : z[j] = q[j]
        /\ \A j \in (Len(q) + 1)..Len(z) : j - Len(q) \in 1..Len(J) /\ z[j] = J[j - Len(q)]
    BY <2>7, <2>8
  <2>10. ASSUME NEW j \in (Len(q) + 1)..Len(z)
         PROVE  /\ z[j].op = "write" => /\ j = Len(q) + 1 /\ z[j].upd = latest[s]
                                        /\ latest[s] \in ToDo(V)
                /\ z[j].op # "write" => \E v \in V : v.slab = s /\ z[j].want = v.want /\ z[j].gen = v.gen
    <3>1. PICK x \in 1..Len(J) : x = j - Len(q) /\ z[j] = J[x]
      BY <2>9, <2>10
    <3>2. x = 1 => j = Len(q) + 1
      BY <2>6, <2>10, <3>1
    <3>3. QED
      BY <2>4, <3>1, <3>2
  <2>11. latest[s] \in ToDo(V) => /\ Len(q) + 1 \in 1..Len(z)
                                  /\ z[Len(q) + 1].op = "write" /\ z[Len(q) + 1].upd = latest[s]
    <3>1. 1 \in 1..Len(J) => /\ Len(q) + 1 \in 1..Len(z) /\ z[Len(q) + 1] = J[1]
      <4>1. ASSUME 1 \in 1..Len(J) PROVE Len(q) + 1 \in (Len(q) + 1)..Len(z) /\ (Len(q) + 1) - Len(q) = 1
        BY <2>6, <2>9, <4>1
      <4>2. QED
        BY SMTT(20), <2>6, <2>9, <4>1
    <3>2. QED
      BY <2>4, <3>1
  <2>12. queue'[s] = z /\ Len(z) \in Nat /\ Len(z) >= Len(q)
    BY <2>5, <2>6, <2>8, <2>9
  <2>13. QED
    BY <2>2, <2>9, <2>10, <2>11, <2>12
<1>9. \A s \in Slabs : \A u \in Nat : \A i \in 1..(Len(queue[s]) + 1) :
        WriteBefore(s, u, i) => \A j \in Nat : j >= i => WriteBefore(s, u, j)'
  <2>1. SUFFICES ASSUME NEW s \in Slabs, NEW u \in Nat, NEW i \in 1..(Len(queue[s]) + 1),
                        WriteBefore(s, u, i), NEW j \in Nat, j >= i
                 PROVE  \E x \in 1..(j - 1) : queue'[s][x].op = "write" /\ queue'[s][x].upd = u
    BY DEF WriteBefore, IsWrite, Upd
  <2>2. PICK y \in 1..(i - 1) : queue[s][y].op = "write" /\ queue[s][y].upd = u
    BY <2>1 DEF WriteBefore, IsWrite, Upd
  <2>3. y \in 1..Len(queue[s]) /\ y \in 1..(j - 1)
    BY <1>3, <2>1
  <2>4. QED
    BY SMTT(20), <1>8, <2>2, <2>3
<1>10. TypeOK'
  BY <1>1, <1>2, <1>3, <1>5, <1>6, Members DEF IInv, TypeOK
<1>11. Shapes'
  <2>1. queue' \in [Slabs -> Seq(Job)]
    BY <1>2, <1>8
  <2>2. QED
    BY <1>1, <1>2, <1>6, <2>1 DEF IInv, Shapes
<1>12. \A s \in Slabs : /\ latest[s] \in 0..Len(updates)
                        /\ \A r \in 1..position : /\ appended[s][r] \in 1..Len(updates)
                                                  /\ appended[s][r] <= latest[s]
                                                  /\ updates[appended[s][r]].slab = s
                                                  /\ Covers(appended[s][r], r)
  BY <1>1, Members DEF IInv, PrefixRows
<1>13. PrefixRows' /\ LatestRows'
  <2>1. PrefixRows'
    <3>1. SUFFICES ASSUME NEW s \in Slabs, NEW r \in 1..position
                   PROVE  /\ appended[s][r] \in 1..latest[s]
                          /\ updates'[appended[s][r]].slab = s
                          /\ r - updates'[appended[s][r]].offset \in 1..updates'[appended[s][r]].rows
      BY <1>2 DEF PrefixRows, Covers
    <3>2. appended[s][r] \in 1..latest[s]
      BY <1>1 DEF IInv, PrefixRows
    <3>3. QED
      BY <1>5, <1>12, <3>2 DEF Covers
  <2>2. LatestRows'
    <3>1. SUFFICES ASSUME NEW s \in Slabs, NEW r \in 1..position, latest[s] # 0,
                          r - updates'[latest[s]].offset \in 1..updates'[latest[s]].rows
                   PROVE  appended[s][r] = latest[s]
      BY <1>2 DEF LatestRows, Covers
    <3>2. latest[s] \in 1..Len(updates)
      BY <1>12, <3>1
    <3>3. Covers(latest[s], r)
      BY <1>5, <3>1, <3>2 DEF Covers
    <3>4. QED
      BY <1>1, <3>1, <3>3 DEF IInv, LatestRows
  <2>3. QED
    BY <2>1, <2>2
<1>14. WritesQueued'
  <2>1. SUFFICES ASSUME NEW s \in Slabs, NEW j \in 1..Len(queue'[s]), IsWrite(s, j)'
                 PROVE  /\ Upd(s, j)' \in 1..latest[s]
                        /\ updates'[Upd(s, j)'].slab = s /\ Committed(Upd(s, j))'
                        /\ \A r \in 1..position : Covers(Upd(s, j), r)' => Upd(s, j)' <= appended[s][r]
                        /\ \A x \in 1..(j - 1) : IsWrite(s, x)' => Upd(s, x)' < Upd(s, j)'
    BY <1>2 DEF WritesQueued
  <2>2. \A x \in 1..Len(queue[s]) : /\ IsWrite(s, x)' <=> IsWrite(s, x)
                                    /\ Upd(s, x)' = Upd(s, x)
    BY <1>8 DEF IsWrite, Upd
  <2>3. PICK u : u = Upd(s, j)'
    OBVIOUS
  <2>4. CASE j \in 1..Len(queue[s])
    <3>1. /\ u \in 1..latest[s] /\ updates[u].slab = s /\ Committed(u)
          /\ \A r \in 1..position : Covers(u, r) => u <= appended[s][r]
          /\ \A x \in 1..(j - 1) : IsWrite(s, x) => Upd(s, x) < u
      BY <1>1, <2>1, <2>2, <2>3, <2>4 DEF IInv, WritesQueued
    <3>2. u \in 1..Len(updates) /\ \A x \in 1..(j - 1) : x \in 1..Len(queue[s])
      BY <1>3, <1>12, <2>4, <3>1
    <3>3. updates'[u].slab = s /\ Committed(u)' /\ \A r \in 1..position : Covers(u, r)' => Covers(u, r)
      BY <1>3, <1>5, <1>7, <3>1, <3>2
    <3>4. QED
      BY <2>2, <2>3, <3>1, <3>2, <3>3 DEF Committed, Covers
  <2>5. CASE j \notin 1..Len(queue[s])
    <3>1. j = Len(queue[s]) + 1 /\ u = latest[s] /\ u \in ToDo(V)
      BY <1>3, <1>8, <2>1, <2>3, <2>5
    <3>2. u \in 1..Len(updates) /\ ~updates[u].committed /\ updates[u].slab = s /\ u \in 1..latest[s]
      BY <1>1, <1>4, <3>1, Members DEF IInv
    <3>3. updates'[u].slab = s /\ Committed(u)' /\ \A r \in 1..position : Covers(u, r)' => Covers(u, r)
      BY <1>3, <1>5, <1>7, <3>1, <3>2
    <3>4. \A r \in 1..position : Covers(u, r) => u <= appended[s][r]
      BY <1>1, <1>3, <3>1, <3>2 DEF IInv, LatestRows
    <3>5. ASSUME NEW x \in 1..(j - 1), IsWrite(s, x)' PROVE Upd(s, x)' < u
      <4>1. x \in 1..Len(queue[s])
        BY <1>3, <3>1
      <4>2. Upd(s, x) \in 1..latest[s] /\ Committed(Upd(s, x))
        BY <1>1, <2>2, <3>5, <4>1 DEF IInv, WritesQueued
      <4>3. QED
        BY <1>3, <2>2, <3>1, <3>2, <4>1, <4>2 DEF Committed
    <3>6. QED
      BY <2>3, <3>2, <3>3, <3>4, <3>5 DEF Committed, Covers
  <2>6. QED
    BY <2>4, <2>5
<1>15. \A s \in Slabs : \A r \in 1..position :
         \A j \in Nat : (j >= Len(queue[s]) + 1) =>
           \/ slab[s][r] = appended[s][r] \/ ~Committed(appended[s][r])
           \/ WriteBefore(s, appended[s][r], j)'
  <2>1. SUFFICES ASSUME NEW s \in Slabs, NEW r \in 1..position, NEW j \in Nat, j >= Len(queue[s]) + 1,
                        WriteBefore(s, appended[s][r], Len(queue[s]) + 1)
                 PROVE  WriteBefore(s, appended[s][r], j)'
    BY <1>1 DEF IInv, RowsHold
  <2>2. PICK a \in Nat : a = appended[s][r]
    BY <1>12
  <2>3. PICK i \in 1..(Len(queue[s]) + 1) : i = Len(queue[s]) + 1
    BY <1>3
  <2>4. WriteBefore(s, a, j)'
    BY <1>9, <2>1, <2>2, <2>3
  <2>5. QED
    BY <1>2, <2>2, <2>4 DEF WriteBefore
<1>16. \A s \in Slabs : latest[s] \in ToDo(V) =>
         \A j \in Nat : j > Len(queue[s]) + 1 => WriteBefore(s, latest[s], j)'
  <2>1. SUFFICES ASSUME NEW s \in Slabs, latest[s] \in ToDo(V), NEW j \in Nat, j > Len(queue[s]) + 1
                 PROVE  \E x \in 1..(j - 1) : IsWrite(s, x)' /\ Upd(s, x)' = latest[s]
    BY <1>2 DEF WriteBefore
  <2>2. Len(queue[s]) + 1 \in 1..(j - 1)
    BY <1>3, <2>1
  <2>3. PICK x \in 1..(j - 1) : x = Len(queue[s]) + 1
    BY <2>2
  <2>4. IsWrite(s, x)' /\ Upd(s, x)' = latest[s]
    BY <1>8, <2>1, <2>3 DEF IsWrite, Upd
  <2>5. QED
    BY <2>4
<1>17. RowsHold'
  <2>1. SUFFICES ASSUME NEW s \in Slabs, NEW r \in 1..position
                 PROVE  /\ \/ slab[s][r] = appended[s][r]
                           \/ ~Committed(appended[s][r])'
                           \/ WriteBefore(s, appended[s][r], Len(queue[s]) + 1)'
                        /\ slab[s][r] = appended[s][r] =>
                             \A j \in 1..Len(queue'[s]) :
                               IsWrite(s, j)' /\ Covers(Upd(s, j), r)' => Upd(s, j)' = appended[s][r]
    BY <1>2 DEF RowsHold
  <2>2. PICK a \in 1..Len(updates) : a = appended[s][r]
    BY <1>12
  <2>3. PICK n \in Nat : n = Len(queue'[s]) + 1 /\ n >= Len(queue[s]) + 1
    BY <1>3, <1>8
  <2>4. slab[s][r] = a \/ ~Committed(a)' \/ WriteBefore(s, a, n)'
    <3>1. CASE slab[s][r] = a \/ (~Committed(a) /\ a \notin ToDo(V))
      BY <1>3, <1>7, <2>2, <3>1
    <3>2. CASE a \in ToDo(V)
      <4>1. a = latest[s]
        BY <1>1, <1>12, <2>2, <3>2, ToDoLatest
      <4>2. n > Len(queue[s]) + 1
        BY <1>3, <1>8, <2>3, <3>2, <4>1
      <4>3. WriteBefore(s, latest[s], n)'
        BY <1>16, <3>2, <4>1, <4>2
      <4>4. QED
        BY <1>2, <4>1, <4>3 DEF WriteBefore
    <3>3. CASE Committed(a) /\ slab[s][r] # a
      <4>1. WriteBefore(s, appended[s][r], n)'
        BY <1>15, <2>2, <2>3, <3>3
      <4>2. QED
        BY <1>2, <2>2, <4>1 DEF WriteBefore
    <3>4. QED
      BY <3>1, <3>2, <3>3
  <2>5. ASSUME slab[s][r] = a, NEW j \in 1..Len(queue'[s]), IsWrite(s, j)', Covers(Upd(s, j), r)'
        PROVE  Upd(s, j)' = a
    <3>1. CASE j \in 1..Len(queue[s])
      <4>1. PICK u : u = Upd(s, j)
        OBVIOUS
      <4>2. IsWrite(s, j) /\ Upd(s, j)' = u
        BY <1>8, <2>5, <3>1, <4>1 DEF IsWrite, Upd
      <4>3. u \in 1..Len(updates)
        BY <1>1, <1>3, <1>12, <3>1, <4>1, <4>2 DEF IInv, WritesQueued
      <4>4. Covers(u, r)
        BY <1>5, <2>5, <4>2, <4>3 DEF Covers
      <4>5. QED
        BY <1>1, <2>2, <2>5, <3>1, <4>1, <4>2, <4>4 DEF IInv, RowsHold
    <3>2. CASE j \notin 1..Len(queue[s])
      <4>1. Upd(s, j)' = latest[s] /\ latest[s] \in ToDo(V)
        BY <1>3, <1>8, <2>5, <3>2
      <4>2. latest[s] \in 1..Len(updates) /\ latest[s] # 0
        BY <1>4, <4>1
      <4>3. Covers(latest[s], r)
        BY <1>5, <2>5, <4>1, <4>2 DEF Covers
      <4>4. QED
        BY <1>1, <2>2, <4>1, <4>2, <4>3 DEF IInv, LatestRows
    <3>3. QED
      BY <3>1, <3>2
  <2>6. QED
    BY <1>2, <2>2, <2>3, <2>4, <2>5 DEF WriteBefore, Committed
<1>18. ViewsTaken'
  BY <1>1, <1>2, <1>6 DEF IInv, ViewsTaken, Taken, Expects
<1>19. ReadsQueued'
  <2>1. SUFFICES ASSUME NEW s \in Slabs, NEW j \in 1..Len(queue'[s]),
                        ~IsWrite(s, j)', queue'[s][j].gen = gen
                 PROVE  /\ Expects(s, queue'[s][j].want)
                        /\ \A r \in 1..Len(queue'[s][j].want) :
                             slab[s][r] = appended[s][r] \/ WriteBefore(s, appended[s][r], j)'
    BY <1>2 DEF ReadsQueued, Expects
  <2>2. CASE j \in 1..Len(queue[s])
    <3>1. queue'[s][j] = queue[s][j] /\ ~IsWrite(s, j)
      BY <1>8, <2>1, <2>2 DEF IsWrite
    <3>2. PICK want : want = queue[s][j].want
      OBVIOUS
    <3>3. /\ Expects(s, want) /\ want \in Rows
          /\ \A r \in 1..Len(want) : slab[s][r] = appended[s][r] \/ WriteBefore(s, appended[s][r], j)
      BY <1>1, <2>1, <2>2, <3>1, <3>2, Members DEF IInv, ReadsQueued
    <3>4. ASSUME NEW r \in 1..Len(want), slab[s][r] # appended[s][r]
          PROVE  WriteBefore(s, appended[s][r], j)'
      <4>1. r \in 1..position
        BY <1>3, <3>3 DEF Expects, Rows
      <4>2. PICK a \in Nat : a = appended[s][r]
        BY <1>12, <4>1
      <4>3. j \in 1..(Len(queue[s]) + 1) /\ j \in Nat /\ j >= j
        BY <1>3, <2>2
      <4>4. WriteBefore(s, a, j)'
        BY <1>9, <3>3, <3>4, <4>2, <4>3
      <4>5. QED
        BY <1>2, <4>2, <4>4 DEF WriteBefore
    <3>5. QED
      BY <3>1, <3>2, <3>3, <3>4
  <2>3. CASE j \notin 1..Len(queue[s])
    <3>1. j \in (Len(queue[s]) + 1)..Len(queue'[s]) /\ j \in Nat /\ j >= Len(queue[s]) + 1
      BY <1>3, <1>8, <2>3
    <3>2. PICK v \in V : v.slab = s /\ queue'[s][j].want = v.want /\ queue'[s][j].gen = v.gen
      BY <1>8, <2>1, <3>1
    <3>3. PICK want : want = v.want
      OBVIOUS
    <3>4. /\ v \in KeptView /\ Expects(s, want) /\ v.upd <= latest[s]
          /\ \A r \in 1..Len(want) : want[r] <= v.upd
      BY <1>4, <2>1, <3>2, <3>3 DEF Taken
    <3>5. want \in Rows /\ v.upd \in Nat
      BY <3>3, <3>4 DEF KeptView
    <3>6. ASSUME NEW r \in 1..Len(want), slab[s][r] # appended[s][r]
          PROVE  WriteBefore(s, appended[s][r], j)'
      <4>1. r \in 1..position /\ want[r] = appended[s][r]
        BY <1>3, <3>4, <3>5 DEF Expects, Rows
      <4>2. CASE Committed(appended[s][r])
        BY <1>15, <3>1, <3>6, <4>1, <4>2
      <4>3. CASE ~Committed(appended[s][r])
        <5>1. PICK a \in 1..Len(updates) : a = appended[s][r] /\ a <= latest[s] /\ updates[a].slab = s
          BY <1>12, <4>1
        <5>2. a = latest[s]
          BY <1>1, <1>3, <4>3, <5>1 DEF IInv, NothingToReplay
        <5>3. v.upd = a
          BY <1>12, <3>4, <3>5, <4>1, <5>1, <5>2
        <5>4. a \in ToDo(V)
          BY <3>2, <4>3, <5>1, <5>3 DEF ToDo
        <5>5. j > Len(queue[s]) + 1
          <6>1. j # Len(queue[s]) + 1
            BY <1>8, <2>1, <5>2, <5>4 DEF IsWrite
          <6>2. QED
            BY <1>3, <3>1, <6>1
        <5>6. WriteBefore(s, latest[s], j)'
          BY <1>16, <3>1, <5>2, <5>4, <5>5
        <5>7. QED
          BY <1>2, <5>1, <5>2, <5>6 DEF WriteBefore
      <4>4. QED
        BY <4>2, <4>3
    <3>7. QED
      BY <3>2, <3>3, <3>4, <3>6
  <2>4. QED
    BY <2>2, <2>3
<1>20. NothingToReplay'
  <2>1. SUFFICES ASSUME NEW u \in 1..Len(updates), u # 0, ~updates'[u].committed
                 PROVE  u = latest[updates'[u].slab]
    BY <1>2, <1>6 DEF NothingToReplay, Committed
  <2>2. ~updates[u].committed /\ updates'[u].slab = updates[u].slab
    BY <1>5, <2>1
  <2>3. QED
    BY <1>1, <1>3, <2>1, <2>2 DEF IInv, NothingToReplay, Committed
<1>21. QED
  BY <1>10, <1>11, <1>13, <1>14, <1>17, <1>18, <1>19, <1>20 DEF IInv
-----------------------------------------------------------------------------
\* Every step keeps the invariant.
LEMMA NextIInv == IInv /\ [Next]_vars => IInv'
<1>1. SUFFICES ASSUME IInv, [Next]_vars PROVE IInv'
  OBVIOUS
<1>2. CASE UNCHANGED vars
  BY <1>1, <1>2, KeptStep DEF vars, IInv, Shapes
<1>3. ASSUME NEW V \in SUBSET (kept \cup {View(s) : s \in Slabs}) \ {{}}, Eval(V) \/ EvalFails(V)
      PROVE  IInv'
  <2>1. V \in SUBSET Views
    BY <1>3 DEF Views
  <2>2. QED
    BY <1>1, <1>3, <2>1, EvalStep, EvalFailsStep
<1>4. QED
  BY <1>1, <1>2, <1>3, UpdateStep, UpdateFailsStep, KeepViewStep, DropViewStep, ResetStep, RunStep
     DEF Next

\* The invariant always holds.
LEMMA AlwaysIInv == Spec => []IInv
<1>1. QED
  BY InitIInv, NextIInv, PTL DEF Spec

\* The fields of the cache keep their ranges, and every update its slab.
THEOREM CacheTyped == Spec => []TypeOK
<1>1. IInv => TypeOK
  BY DEF IInv
<1>2. QED
  BY <1>1, AlwaysIInv, PTL

\* No view kept from earlier can write into rows used again.
THEOREM CacheNothingToReplay == Spec => []NothingToReplay
<1>1. IInv => NothingToReplay
  BY DEF IInv
<1>2. QED
  BY <1>1, AlwaysIInv, PTL

\* An attention that may run finds the rows its view was taken of, even when
\* later updates have overtaken it.
THEOREM CacheAttentionReadsPrefix == Spec => []AttentionReadsPrefix
<1>1. IInv => AttentionReadsPrefix
  <2>1. SUFFICES ASSUME IInv, NEW s \in Slabs, NEW i \in 1..Len(queue[s]), ~IsWrite(s, i),
                        queue[s][i].gen = gen, Clear(s, i)
                 PROVE  Intact(s, queue[s][i].want)
    <3>1. ASSUME IInv PROVE \A s \in Slabs : DOMAIN queue[s] = 1..Len(queue[s])
      BY <3>1, Members DEF IInv
    <3>2. QED
      BY <3>1 DEF AttentionReadsPrefix, IsWrite
  <2>2. PICK want : want = queue[s][i].want
    OBVIOUS
  <2>3. want \in Rows /\ DOMAIN want = 1..Len(want)
    BY <2>1, <2>2, Members DEF IInv, Rows
  <2>4. /\ \A r \in 1..Len(want) : want[r] = appended[s][r]
        /\ \A r \in 1..Len(want) : slab[s][r] = appended[s][r] \/ WriteBefore(s, appended[s][r], i)
    BY <2>1, <2>2 DEF IInv, ReadsQueued, Expects
  <2>5. \A u : ~WriteBefore(s, u, i)
    BY <2>1 DEF Clear, WriteBefore, IsWrite
  <2>6. QED
    BY <2>2, <2>3, <2>4, <2>5 DEF Intact
<1>2. QED
  BY <1>1, AlwaysIInv, PTL

\* Once the GPU is idle and the latest update committed, the slab holds the
\* whole prefix.
THEOREM CacheLatestHoldsPrefix == Spec => []LatestHoldsPrefix
<1>1. IInv => LatestHoldsPrefix
  <2>1. SUFFICES ASSUME IInv, Idle, PriorUpdateCommitted, NEW s \in Slabs
                 PROVE  Intact(s, appended[s])
    BY DEF LatestHoldsPrefix
  <2>2. /\ \A u \in 1..Len(updates) : Committed(u)
        /\ Len(updates) \in Nat /\ latest[s] \in 0..Len(updates)
        /\ appended[s] \in Rows /\ Len(appended[s]) = position /\ DOMAIN appended[s] = 1..position
    BY <2>1, AllCommitted, Members DEF Committed, IInv, Rows
  <2>3. \A r \in 1..position : Committed(appended[s][r])
    BY <2>1, <2>2 DEF IInv, PrefixRows
  <2>4. Len(queue[s]) = 0
    BY <2>1 DEF Idle
  <2>5. \A u : ~WriteBefore(s, u, Len(queue[s]) + 1)
    BY <2>4 DEF WriteBefore
  <2>6. \A r \in 1..position : slab[s][r] = appended[s][r]
    BY <2>1, <2>3, <2>5 DEF IInv, RowsHold
  <2>7. QED
    BY <2>2, <2>6 DEF Intact
<1>2. QED
  BY <1>1, AlwaysIInv, PTL

\* Within a sequence no step spoils a row of the prefix that had its content.
THEOREM CachePrefixSurvives == Spec => PrefixSurvives
<1>1. IInv /\ [Next]_vars =>
        [gen' = gen =>
           \A s \in Slabs : \A r \in 1..position :
             slab[s][r] = appended[s][r] => slab'[s][r] = appended[s][r]]_vars
  <2>1. SUFFICES ASSUME IInv, Next
                 PROVE  \A s \in Slabs : \A r \in 1..position :
                          slab[s][r] = appended[s][r] => slab'[s][r] = appended[s][r]
    OBVIOUS
  <2>2. CASE slab' = slab
    BY <2>2
  <2>3. ASSUME NEW V \in SUBSET (kept \cup {View(s) : s \in Slabs}) \ {{}}, EvalFails(V)
        PROVE  \A s \in Slabs : \A r \in 1..position :
                 slab[s][r] = appended[s][r] => slab'[s][r] = appended[s][r]
    <3>1. V \in SUBSET Views
      BY <2>3 DEF Views
    <3>2. QED
      BY <2>1, <2>3, <3>1, EvalFailsRows
  <2>4. ASSUME NEW z \in Slabs, NEW i \in DOMAIN queue[z], Run(z, i)
        PROVE  \A s \in Slabs : \A r \in 1..position :
                 slab[s][r] = appended[s][r] => slab'[s][r] = appended[s][r]
    <3>1. i \in 1..Len(queue[z])
      BY <2>1, <2>4, Members DEF IInv
    <3>2. QED
      BY <2>1, <2>4, <3>1, RunRows
  <2>5. ASSUME slab' # slab
        PROVE  \/ \E V \in SUBSET (kept \cup {View(s) : s \in Slabs}) \ {{}} : EvalFails(V)
               \/ \E z \in Slabs : \E i \in DOMAIN queue[z] : Run(z, i)
    BY <2>1, <2>5 DEF Next, Update, UpdateFails, KeepView, DropView, Eval, Reset
  <2>6. QED
    BY <2>2, <2>3, <2>4, <2>5
<1>2. QED
  BY <1>1, AlwaysIInv, PTL DEF Spec, PrefixSurvives
=============================================================================
