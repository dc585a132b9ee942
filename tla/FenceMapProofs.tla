-------------------------- MODULE FenceMapProofs --------------------------
(***************************************************************************)
(* Proofs about FenceMap, for any set of buffers and any number of         *)
(* encoders: on the GPU every earlier writer finishes first, nothing that  *)
(* may run waits for a discarded fence, and the map names the last writer. *)
(*                                                                         *)
(* WritersFirst is not inductive: an encoder waits for the LAST writer of  *)
(* each buffer only, so that an earlier writer has finished follows along  *)
(* the chain of waits (Covered).  That the wait set is the right one at    *)
(* close needs the map to name the last writer (MapIsLastWriter), and that *)
(* this survives an abandoned session needs to know what the displaced     *)
(* entries hold (UndoInv): the last writers among the committed encoders.  *)
(***************************************************************************)
EXTENDS FenceMap, SequenceTheorems, WellFoundedInduction, TLAPS

SessionInv ==
  /\ session = "none" => encoder = 0 /\ restore = <<>> /\ Mine = {}
  /\ encoder # 0 => stage[encoder] = "open" /\ encoder = opened
  /\ \A e \in Encoders : stage[e] = "open" => e = encoder
  /\ \A e \in Encoders : stage[e] # "unused" => e <= opened

WaitsInv ==
  /\ \A e \in Encoders : Published(e) => writes[e] \subseteq touch[e]
  /\ \A e \in Encoders : Published(e) => \A f \in waits[e] : Published(f)
  /\ \A e \in Encoders : Committed(e) => \A f \in waits[e] : Committed(f)
  /\ \A e \in Encoders : Started(e) => \A f \in waits[e] : stage[f] = "done"

\* Behind each earlier writer f of something e touches, e waits for f or for a
\* later writer of the same buffer, itself behind f.
Covered ==
  \A e, f \in Encoders : \A k \in Keys :
    (Published(e) /\ Published(f) /\ f < e /\ k \in writes[f] /\ k \in touch[e])
      => \E g \in waits[e] : f <= g /\ g < e /\ k \in writes[g]

UndoInv ==
  \A k \in Keys :
    /\ (\A i \in 1..Len(restore) : restore[i][1] # k)
         => IsLastWriter(prev_outputs[k], k, {e \in Encoders : Committed(e)})
    /\ \A i \in 1..Len(restore) : IsFirst(restore, k, i)
         => IsLastWriter(restore[i][2], k, {e \in Encoders : Committed(e)})

IInv == /\ TypeOK /\ SessionInv /\ WaitsInv /\ Covered
        /\ MapIsLastWriter /\ UndoInv /\ WritersFirst

\* Encoders are numbered from 1; 0 stands for no writer.
LEMMA EncodersAreNumbers == Encoders \subseteq Nat /\ 0 \notin Encoders
BY FenceAssumption DEF Encoders

\* The invariant holds at the start.
LEMMA InitIInv == Init => IInv
<1>1. SUFFICES ASSUME Init PROVE IInv
  OBVIOUS
<1>2. /\ \A e \in Encoders : stage[e] = "unused" /\ waits[e] = {} /\ writes[e] = {}
      /\ \A k \in Keys : prev_outputs[k] = 0
      /\ restore = <<>> /\ encoder = 0 /\ session = "none"
  BY <1>1 DEF Init
<1>3. TypeOK
  <2>1. <<>> \in Seq(Keys) /\ <<>> \in Seq(Keys \X (0..MaxEncoders))
    OBVIOUS
  <2>2. prev_outputs \in [Keys -> 0..MaxEncoders] /\ encoder \in 0..MaxEncoders
        /\ opened \in 0..MaxEncoders
    BY <1>1, FenceAssumption DEF Init
  <2>3. /\ stage \in [Encoders -> {"unused", "open", "closed", "queued",
                                   "running", "done", "dead"}]
        /\ waits \in [Encoders -> SUBSET Encoders]
        /\ touch \in [Encoders -> SUBSET Keys]
        /\ writes \in [Encoders -> SUBSET Keys]
    BY <1>1 DEF Init
  <2>4. QED
    BY <1>1, <2>1, <2>2, <2>3 DEF Init, TypeOK
<1>4. SessionInv
  BY <1>2 DEF SessionInv, Mine
<1>5. \A e \in Encoders : ~Published(e) /\ ~Committed(e) /\ ~Started(e)
  BY <1>2 DEF Published, Committed, Started
<1>6. WaitsInv /\ Covered /\ WritersFirst
  BY <1>5 DEF WaitsInv, Covered, WritersFirst
<1>7. MapIsLastWriter
  BY <1>2, <1>5 DEF MapIsLastWriter, IsLastWriter
<1>8. UndoInv
  BY <1>2, <1>5 DEF UndoInv, IsLastWriter
<1>9. QED
  BY <1>3, <1>4, <1>6, <1>7, <1>8 DEF IInv
-----------------------------------------------------------------------------
\* Steps that neither close an encoder nor discard one leave the history alone.
Frame == UNCHANGED <<prev_outputs, restore, waits, touch, writes>>

\* A step that keeps the published and the committed encoders, and starts at
\* most encoders whose waits are done, keeps everything but the session.
LEMMA FrameStep ==
  ASSUME IInv, TypeOK', SessionInv', Frame,
         \A e \in Encoders : (Published(e)' <=> Published(e)) /\ (Committed(e)' <=> Committed(e)),
         \A e \in Encoders : stage[e] = "done" => stage'[e] = "done",
         \A e \in Encoders : Started(e)' => Committed(e) /\ \A f \in waits[e] : stage[f] = "done"
  PROVE  IInv'
<1>1. /\ {e \in Encoders : Published(e)'} = {e \in Encoders : Published(e)}
      /\ {e \in Encoders : Committed(e)'} = {e \in Encoders : Committed(e)}
  OBVIOUS
<1>2. \A e \in Encoders : waits[e] \subseteq Encoders
  BY DEF IInv, TypeOK
<1>3. WaitsInv'
  BY <1>2 DEF IInv, WaitsInv, Frame
<1>4. Covered'
  BY <1>2 DEF IInv, Covered, Frame
<1>5. MapIsLastWriter'
  BY <1>1 DEF IInv, MapIsLastWriter, IsLastWriter, Frame
<1>6. UndoInv'
  BY <1>1 DEF IInv, UndoInv, IsLastWriter, IsFirst, Frame
<1>7. WritersFirst'
  <2>1. SUFFICES ASSUME NEW e \in Encoders, NEW f \in Encoders, NEW k \in Keys,
                        Started(e)', f < e, Published(f)',
                        k \in writes[f], k \in touch[e]
                 PROVE  stage'[f] = "done"
    BY DEF WritersFirst, Frame, IInv, TypeOK
  <2>2. Published(e) /\ Published(f)
    BY <2>1 DEF Published
  <2>3. PICK g \in waits[e] : f <= g /\ g < e /\ k \in writes[g]
    BY <2>1, <2>2 DEF IInv, Covered
  <2>4. stage[g] = "done" /\ g \in Encoders
    BY <1>2, <2>1, <2>3
  <2>5. CASE f = g
    BY <2>4, <2>5
  <2>6. CASE f < g
    <3>1. k \in touch[g] /\ Started(g)
      BY <2>3, <2>4 DEF IInv, WaitsInv, Published, Committed, Started
    <3>2. stage[f] = "done"
      BY <2>1, <2>2, <2>3, <2>4, <2>6, <3>1 DEF IInv, WritersFirst
    <3>3. QED
      BY <3>2
  <2>7. QED
    BY <2>3, <2>4, <2>5, <2>6, EncodersAreNumbers
<1>8. QED
  BY <1>3, <1>4, <1>5, <1>6, <1>7 DEF IInv
-----------------------------------------------------------------------------
\* What a close puts in the map, and what it remembers of what was there.
LEMMA DisplacedProperties ==
  ASSUME NEW map \in [Keys -> 0..MaxEncoders], NEW keys \in Seq(Keys),
         NEW fence \in 0..MaxEncoders
  PROVE  LET d == Displaced(map, keys, fence)
         IN  /\ d \in Seq(Keys \X (0..MaxEncoders))
             /\ Len(d) = Len(keys)
             /\ \A i \in 1..Len(keys) : d[i][1] = keys[i]
             /\ \A i \in 1..Len(keys) :
                  (\A j \in 1..(i - 1) : keys[j] # keys[i]) => d[i][2] = map[keys[i]]
<1> DEFINE d == Displaced(map, keys, fence)
<1>1. Len(keys) \in Nat /\ \A i \in 1..Len(keys) : keys[i] \in Keys
  BY LenProperties, ElementOfSeq
<1>2. \A i \in 1..Len(keys) :
        d[i] = <<keys[i], IF \E j \in 1..(i - 1) : keys[j] = keys[i] THEN fence ELSE map[keys[i]]>>
  BY DEF Displaced
<1>3. \A i \in 1..Len(keys) : d[i] \in Keys \X (0..MaxEncoders)
  <2>1. SUFFICES ASSUME NEW i \in 1..Len(keys)
                 PROVE  d[i] \in Keys \X (0..MaxEncoders)
    OBVIOUS
  <2>2. keys[i] \in Keys /\ map[keys[i]] \in 0..MaxEncoders
    BY <1>1
  <2> DEFINE v == IF \E j \in 1..(i - 1) : keys[j] = keys[i] THEN fence ELSE map[keys[i]]
  <2>3. v \in 0..MaxEncoders
    BY <2>2
  <2>4. d[i] = <<keys[i], v>>
    BY <1>2
  <2> HIDE DEF v, d
  <2>5. QED
    BY <2>2, <2>3, <2>4
<1>4. d \in [1..Len(keys) -> Keys \X (0..MaxEncoders)]
  BY <1>3 DEF Displaced
<1>5. d \in Seq(Keys \X (0..MaxEncoders)) /\ Len(d) = Len(keys)
  <2>1. d \in Seq(Keys \X (0..MaxEncoders))
    BY <1>1, <1>4, IsASeq
  <2>2. DOMAIN d = 1..Len(d) /\ DOMAIN d = 1..Len(keys) /\ Len(d) \in Nat
    BY <1>4, <2>1, LenProperties
  <2>3. QED
    BY <1>1, <2>1, <2>2
<1>6. \A i \in 1..Len(keys) : d[i][1] = keys[i]
  BY <1>2
<1>7. \A i \in 1..Len(keys) :
        (\A j \in 1..(i - 1) : keys[j] # keys[i]) => d[i][2] = map[keys[i]]
  BY <1>2
<1> HIDE DEF d
<1>8. QED
  BY <1>5, <1>6, <1>7 DEF d

\* The entries displaced by a close extend the undo log: a key the log already
\* had keeps its earliest entry, a new key is undone to what the map held.
ExtendsLog(new, log, map, keys) ==
  /\ \A k \in Keys : (\A i \in 1..Len(new) : new[i][1] # k) =>
       /\ \A i \in 1..Len(log) : log[i][1] # k
       /\ \A i \in 1..Len(keys) : keys[i] # k
  /\ \A k \in Keys : \A i \in 1..Len(new) : IsFirst(new, k, i) =>
       \/ IsFirst(log, k, i) /\ new[i] = log[i]
       \/ /\ \A j \in 1..Len(log) : log[j][1] # k
          /\ new[i][2] = map[k]

\* A publish extends the undo log by what it displaced.
LEMMA ExtendedLog ==
  ASSUME NEW map \in [Keys -> 0..MaxEncoders], NEW keys \in Seq(Keys),
         NEW fence \in 0..MaxEncoders, NEW log \in Seq(Keys \X (0..MaxEncoders)),
         NEW new, new = log \o Displaced(map, keys, fence)
  PROVE  new \in Seq(Keys \X (0..MaxEncoders)) /\ ExtendsLog(new, log, map, keys)
<1> DEFINE d == Displaced(map, keys, fence)
           n == Len(log)
           m == Len(keys)
<1>0. new = log \o d
  OBVIOUS
<1>1. /\ d \in Seq(Keys \X (0..MaxEncoders)) /\ Len(d) = m
      /\ \A i \in 1..m : d[i][1] = keys[i]
      /\ \A i \in 1..m : (\A j \in 1..(i - 1) : keys[j] # keys[i]) => d[i][2] = map[keys[i]]
  BY DisplacedProperties
<1> HIDE DEF d
<1>2. n \in Nat /\ m \in Nat
  BY LenProperties
<1>3. new \in Seq(Keys \X (0..MaxEncoders)) /\ Len(new) = n + m
  <2>1. log \o d \in Seq(Keys \X (0..MaxEncoders)) /\ Len(log \o d) = Len(log) + Len(d)
    BY <1>1, ConcatProperties, Zenon
  <2>2. QED
    BY <1>0, <1>1, <2>1
<1>3a. \A i \in 1..n : new[i] = log[i]
  BY <1>0, <1>1, <1>2, ConcatProperties
<1>3b. \A i \in 1..m : new[n + i] = d[i]
  <2>1. SUFFICES ASSUME NEW i \in 1..m PROVE new[n + i] = d[i]
    OBVIOUS
  <2>2. n + i \in 1..(Len(log) + Len(d)) /\ ~(n + i <= Len(log)) /\ n + i - Len(log) = i
    <3>1. Len(d) = m /\ Len(log) = n
      BY <1>1
    <3>2. n + i \in 1..(n + m) /\ ~(n + i <= n) /\ n + i - n = i
      BY <1>2
    <3>3. QED
      BY <3>1, <3>2
  <2>3. QED
    BY <1>0, <1>1, <2>2, ConcatProperties
<1>3c. \A i \in 1..n : i \in 1..(n + m)
  BY <1>2
<1>3d. \A i \in 1..m : n + i \in 1..(n + m)
  BY <1>2
<1> HIDE DEF n, m
<1>4. \A k \in Keys : (\A i \in 1..Len(new) : new[i][1] # k) =>
        /\ \A i \in 1..n : log[i][1] # k
        /\ \A i \in 1..m : keys[i] # k
  <2>1. SUFFICES ASSUME NEW k \in Keys, \A i \in 1..Len(new) : new[i][1] # k
                 PROVE  /\ \A i \in 1..n : log[i][1] # k
                        /\ \A i \in 1..m : keys[i] # k
    OBVIOUS
  <2>2. \A i \in 1..n : log[i][1] # k
    BY <1>3, <1>3a, <1>3c, <2>1
  <2>3. ASSUME NEW i \in 1..m PROVE keys[i] # k
    <3>1. n + i \in 1..Len(new) /\ new[n + i] = d[i] /\ d[i][1] = keys[i]
      BY <1>1, <1>3, <1>3b, <1>3d
    <3>2. QED
      BY <2>1, <3>1
  <2>4. QED
    BY <2>2, <2>3
<1>5. \A k \in Keys : \A i \in 1..Len(new) : IsFirst(new, k, i) =>
        \/ IsFirst(log, k, i) /\ new[i] = log[i]
        \/ /\ \A j \in 1..n : log[j][1] # k
           /\ new[i][2] = map[k]
  <2>1. SUFFICES ASSUME NEW k \in Keys, NEW i \in 1..Len(new), IsFirst(new, k, i)
                 PROVE  \/ IsFirst(log, k, i) /\ new[i] = log[i]
                        \/ /\ \A j \in 1..n : log[j][1] # k
                           /\ new[i][2] = map[k]
    OBVIOUS
  <2>2. new[i][1] = k /\ \A j \in 1..(i - 1) : new[j][1] # k
    BY <2>1 DEF IsFirst
  <2>3. CASE i <= n
    <3>0. i \in 1..n
      BY <1>2, <2>3
    <3>1. i \in 1..n /\ new[i] = log[i]
      BY <1>3a, <3>0
    <3>2. \A j \in 1..(i - 1) : j \in 1..n /\ new[j] = log[j]
      <4>1. \A j \in 1..(i - 1) : j \in 1..n
        BY <1>2, <2>3, <3>1
      <4>2. QED
        BY <1>3a, <4>1
    <3>3. IsFirst(log, k, i)
      BY <2>2, <3>1, <3>2 DEF IsFirst, n
    <3>4. QED
      BY <3>1, <3>3
  <2>4. CASE i > n
    <3>1. PICK p \in 1..m : i = n + p
      <4>1. i - n \in 1..m /\ i = n + (i - n)
        BY <1>2, <1>3, <2>4
      <4>2. QED
        BY <4>1
    <3>2. \A j \in 1..n : log[j][1] # k
      <4>1. \A j \in 1..n : j \in 1..(i - 1)
        BY <1>2, <1>3, <2>4
      <4>2. QED
        BY <1>3a, <2>2, <4>1
    <3>3. new[i] = d[p] /\ keys[p] = k
      BY <1>1, <1>3b, <2>2, <3>1
    <3>4. \A j \in 1..(p - 1) : keys[j] # k
      <4>1. SUFFICES ASSUME NEW j \in 1..(p - 1) PROVE keys[j] # k
        OBVIOUS
      <4>2. n + j \in 1..(i - 1) /\ j \in 1..m
        BY <1>2, <3>1
      <4>3. new[n + j][1] = keys[j]
        BY <1>1, <1>3b, <4>2
      <4>4. QED
        BY <2>2, <4>2, <4>3
    <3>5. d[p][2] = map[k]
      BY <1>1, <3>3, <3>4
    <3>6. QED
      BY <3>2, <3>3, <3>5
  <2>5. i <= n \/ i > n
    BY <1>2, <1>3
  <2>6. QED
    BY <2>3, <2>4, <2>5
<1>6. QED
  BY <1>3, <1>4, <1>5 DEF n, m, ExtendsLog

\* If the log has key k at all, it has an earliest entry for k.
LEMMA FirstExists ==
  ASSUME NEW log \in Seq(Keys \X (0..MaxEncoders)), NEW k \in Keys,
         NEW i \in 1..Len(log), log[i][1] = k
  PROVE  \E j \in 1..Len(log) : IsFirst(log, k, j)
<1> DEFINE T == {j \in 1..Len(log) : log[j][1] = k}
<1>1. Len(log) \in Nat
  BY LenProperties
<1>2. T \subseteq Nat /\ T # {}
  <2>1. i \in T
    OBVIOUS
  <2>2. 1..Len(log) \subseteq Nat
    BY <1>1
  <2>3. QED
    BY <2>1, <2>2
<1>3. PICK j \in T : \A x \in T : ~(<<x, j>> \in OpToRel(<, Nat))
  BY <1>2, NatLessThanWellFounded, WFMin
<1>4. \A x \in T : ~(x < j)
  BY <1>2, <1>3 DEF OpToRel
<1>5. IsFirst(log, k, j)
  <2>1. j \in 1..Len(log) /\ log[j][1] = k
    OBVIOUS
  <2>2. \A x \in 1..(j - 1) : x \in 1..Len(log) /\ x < j
    BY <1>1, <2>1
  <2>3. QED
    BY <1>4, <2>1, <2>2 DEF IsFirst
<1>6. QED
  BY <1>5
-----------------------------------------------------------------------------
\* CloseEncoder, on an open encoder: it becomes the last writer of what it
\* wrote, and waits for the last writer of what it touched.
LEMMA CloseStep ==
  ASSUME IInv, encoder # 0, CloseEncoder,
         \A e \in Encoders : Published(e)' <=> Published(e) \/ e = encoder,
         \A e \in Encoders : Started(e)' <=> Started(e),
         \A e \in Encoders : stage[e] = "done" => stage'[e] = "done",
         \A e \in Encoders : Committed(e) => Committed(e)'
  PROVE  /\ prev_outputs' \in [Keys -> 0..MaxEncoders]
         /\ waits' \in [Encoders -> SUBSET Encoders]
         /\ touch' \in [Encoders -> SUBSET Keys]
         /\ writes' \in [Encoders -> SUBSET Keys]
         /\ \A e \in Encoders : Published(e) =>
              waits'[e] = waits[e] /\ touch'[e] = touch[e] /\ writes'[e] = writes[e]
         /\ \A f \in waits'[encoder] : Published(f)
         /\ writes'[encoder] \subseteq touch'[encoder]
         /\ Covered' /\ MapIsLastWriter' /\ WritersFirst'
<1> DEFINE E == encoder
           W == FenceWaits(prev_outputs, WaitKeys, unresolved_input)
           T == IF unresolved_input THEN Keys ELSE WaitKeys
           O == ToSet(output_keys)
<1>1. /\ waits' = [waits EXCEPT ![E] = W]
      /\ touch' = [touch EXCEPT ![E] = T]
      /\ writes' = [writes EXCEPT ![E] = O]
      /\ prev_outputs' = PublishOutputs(prev_outputs, output_keys, E)
  BY DEF CloseEncoder
<1>2. /\ E \in Encoders /\ E = opened /\ stage[E] = "open"
      /\ \A e \in Encoders : stage[e] # "unused" => e <= E
  BY FenceAssumption DEF IInv, SessionInv, TypeOK, Encoders
<1>3. O \subseteq Keys /\ O \subseteq T /\ T \subseteq Keys
  <2>1. O \subseteq Keys
    BY ElementOfSeq, LenProperties DEF IInv, TypeOK, ToSet
  <2>2. input_keys \subseteq Keys
    BY DEF IInv, TypeOK
  <2>3. QED
    BY <2>1, <2>2 DEF WaitKeys
<1>4. \A k \in Keys : prev_outputs'[k] = IF k \in O THEN E ELSE prev_outputs[k]
  BY <1>1 DEF PublishOutputs, ToSet
<1>5. W = {prev_outputs[k] : k \in T} \ {0}
  BY DEF FenceWaits
<1> HIDE DEF E, W, T, O
<1>6. \A e \in Encoders : Published(e) => e < E /\ e # E
  BY <1>2, EncodersAreNumbers DEF Published, Committed
<1>7. \A k \in Keys : prev_outputs[k] \in 0..MaxEncoders /\
        IsLastWriter(prev_outputs[k], k, {e \in Encoders : Published(e)})
  BY DEF IInv, MapIsLastWriter, TypeOK
<1>8. \A g \in W : g \in Encoders /\ Published(g)
  BY <1>3, <1>5, <1>7 DEF IsLastWriter
<1>9. W \subseteq Encoders
  BY <1>8
<1>10. /\ waits \in [Encoders -> SUBSET Encoders]
       /\ touch \in [Encoders -> SUBSET Keys]
       /\ writes \in [Encoders -> SUBSET Keys]
  BY DEF IInv, TypeOK
<1>11. /\ waits' \in [Encoders -> SUBSET Encoders]
       /\ touch' \in [Encoders -> SUBSET Keys]
       /\ writes' \in [Encoders -> SUBSET Keys]
  BY <1>1, <1>3, <1>9, <1>10
<1>12. /\ waits'[E] = W /\ touch'[E] = T /\ writes'[E] = O
       /\ \A e \in Encoders : e # E =>
            waits'[e] = waits[e] /\ touch'[e] = touch[e] /\ writes'[e] = writes[e]
  BY <1>1, <1>2, <1>10
<1>13. prev_outputs' \in [Keys -> 0..MaxEncoders]
  <2>1. E \in 0..MaxEncoders
    BY <1>2 DEF Encoders
  <2>2. \A k \in Keys : prev_outputs'[k] \in 0..MaxEncoders
    BY <1>4, <1>7, <2>1
  <2>3. QED
    BY <1>1, <2>2 DEF PublishOutputs
<1>14. \A e \in Encoders : Published(e)' <=> Published(e) \/ e = E
  BY DEF E
<1>15. MapIsLastWriter'
  <2> DEFINE P == {e \in Encoders : Published(e)'}
  <2>1. SUFFICES ASSUME NEW k \in Keys, NEW m, m = prev_outputs'[k]
                 PROVE  /\ m # 0 => m \in P /\ k \in writes'[m]
                        /\ \A f \in P : k \in writes'[f] => m # 0 /\ f <= m
    BY DEF MapIsLastWriter, IsLastWriter
  <2>2. CASE k \in O
    <3>1. m = E /\ E # 0
      BY <1>2, <1>4, <2>1, <2>2, EncodersAreNumbers
    <3>2. \A f \in P : f <= E
      BY <1>2, <1>6, <1>14, EncodersAreNumbers
    <3>3. E \in P /\ k \in writes'[E]
      BY <1>2, <1>12, <1>14, <2>2
    <3>4. QED
      BY <3>1, <3>2, <3>3
  <2>3. CASE k \notin O
    <3>1. m = prev_outputs[k]
      BY <1>4, <2>1, <2>3
    <3>2. \A f \in P : k \in writes'[f] =>
             f \in {e \in Encoders : Published(e)} /\ k \in writes[f]
      BY <1>12, <1>14, <2>3
    <3>3. \A f \in {e \in Encoders : Published(e)} : f \in P /\ writes'[f] = writes[f]
      BY <1>6, <1>12, <1>14
    <3>4. IsLastWriter(m, k, {e \in Encoders : Published(e)})
      BY <1>7, <3>1
    <3> HIDE DEF P
    <3>5. QED
      BY <3>2, <3>3, <3>4 DEF IsLastWriter
  <2>4. QED
    BY <2>2, <2>3
<1>16. Covered'
  <2>1. SUFFICES ASSUME NEW e \in Encoders, NEW f \in Encoders, NEW k \in Keys,
                        Published(e)', Published(f)', f < e,
                        k \in writes'[f], k \in touch'[e]
                 PROVE  \E g \in waits'[e] : f <= g /\ g < e /\ k \in writes'[g]
    BY DEF Covered
  <2>2. f # E /\ Published(f) /\ k \in writes[f]
    BY <1>2, <1>6, <1>12, <1>14, <2>1, EncodersAreNumbers
  <2>3. CASE e = E
    <3>1. k \in T
      BY <1>12, <2>1, <2>3
    <3>2. prev_outputs[k] # 0 /\ f <= prev_outputs[k] /\ prev_outputs[k] \in Encoders
          /\ Published(prev_outputs[k]) /\ k \in writes[prev_outputs[k]]
      BY <1>7, <2>2 DEF IsLastWriter
    <3>3. prev_outputs[k] \in W
      BY <1>5, <3>1, <3>2
    <3>4. prev_outputs[k] < E /\ k \in writes'[prev_outputs[k]]
      BY <1>6, <1>12, <3>2
    <3>5. QED
      BY <1>12, <2>3, <3>2, <3>3, <3>4
  <2>4. CASE e # E
    <3>1. Published(e) /\ k \in touch[e] /\ waits'[e] = waits[e]
      BY <1>12, <1>14, <2>1, <2>4
    <3>2. PICK g \in waits[e] : f <= g /\ g < e /\ k \in writes[g]
      BY <2>1, <2>2, <3>1 DEF IInv, Covered
    <3>3. g \in Encoders /\ Published(g)
      BY <1>10, <3>1 DEF IInv, WaitsInv
    <3>4. writes'[g] = writes[g]
      BY <1>6, <1>12, <3>3
    <3>5. QED
      BY <3>1, <3>2, <3>4
  <2>5. QED
    BY <2>3, <2>4
<1>17. WritersFirst'
  <2>1. SUFFICES ASSUME NEW e \in Encoders, NEW f \in Encoders, NEW k \in Keys,
                        Started(e)', f < e, Published(f)', k \in writes'[f], k \in touch'[e]
                 PROVE  stage'[f] = "done"
    BY <1>11 DEF WritersFirst
  <2>2. Started(e) /\ Published(e)
    BY <2>1 DEF Published, Committed, Started
  <2>3. f # E /\ e # E
    BY <1>2, <1>6, <2>1, <2>2, EncodersAreNumbers
  <2>4. Published(f) /\ k \in writes[f] /\ k \in touch[e]
    BY <1>12, <1>14, <2>1, <2>3
  <2>5. stage[f] = "done"
    BY <2>1, <2>2, <2>4 DEF IInv, WritersFirst
  <2>6. QED
    BY <2>5
<1>18. writes'[E] \subseteq touch'[E] /\ \A f \in waits'[E] : Published(f)
  BY <1>3, <1>8, <1>12
<1>19. \A e \in Encoders : Published(e) =>
         waits'[e] = waits[e] /\ touch'[e] = touch[e] /\ writes'[e] = writes[e]
  BY <1>6, <1>12
<1>20. QED
  BY <1>11, <1>13, <1>15, <1>16, <1>17, <1>18, <1>19 DEF E

\* A fresh encoder has collected no keys.
LEMMA ForgetTyped ==
  ASSUME Forget
  PROVE  input_keys' \subseteq Keys /\ output_keys' \in Seq(Keys) /\ unresolved_input' \in BOOLEAN
<1>1. <<>> \in Seq(Keys)
  OBVIOUS
<1>2. input_keys' = {} /\ output_keys' = <<>> /\ unresolved_input' = FALSE
  BY DEF Forget
<1>3. QED
  BY <1>1, <1>2

\* begin_profiled_op.
LEMMA BeginProfiledOpStep == IInv /\ BeginProfiledOp => IInv'
<1>1. SUFFICES ASSUME IInv, BeginProfiledOp PROVE IInv'
  OBVIOUS
<1> DEFINE E == encoder
<1>2. /\ CloseEncoder /\ Forget /\ encoder # 0 /\ encoder' = 0
      /\ restore' = restore \o Displaced(prev_outputs, output_keys, encoder)
      /\ stage' = [stage EXCEPT ![encoder] = "closed"]
      /\ session' = session /\ session # "none" /\ opened' = opened
      /\ inflight' = inflight /\ awaited' = awaited
  BY <1>1 DEF BeginProfiledOp, CloseEncoder
<1>3. E \in Encoders /\ stage[E] = "open"
  BY <1>1, <1>2, FenceAssumption DEF IInv, SessionInv, TypeOK, Encoders
<1>4. stage' \in [Encoders -> {"unused", "open", "closed", "queued", "running", "done", "dead"}]
      /\ stage'[E] = "closed" /\ \A e \in Encoders : e # E => stage'[e] = stage[e]
  BY <1>1, <1>2, <1>3 DEF IInv, TypeOK
<1>5. \A e \in Encoders : /\ Published(e)' <=> Published(e) \/ e = E
                          /\ Committed(e)' <=> Committed(e)
                          /\ Started(e)' <=> Started(e)
                          /\ stage[e] = "done" <=> stage'[e] = "done"
                          /\ Committed(e) => Published(e)
  BY <1>3, <1>4 DEF Published, Committed, Started
<1>6. /\ prev_outputs' \in [Keys -> 0..MaxEncoders]
      /\ waits' \in [Encoders -> SUBSET Encoders]
      /\ touch' \in [Encoders -> SUBSET Keys]
      /\ writes' \in [Encoders -> SUBSET Keys]
      /\ \A e \in Encoders : Published(e) =>
           waits'[e] = waits[e] /\ touch'[e] = touch[e] /\ writes'[e] = writes[e]
      /\ \A f \in waits'[E] : Published(f)
      /\ writes'[E] \subseteq touch'[E]
      /\ Covered' /\ MapIsLastWriter' /\ WritersFirst'
  BY <1>1, <1>2, <1>5, CloseStep
<1>7. /\ prev_outputs \in [Keys -> 0..MaxEncoders] /\ output_keys \in Seq(Keys)
      /\ encoder \in 0..MaxEncoders /\ restore \in Seq(Keys \X (0..MaxEncoders))
  BY <1>1 DEF IInv, TypeOK
<1>7a. restore' = restore \o Displaced(prev_outputs, output_keys, encoder)
  BY <1>2
<1>8. /\ restore' \in Seq(Keys \X (0..MaxEncoders))
      /\ ExtendsLog(restore', restore, prev_outputs, output_keys)
  BY <1>7, <1>7a, ExtendedLog
<1>9. TypeOK'
  <2>1. input_keys' \subseteq Keys /\ output_keys' \in Seq(Keys) /\ unresolved_input' \in BOOLEAN
    BY <1>2, ForgetTyped
  <2>2. encoder' \in 0..MaxEncoders /\ opened' \in 0..MaxEncoders
    BY <1>1, <1>2, FenceAssumption DEF IInv, TypeOK
  <2>3. /\ session' \in {"none", "open", "profiled"}
        /\ inflight' \subseteq SUBSET Encoders /\ awaited' \subseteq Encoders
    BY <1>1, <1>2 DEF IInv, TypeOK
  <2>4. stage' \in [Encoders -> {"unused", "open", "closed", "queued", "running", "done", "dead"}]
    BY <1>4
  <2>5. QED
    BY <1>6, <1>8, <2>1, <2>2, <2>3, <2>4 DEF TypeOK
<1>10. SessionInv'
  BY <1>1, <1>2, <1>3, <1>4 DEF IInv, SessionInv
<1>11. WaitsInv'
  <2>1. \A e \in Encoders : waits'[e] \subseteq Encoders
    BY <1>6
  <2>2. ASSUME NEW e \in Encoders, Published(e)'
        PROVE  writes'[e] \subseteq touch'[e] /\ \A f \in waits'[e] : Published(f)'
    <3>1. CASE e = E
      BY <1>5, <1>6, <2>1, <3>1
    <3>2. CASE e # E
      BY <1>1, <1>5, <1>6, <2>1, <2>2, <3>2 DEF IInv, WaitsInv
    <3>3. QED
      BY <3>1, <3>2
  <2>3. ASSUME NEW e \in Encoders, Committed(e)'
        PROVE  \A f \in waits'[e] : Committed(f)'
    BY <1>1, <1>5, <1>6, <2>1, <2>3 DEF IInv, WaitsInv
  <2>4. ASSUME NEW e \in Encoders, Started(e)'
        PROVE  \A f \in waits'[e] : stage'[f] = "done"
    <3>1. Started(e) /\ Published(e)
      BY <1>5, <2>4 DEF Started, Published, Committed
    <3>2. QED
      BY <1>1, <1>5, <1>6, <2>1, <3>1 DEF IInv, WaitsInv
  <2>5. QED
    BY <2>2, <2>3, <2>4 DEF WaitsInv
<1>12. UndoInv'
  <2> DEFINE C == {e \in Encoders : Committed(e)}
  <2>1. {e \in Encoders : Committed(e)'} = C
    BY <1>5
  <2> DEFINE LastWriter(m, k) == /\ m # 0 => m \in C /\ k \in writes'[m]
                                 /\ \A f \in C : k \in writes'[f] => m # 0 /\ f <= m
  <2>2. \A m, k : IsLastWriter(m, k, C) => LastWriter(m, k)
    BY <1>5, <1>6 DEF IsLastWriter
  <2> HIDE DEF C
  <2>3. SUFFICES ASSUME NEW k \in Keys
                 PROVE  /\ (\A i \in 1..Len(restore') : restore'[i][1] # k) =>
                             LastWriter(prev_outputs'[k], k)
                        /\ \A i \in 1..Len(restore') : IsFirst(restore', k, i) =>
                             LastWriter(restore'[i][2], k)
    BY <2>1, Zenon DEF UndoInv, IsLastWriter, IsFirst
  <2> HIDE DEF LastWriter
  <2>4. ASSUME \A i \in 1..Len(restore') : restore'[i][1] # k
        PROVE  IsLastWriter(prev_outputs[k], k, C) /\ prev_outputs'[k] = prev_outputs[k]
    <3>1. prev_outputs' = PublishOutputs(prev_outputs, output_keys, encoder)
      BY <1>2 DEF CloseEncoder
    <3>2. DOMAIN output_keys = 1..Len(output_keys)
      BY <1>7, LenProperties
    <3>3. prev_outputs'[k] = prev_outputs[k]
      BY <1>8, <2>4, <3>1, <3>2 DEF PublishOutputs, ExtendsLog
    <3>4. QED
      BY <1>1, <1>8, <2>4, <3>3 DEF IInv, UndoInv, C, ExtendsLog
  <2>5. ASSUME NEW i \in 1..Len(restore'), IsFirst(restore', k, i)
        PROVE  IsLastWriter(restore'[i][2], k, C)
    <3>1. CASE IsFirst(restore, k, i) /\ restore'[i] = restore[i]
      <4>1. i \in 1..Len(restore)
        BY <3>1 DEF IsFirst
      <4>2. QED
        BY <1>1, <3>1, <4>1 DEF IInv, UndoInv, C
    <3>2. CASE /\ \A j \in 1..Len(restore) : restore[j][1] # k
               /\ restore'[i][2] = prev_outputs[k]
      BY <1>1, <3>2 DEF IInv, UndoInv, C
    <3>3. QED
      BY <1>8, <2>5, <3>1, <3>2 DEF ExtendsLog
  <2>6. QED
    BY <2>2, <2>4, <2>5
<1>13. QED
  BY <1>6, <1>9, <1>10, <1>11, <1>12 DEF IInv

\* Both commits: everything of the session is published, hence committed.
LEMMA SubmitStep ==
  ASSUME IInv, Submit, inflight' \subseteq SUBSET Encoders, awaited' \subseteq Encoders
  PROVE  IInv'
<1>1. /\ CloseEncoder /\ Forget /\ restore' = <<>> /\ session' = "none" /\ opened' = opened
      /\ encoder' = 0
      /\ stage' = [e \in Encoders |-> IF e \in Mine THEN "queued" ELSE stage[e]]
  BY DEF Submit, CloseEncoder
<1>2. stage \in [Encoders -> {"unused", "open", "closed", "queued", "running", "done", "dead"}]
  BY DEF IInv, TypeOK
<1>3. \A e \in Encoders :
        stage'[e] = IF stage[e] \in {"open", "closed"} THEN "queued" ELSE stage[e]
  BY <1>1 DEF Mine
<1>4. \A e \in Encoders : stage[e] = "open" <=> e = encoder
  <2>1. encoder \in Encoders \/ encoder = 0
    BY FenceAssumption DEF IInv, TypeOK, Encoders
  <2>2. QED
    BY <2>1, EncodersAreNumbers DEF IInv, SessionInv
<1>5. \A e \in Encoders : /\ Published(e)' <=> Published(e) \/ e = encoder
                          /\ Committed(e)' <=> Published(e)'
                          /\ Started(e)' <=> Started(e)
                          /\ stage[e] = "done" => stage'[e] = "done"
                          /\ Committed(e) => Committed(e)'
                          /\ Started(e) => Published(e)
  BY <1>2, <1>3, <1>4 DEF Published, Committed, Started
<1>6. /\ prev_outputs' \in [Keys -> 0..MaxEncoders]
      /\ waits' \in [Encoders -> SUBSET Encoders]
      /\ touch' \in [Encoders -> SUBSET Keys]
      /\ writes' \in [Encoders -> SUBSET Keys]
      /\ \A e \in Encoders : Published(e) =>
           waits'[e] = waits[e] /\ touch'[e] = touch[e] /\ writes'[e] = writes[e]
      /\ encoder # 0 => /\ \A f \in waits'[encoder] : Published(f)
                        /\ writes'[encoder] \subseteq touch'[encoder]
      /\ Covered' /\ MapIsLastWriter' /\ WritersFirst'
  <2>1. CASE encoder # 0
    BY <1>1, <1>5, <2>1, CloseStep
  <2>2. CASE encoder = 0
    <3>1. UNCHANGED <<prev_outputs, waits, touch, writes>>
      BY <1>1, <2>2 DEF CloseEncoder
    <3>2. \A e \in Encoders : Published(e)' <=> Published(e)
      BY <1>5, <2>2, EncodersAreNumbers
    <3>3. {e \in Encoders : Published(e)'} = {e \in Encoders : Published(e)}
      BY <3>2
    <3>4. MapIsLastWriter'
      BY <3>1, <3>3 DEF IInv, MapIsLastWriter, IsLastWriter
    <3>5. Covered' /\ WritersFirst'
      BY <1>5, <3>1, <3>2 DEF IInv, Covered, WritersFirst
    <3>6. QED
      BY <2>2, <3>1, <3>4, <3>5 DEF IInv, TypeOK
  <2>3. QED
    BY <2>1, <2>2
<1>7. TypeOK'
  <2>1. input_keys' \subseteq Keys /\ output_keys' \in Seq(Keys) /\ unresolved_input' \in BOOLEAN
    BY <1>1, ForgetTyped
  <2>2. encoder' \in 0..MaxEncoders /\ opened' \in 0..MaxEncoders
    BY <1>1, FenceAssumption DEF IInv, TypeOK
  <2>3. session' \in {"none", "open", "profiled"}
    BY <1>1
  <2>4. stage' \in [Encoders -> {"unused", "open", "closed", "queued", "running", "done", "dead"}]
    BY <1>1, <1>2
  <2>5. restore' \in Seq(Keys \X (0..MaxEncoders))
    BY <1>1
  <2>6. QED
    BY <1>6, <2>1, <2>2, <2>3, <2>4, <2>5 DEF TypeOK
<1>8. SessionInv'
  <2>1. \A e \in Encoders : stage'[e] \notin {"open", "closed"}
    BY <1>2, <1>3
  <2>2. Mine' = {}
    BY <2>1 DEF Mine
  <2>3. \A e \in Encoders : stage'[e] # "unused" => e <= opened
    BY <1>3 DEF IInv, SessionInv
  <2>4. QED
    BY <1>1, <2>1, <2>2, <2>3 DEF SessionInv
<1>9. WaitsInv'
  <2>1. \A e \in Encoders : waits'[e] \subseteq Encoders
    BY <1>6
  <2>2. ASSUME NEW e \in Encoders, Published(e)'
        PROVE  writes'[e] \subseteq touch'[e] /\ \A f \in waits'[e] : Published(f)'
    <3>1. CASE e = encoder
      <4>1. encoder # 0
        BY <3>1, EncodersAreNumbers
      <4>2. (\A f \in waits'[encoder] : Published(f)) /\ writes'[encoder] \subseteq touch'[encoder]
        BY <1>6, <4>1
      <4>3. \A f \in waits'[e] : f \in Encoders /\ Published(f)
        BY <2>1, <3>1, <4>2
      <4>4. QED
        BY <1>5, <3>1, <4>2, <4>3
    <3>2. CASE e # encoder
      BY <1>5, <1>6, <2>1, <2>2, <3>2 DEF IInv, WaitsInv
    <3>3. QED
      BY <3>1, <3>2
  <2>3. ASSUME NEW e \in Encoders, Committed(e)'
        PROVE  \A f \in waits'[e] : Committed(f)'
    BY <1>5, <2>1, <2>2, <2>3
  <2>4. ASSUME NEW e \in Encoders, Started(e)'
        PROVE  \A f \in waits'[e] : stage'[f] = "done"
    BY <1>5, <1>6, <2>1, <2>4 DEF IInv, WaitsInv
  <2>5. QED
    BY <2>2, <2>3, <2>4 DEF WaitsInv
<1>10. UndoInv'
  <2>1. {e \in Encoders : Committed(e)'} = {e \in Encoders : Published(e)'}
    BY <1>5
  <2>2. 1..Len(restore') = {}
    BY <1>1
  <2>3. QED
    BY <1>6, <2>1, <2>2 DEF UndoInv, MapIsLastWriter, IsLastWriter
<1>11. QED
  BY <1>6, <1>7, <1>8, <1>9, <1>10 DEF IInv

\* Dropping a session: only committed encoders stay, and the map names the
\* last writers among those.
LEMMA AbandonStep == IInv /\ Abandon => IInv'
<1>1. SUFFICES ASSUME IInv, Abandon PROVE IInv'
  OBVIOUS
<1>2. /\ Forget /\ restore' = <<>> /\ session' = "none" /\ opened' = opened
      /\ encoder' = 0 /\ inflight' = inflight /\ awaited' = awaited
      /\ waits' = waits /\ touch' = touch /\ writes' = writes
      /\ prev_outputs' = RestoreOutputs(prev_outputs, restore)
      /\ stage' = [e \in Encoders |-> IF e \in Mine THEN "dead" ELSE stage[e]]
  BY <1>1 DEF Abandon
<1>3. stage \in [Encoders -> {"unused", "open", "closed", "queued", "running", "done", "dead"}]
  BY <1>1 DEF IInv, TypeOK
<1>4. \A e \in Encoders :
        stage'[e] = IF stage[e] \in {"open", "closed"} THEN "dead" ELSE stage[e]
  BY <1>2 DEF Mine
<1>5. \A e \in Encoders : /\ Published(e)' <=> Committed(e)
                          /\ Committed(e)' <=> Committed(e)
                          /\ Started(e)' <=> Started(e)
                          /\ stage[e] = "done" => stage'[e] = "done"
                          /\ Committed(e) => Published(e)
                          /\ Started(e) => Committed(e)
  BY <1>3, <1>4 DEF Published, Committed, Started
<1>6. \A k \in Keys :
        /\ prev_outputs'[k] \in 0..MaxEncoders
        /\ IsLastWriter(prev_outputs'[k], k, {e \in Encoders : Committed(e)})
  <2>1. SUFFICES ASSUME NEW k \in Keys
                 PROVE  /\ prev_outputs'[k] \in 0..MaxEncoders
                        /\ IsLastWriter(prev_outputs'[k], k, {e \in Encoders : Committed(e)})
    OBVIOUS
  <2>2. restore \in Seq(Keys \X (0..MaxEncoders)) /\ prev_outputs[k] \in 0..MaxEncoders
    BY <1>1 DEF IInv, TypeOK
  <2>3. CASE \E i \in 1..Len(restore) : restore[i][1] = k
    <3>1. \E i \in 1..Len(restore) : IsFirst(restore, k, i)
      BY <2>2, <2>3, FirstExists
    <3> DEFINE j == CHOOSE i \in 1..Len(restore) : IsFirst(restore, k, i)
    <3>2. j \in 1..Len(restore) /\ IsFirst(restore, k, j)
      BY <3>1
    <3>3. prev_outputs'[k] = restore[j][2]
      BY <1>2, <2>3 DEF RestoreOutputs
    <3> HIDE DEF j
    <3>4. restore[j] \in Keys \X (0..MaxEncoders)
      BY <2>2, <3>2, ElementOfSeq
    <3>5. QED
      BY <1>1, <3>2, <3>3, <3>4 DEF IInv, UndoInv
  <2>4. CASE \A i \in 1..Len(restore) : restore[i][1] # k
    <3>1. prev_outputs'[k] = prev_outputs[k]
      BY <1>2, <2>4 DEF RestoreOutputs
    <3>2. QED
      BY <1>1, <2>2, <2>4, <3>1 DEF IInv, UndoInv
  <2>5. QED
    BY <2>3, <2>4
<1>7. /\ {e \in Encoders : Published(e)'} = {e \in Encoders : Committed(e)}
      /\ {e \in Encoders : Committed(e)'} = {e \in Encoders : Committed(e)}
  BY <1>5
<1>8. MapIsLastWriter'
  BY <1>2, <1>6, <1>7 DEF MapIsLastWriter, IsLastWriter
<1>9. UndoInv'
  <2>1. 1..Len(restore') = {}
    BY <1>2
  <2>2. QED
    BY <1>2, <1>6, <1>7, <2>1 DEF UndoInv, IsLastWriter
<1>10. \A e \in Encoders : waits[e] \subseteq Encoders
  BY <1>1 DEF IInv, TypeOK
<1>11. Covered' /\ WritersFirst'
  BY <1>1, <1>2, <1>5 DEF IInv, Covered, WritersFirst
<1>12. WaitsInv'
  BY <1>1, <1>2, <1>5, <1>10 DEF IInv, WaitsInv
<1>13. TypeOK'
  <2>1. input_keys' \subseteq Keys /\ output_keys' \in Seq(Keys) /\ unresolved_input' \in BOOLEAN
    BY <1>2, ForgetTyped
  <2>2. encoder' \in 0..MaxEncoders /\ session' \in {"none", "open", "profiled"}
    BY <1>2, FenceAssumption
  <2>3. stage' \in [Encoders -> {"unused", "open", "closed", "queued", "running", "done", "dead"}]
    BY <1>2, <1>3
  <2>4. restore' \in Seq(Keys \X (0..MaxEncoders))
    BY <1>2
  <2>5. prev_outputs' \in [Keys -> 0..MaxEncoders]
    BY <1>2, <1>6 DEF RestoreOutputs
  <2>6. QED
    BY <1>1, <1>2, <2>1, <2>2, <2>3, <2>4, <2>5 DEF IInv, TypeOK
<1>14. SessionInv'
  <2>1. \A e \in Encoders : stage'[e] \notin {"open", "closed"}
    BY <1>3, <1>4
  <2>2. Mine' = {}
    BY <2>1 DEF Mine
  <2>3. \A e \in Encoders : stage'[e] # "unused" => e <= opened
    BY <1>1, <1>4 DEF IInv, SessionInv
  <2>4. QED
    BY <1>2, <2>1, <2>2, <2>3 DEF SessionInv
<1>15. QED
  BY <1>8, <1>9, <1>11, <1>12, <1>13, <1>14 DEF IInv

\* A session is opened.
LEMMA OpenStep == \A mode \in {"open", "profiled"} : IInv /\ Open(mode) => IInv'
<1>1. SUFFICES ASSUME NEW mode \in {"open", "profiled"}, IInv, Open(mode) PROVE IInv'
  OBVIOUS
<1>2. /\ session = "none" /\ session' = mode
      /\ UNCHANGED <<prev_outputs, encoder, recorded, restore, opened, inflight,
                     stage, waits, touch, writes, awaited>>
  BY <1>1 DEF Open
<1>3. TypeOK' /\ SessionInv'
  BY <1>1, <1>2 DEF IInv, TypeOK, SessionInv, recorded
<1>4. \A e \in Encoders : /\ Published(e)' <=> Published(e)
                          /\ Committed(e)' <=> Committed(e)
                          /\ stage[e] = "done" => stage'[e] = "done"
                          /\ Started(e)' => Committed(e) /\ \A f \in waits[e] : stage[f] = "done"
  BY <1>1, <1>2 DEF IInv, WaitsInv, Published, Committed, Started
<1>5. QED
  BY <1>1, <1>2, <1>3, <1>4, FrameStep DEF Frame

\* An op is dispatched into the open session.
LEMMA DispatchStep ==
  \A ins \in SUBSET Keys, out \in Keys, u \in BOOLEAN : IInv /\ Dispatch(ins, out, u) => IInv'
<1>1. SUFFICES ASSUME NEW ins \in SUBSET Keys, NEW out \in Keys, NEW u \in BOOLEAN,
                      IInv, Dispatch(ins, out, u)
               PROVE  IInv'
  OBVIOUS
<1>2. /\ session # "none"
      /\ input_keys' = input_keys \cup ins /\ output_keys' = Append(output_keys, out)
      /\ unresolved_input' = (unresolved_input \/ u)
      /\ UNCHANGED <<prev_outputs, session, restore, inflight, waits, touch, writes, awaited>>
  BY <1>1 DEF Dispatch
<1>3. \/ UNCHANGED <<opened, encoder, stage>>
      \/ /\ encoder = 0 /\ opened < MaxEncoders
         /\ opened' = opened + 1 /\ encoder' = opened + 1
         /\ stage' = [stage EXCEPT ![opened + 1] = "open"]
  BY <1>1 DEF Dispatch
<1>4. /\ input_keys' \subseteq Keys /\ output_keys' \in Seq(Keys) /\ unresolved_input' \in BOOLEAN
  BY <1>1, <1>2 DEF IInv, TypeOK
<1>5. /\ opened \in 0..MaxEncoders /\ encoder \in 0..MaxEncoders
      /\ stage \in [Encoders -> {"unused", "open", "closed", "queued", "running", "done", "dead"}]
      /\ SessionInv
  BY <1>1 DEF IInv, TypeOK
<1>6. CASE UNCHANGED <<opened, encoder, stage>>
  <2>1. TypeOK' /\ SessionInv'
    BY <1>1, <1>2, <1>4, <1>6 DEF IInv, TypeOK, SessionInv, Mine
  <2>2. \A e \in Encoders : /\ Published(e)' <=> Published(e)
                            /\ Committed(e)' <=> Committed(e)
                            /\ stage[e] = "done" => stage'[e] = "done"
                            /\ Started(e)' => Committed(e) /\ \A f \in waits[e] : stage[f] = "done"
    BY <1>1, <1>6 DEF IInv, WaitsInv, Published, Committed, Started
  <2>3. QED
    BY <1>1, <1>2, <2>1, <2>2, FrameStep DEF Frame
<1>7. CASE /\ encoder = 0 /\ opened < MaxEncoders
           /\ opened' = opened + 1 /\ encoder' = opened + 1
           /\ stage' = [stage EXCEPT ![opened + 1] = "open"]
  <2> DEFINE n == opened + 1
  <2>1. n \in Encoders /\ n # 0 /\ n \in 0..MaxEncoders /\ opened < n
    BY <1>5, <1>7, FenceAssumption DEF Encoders
  <2>2. stage[n] = "unused"
    BY <1>5, <2>1 DEF SessionInv, Encoders
  <2>3. stage'[n] = "open" /\ \A e \in Encoders : e # n => stage'[e] = stage[e]
    BY <1>5, <1>7, <2>1
  <2>4. TypeOK'
    <3>1. /\ opened' \in 0..MaxEncoders /\ encoder' \in 0..MaxEncoders
          /\ stage' \in [Encoders -> {"unused", "open", "closed", "queued", "running", "done", "dead"}]
      BY <1>5, <1>7, <2>1
    <3>2. QED
      BY <1>1, <1>2, <1>4, <3>1 DEF IInv, TypeOK
  <2>5. SessionInv'
    <3>1. encoder' # 0 => stage'[encoder'] = "open" /\ encoder' = opened'
      BY <1>7, <2>3
    <3>2. \A e \in Encoders : stage'[e] = "open" => e = encoder'
      BY <1>5, <1>7, <2>3, EncodersAreNumbers DEF SessionInv
    <3>3. \A e \in Encoders : stage'[e] # "unused" => e <= opened'
      BY <1>5, <1>7, <2>1, <2>3 DEF SessionInv, Encoders
    <3>4. QED
      BY <1>2, <3>1, <3>2, <3>3 DEF SessionInv
  <2>6. \A e \in Encoders : /\ Published(e)' <=> Published(e)
                            /\ Committed(e)' <=> Committed(e)
                            /\ stage[e] = "done" => stage'[e] = "done"
                            /\ Started(e)' <=> Started(e)
    BY <2>2, <2>3 DEF Published, Committed, Started
  <2>7. \A e \in Encoders : Started(e)' => Committed(e) /\ \A f \in waits[e] : stage[f] = "done"
    BY <1>1, <2>6 DEF IInv, WaitsInv, Committed, Started
  <2>8. QED
    BY <1>1, <1>2, <2>4, <2>5, <2>6, <2>7, FrameStep DEF Frame
<1>8. QED
  BY <1>3, <1>6, <1>7

\* The GPU starting or finishing an encoder.
LEMMA GpuStep == \A e \in Encoders : IInv /\ (Start(e) \/ Finish(e)) => IInv'
<1>1. SUFFICES ASSUME NEW e \in Encoders, IInv, Start(e) \/ Finish(e) PROVE IInv'
  OBVIOUS
<1>2. UNCHANGED <<prev_outputs, session, encoder, recorded, restore, opened, inflight,
                  waits, touch, writes, awaited>>
  BY <1>1 DEF Start, Finish, host
<1>3. \/ /\ stage[e] = "queued" /\ (\A f \in waits[e] : stage[f] = "done")
         /\ stage' = [stage EXCEPT ![e] = "running"]
      \/ stage[e] = "running" /\ stage' = [stage EXCEPT ![e] = "done"]
  BY <1>1 DEF Start, Finish
<1>4. stage \in [Encoders -> {"unused", "open", "closed", "queued", "running", "done", "dead"}]
  BY <1>1 DEF IInv, TypeOK
<1>5. /\ stage' \in [Encoders -> {"unused", "open", "closed", "queued", "running", "done", "dead"}]
      /\ \A f \in Encoders : f # e => stage'[f] = stage[f]
      /\ stage[e] \in {"queued", "running"} /\ stage'[e] \in {"running", "done"}
      /\ \A f \in waits[e] : stage[f] = "done"
  BY <1>1, <1>3, <1>4 DEF IInv, WaitsInv, Started
<1>6. TypeOK'
  BY <1>1, <1>2, <1>5 DEF IInv, TypeOK, recorded
<1>7. SessionInv'
  <2>1. \A f \in Encoders : stage'[f] \in {"open", "closed", "unused"} => stage'[f] = stage[f]
    BY <1>5
  <2>2. Mine' = Mine
    BY <1>5 DEF Mine
  <2>3. encoder # 0 => encoder \in Encoders /\ encoder # e
    BY <1>1, <1>5, FenceAssumption DEF IInv, SessionInv, TypeOK, Encoders
  <2>4. QED
    BY <1>1, <1>2, <1>5, <2>1, <2>2, <2>3 DEF IInv, SessionInv
<1>8. \A f \in Encoders : /\ Published(f)' <=> Published(f)
                          /\ Committed(f)' <=> Committed(f)
                          /\ stage[f] = "done" => stage'[f] = "done"
                          /\ Started(f)' => Started(f) \/ f = e
                          /\ Started(f)' => Committed(f)
  BY <1>3, <1>4, <1>5 DEF Published, Committed, Started
<1>9. \A f \in Encoders : Started(f)' => Committed(f) /\ \A g \in waits[f] : stage[g] = "done"
  BY <1>1, <1>5, <1>8 DEF IInv, WaitsInv
<1>10. QED
  BY <1>1, <1>2, <1>6, <1>7, <1>8, <1>9, FrameStep DEF Frame

\* Steps that change only what the host is blocked on.
LEMMA BlockingStep ==
  ASSUME IInv, inflight' \subseteq SUBSET Encoders, awaited' \subseteq Encoders,
         UNCHANGED <<prev_outputs, session, encoder, recorded, restore, opened,
                     stage, waits, touch, writes>>
  PROVE  IInv'
<1>1. TypeOK' /\ SessionInv'
  BY DEF IInv, TypeOK, SessionInv, Mine, recorded
<1>2. \A e \in Encoders : /\ Published(e)' <=> Published(e)
                          /\ Committed(e)' <=> Committed(e)
                          /\ stage[e] = "done" => stage'[e] = "done"
                          /\ Started(e)' => Committed(e) /\ \A f \in waits[e] : stage[f] = "done"
  BY DEF IInv, WaitsInv, Published, Committed, Started
<1>3. QED
  BY <1>1, <1>2, FrameStep DEF Frame

\* Every step keeps the invariant.
LEMMA NextIInv == IInv /\ [Next]_vars => IInv'
<1>1. SUFFICES ASSUME IInv, [Next]_vars PROVE IInv'
  OBVIOUS
<1>2. /\ inflight \subseteq SUBSET Encoders /\ awaited \subseteq Encoders
      /\ Mine \subseteq Encoders
  BY <1>1 DEF IInv, TypeOK, Mine
<1>3. CASE Commit
  BY <1>1, <1>2, <1>3, SubmitStep DEF Commit
<1>4. CASE CommitAndWait
  BY <1>1, <1>2, <1>4, SubmitStep DEF CommitAndWait
<1>5. ASSUME NEW batch \in inflight, Wait(batch) PROVE IInv'
  BY <1>1, <1>2, <1>5, BlockingStep DEF Wait
<1>6. CASE Wake
  BY <1>1, <1>2, <1>6, BlockingStep DEF Wake, host
<1>7. CASE UNCHANGED vars
  BY <1>1, <1>2, <1>7, BlockingStep DEF vars, host
<1>8. QED
  BY <1>1, <1>3, <1>4, <1>5, <1>6, <1>7, OpenStep, DispatchStep, BeginProfiledOpStep,
     AbandonStep, GpuStep DEF Next

\* The invariant always holds.
LEMMA AlwaysIInv == Spec => []IInv
<1>1. QED
  BY InitIInv, NextIInv, PTL DEF Spec

\* On the GPU, whatever the sessions and abandonments, an encoder that has
\* started finds every earlier write to what it touches finished.
THEOREM FenceWritersFirst == Spec => []WritersFirst
<1>1. IInv => WritersFirst
  BY DEF IInv
<1>2. QED
  BY <1>1, AlwaysIInv, PTL

\* The map always names the last encoder that will really have written.
THEOREM FenceMapIsLastWriter == Spec => []MapIsLastWriter
<1>1. IInv => MapIsLastWriter
  BY DEF IInv
<1>2. QED
  BY <1>1, AlwaysIInv, PTL

\* Nothing that may run waits for a discarded fence.
THEOREM FenceNoDeadWait == Spec => []NoDeadWait
<1>1. IInv => NoDeadWait
  <2>1. SUFFICES ASSUME IInv PROVE NoDeadWait
    OBVIOUS
  <2>2. \A e \in Encoders : Published(e) => \A f \in waits[e] : stage[f] # "dead"
    BY <2>1 DEF IInv, WaitsInv, Published, Committed
  <2>3. \A k \in Keys : prev_outputs[k] # 0 => stage[prev_outputs[k]] # "dead"
    BY <2>1 DEF IInv, MapIsLastWriter, IsLastWriter, Published, Committed
  <2>4. QED
    BY <2>2, <2>3 DEF NoDeadWait
<1>2. QED
  BY <1>1, AlwaysIInv, PTL
\* The shape of a session and of the map never breaks, whatever is abandoned.
THEOREM FenceTyped == Spec => []TypeOK
<1>1. IInv => TypeOK
  BY DEF IInv
<1>2. QED
  BY <1>1, AlwaysIInv, PTL
-----------------------------------------------------------------------------
(* The layer implements EncoderOrder.  Encoders are submitted in the order  *)
(* of their numbers: everything committed came before the open session.     *)
SessionOrder == \A e \in Mine, f \in Encoders : Committed(f) => f < e

\* No session has encoders at the start.
LEMMA InitSessionOrder == Init => SessionOrder
BY DEF Init, SessionOrder, Mine

\* Every step keeps the encoders of the session in order.
LEMMA NextSessionOrder == IInv /\ IInv' /\ SessionOrder /\ [Next]_vars => SessionOrder'
<1>1. SUFFICES ASSUME IInv, IInv', SessionOrder, [Next]_vars PROVE SessionOrder'
  OBVIOUS
<1>2. Encoders \subseteq Int
  BY EncodersAreNumbers
<1>3. stage \in [Encoders -> {"unused", "open", "closed", "queued", "running", "done", "dead"}]
  BY <1>1 DEF IInv, TypeOK
<1>4. ASSUME \A e \in Encoders : stage'[e] \in {"open", "closed"} => stage[e] \in {"open", "closed"},
             \A e \in Encoders : Committed(e)' => Committed(e)
      PROVE  SessionOrder'
  BY <1>1, <1>4 DEF SessionOrder, Mine
<1>5. ASSUME NEW mode \in {"open", "profiled"}, Open(mode) PROVE SessionOrder'
  BY <1>4, <1>5 DEF Open, Committed
<1>6. ASSUME NEW ins \in SUBSET Keys, NEW out \in Keys, NEW u \in BOOLEAN, Dispatch(ins, out, u)
      PROVE  SessionOrder'
  <2>1. CASE stage' = stage
    BY <1>4, <2>1 DEF Committed
  <2>2. CASE stage' # stage
    <3>1. /\ opened \in Nat /\ opened < MaxEncoders
          /\ stage' = [stage EXCEPT ![opened + 1] = "open"]
      BY <1>1, <1>6, <2>2, FenceAssumption DEF Dispatch, IInv, TypeOK
    <3>2. opened + 1 \in Encoders
      BY <3>1, FenceAssumption DEF Encoders
    <3>3. \A f \in Encoders : Committed(f)' => Committed(f) /\ f <= opened
      BY <1>1, <1>3, <3>1, <3>2 DEF Committed, IInv, SessionInv
    <3>4. \A e \in Encoders : stage'[e] \in {"open", "closed"}
                                => stage[e] \in {"open", "closed"} \/ e = opened + 1
      BY <1>3, <3>1, <3>2
    <3>5. QED
      BY <1>1, <1>2, <3>1, <3>3, <3>4 DEF SessionOrder, Mine
  <2>3. QED
    BY <2>1, <2>2
<1>7. CASE BeginProfiledOp
  <2>1. stage' = [stage EXCEPT ![encoder] = "closed"] /\ encoder \in Encoders
        /\ stage[encoder] = "open"
    BY <1>1, <1>7, FenceAssumption DEF BeginProfiledOp, IInv, SessionInv, TypeOK, Encoders
  <2>2. QED
    BY <1>3, <1>4, <2>1 DEF Committed
<1>8. CASE Commit \/ CommitAndWait \/ Abandon
  <2>1. \A e \in Encoders : stage'[e] \notin {"open", "closed"}
    BY <1>3, <1>8 DEF Commit, CommitAndWait, Abandon, Submit, Mine
  <2>2. QED
    BY <2>1 DEF SessionOrder, Mine
<1>9. ASSUME NEW batch \in inflight, Wait(batch) PROVE SessionOrder'
  BY <1>4, <1>9 DEF Wait, Committed
<1>10. CASE Wake \/ UNCHANGED vars
  BY <1>4, <1>10 DEF Wake, vars, Committed
<1>11. ASSUME NEW e \in Encoders, Start(e) \/ Finish(e) PROVE SessionOrder'
  BY <1>3, <1>4, <1>11 DEF Start, Finish, Committed
<1>12. QED
  BY <1>1, <1>5, <1>6, <1>7, <1>8, <1>9, <1>10, <1>11 DEF Next
-----------------------------------------------------------------------------
\* What EncoderOrder sees of the encoders.
Progress == [e \in Encoders |-> CASE stage[e] = "queued" -> "submitted"
                                  [] Started(e) -> stage[e]
                                  [] OTHER -> "out"]
Touched == [e \in Encoders |-> IF Committed(e) THEN touch[e] ELSE {}]
Written == [e \in Encoders |-> IF Committed(e) THEN writes[e] ELSE {}]

\* The abstract environment's variables, as EncoderOrder sees them here.
LEMMA OrderSeen ==
  /\ Order!vars = <<Progress, Touched, Written>>
  /\ Order!Init <=> /\ Progress = [e \in Encoders |-> "out"]
                    /\ Touched = [e \in Encoders |-> {}]
                    /\ Written = [e \in Encoders |-> {}]
BY DEF Order!vars, Order!Init, Progress, Touched, Written

\* The progress of one encoder, case by case.
LEMMA ProgressCases ==
  ASSUME TypeOK
  PROVE  \A e \in Encoders :
           /\ Progress[e] = "submitted" <=> stage[e] = "queued"
           /\ Progress[e] = "running" <=> stage[e] = "running"
           /\ Progress[e] = "done" <=> stage[e] = "done"
           /\ Progress[e] = "out" <=> ~Committed(e)
BY DEF Progress, Started, Committed, TypeOK

\* A step that submits, starts and finishes nothing is a stutter.
LEMMA UnseenStep ==
  ASSUME \A e \in Encoders : /\ Committed(e)' <=> Committed(e)
                             /\ Committed(e) => stage'[e] = stage[e]
                             /\ Committed(e) => touch'[e] = touch[e] /\ writes'[e] = writes[e]
  PROVE  UNCHANGED Order!vars
<1>1. Touched' = Touched /\ Written' = Written
  BY DEF Touched, Written
<1>2. Progress' = Progress
  BY DEF Progress, Started, Committed
<1>3. QED
  BY <1>1, <1>2, OrderSeen DEF Order!vars, Progress, Touched, Written

\* A commit submits the encoders of the session, behind all the others.
LEMMA SubmitOrdered == IInv /\ IInv' /\ SessionOrder /\ Submit => Order!Submit(Mine)
<1>1. SUFFICES ASSUME IInv, IInv', SessionOrder, Submit PROVE Order!Submit(Mine)
  OBVIOUS
<1>2. /\ stage' = [e \in Encoders |-> IF e \in Mine THEN "queued" ELSE stage[e]]
      /\ TypeOK /\ TypeOK' /\ Mine \subseteq Encoders
  BY <1>1 DEF Submit, IInv, Mine
<1>3. \A e \in Mine : ~Committed(e) /\ Committed(e)'
  BY <1>2 DEF Mine, Committed
<1>4. \A e \in Encoders \ Mine : (Committed(e)' <=> Committed(e)) /\ stage'[e] = stage[e]
  BY <1>2 DEF Committed
<1>5. \A e \in Encoders \ Mine : touch'[e] = touch[e] /\ writes'[e] = writes[e]
  <2>1. encoder # 0 => encoder \in Mine
    BY <1>1, FenceAssumption DEF IInv, SessionInv, TypeOK, Mine, Encoders
  <2>2. QED
    BY <1>1, <1>2, <2>1 DEF Submit, CloseEncoder, TypeOK
<1>6. \A e \in Mine : Progress[e] = "out"
  BY <1>2, <1>3, ProgressCases
<1>7. \A e \in Mine, f \in Encoders : Progress[f] # "out" => f < e
  BY <1>1, <1>2, ProgressCases DEF SessionOrder
<1>8. Progress' = [e \in Encoders |-> IF e \in Mine THEN "submitted" ELSE Progress[e]]
  BY <1>2, <1>4 DEF Progress, Started
<1>9. Touched' \in [Encoders -> SUBSET Keys] /\ Written' \in [Encoders -> SUBSET Keys]
  BY <1>2 DEF Touched, Written, TypeOK
<1>10. \A e \in Mine : Written'[e] \subseteq Touched'[e]
  BY <1>1, <1>2, <1>3 DEF Touched, Written, IInv, WaitsInv, Published
<1>11. \A e \in Encoders \ Mine : Touched'[e] = Touched[e] /\ Written'[e] = Written[e]
  BY <1>4, <1>5 DEF Touched, Written
<1>12. QED
  BY <1>6, <1>7, <1>8, <1>9, <1>10, <1>11 DEF Order!Submit, Progress, Touched, Written

\* The fences let the GPU start an encoder only when the queue would.
LEMMA StartOrdered ==
  \A e \in Encoders : IInv /\ IInv' /\ Start(e) => Order!Start(e)
<1>1. SUFFICES ASSUME NEW e \in Encoders, IInv, IInv', Start(e) PROVE Order!Start(e)
  OBVIOUS
<1>2. /\ stage[e] = "queued" /\ stage' = [stage EXCEPT ![e] = "running"]
      /\ UNCHANGED <<touch, writes>> /\ TypeOK /\ TypeOK'
  BY <1>1 DEF Start, IInv
<1>3. \A f \in Encoders : Committed(f)' <=> Committed(f)
  BY <1>2 DEF Committed, TypeOK
<1>4. Touched' = Touched /\ Written' = Written
  BY <1>2, <1>3 DEF Touched, Written
<1>5. Progress[e] = "submitted"
  BY <1>2, ProgressCases
<1>6. Progress' = [Progress EXCEPT ![e] = "running"]
  BY <1>2 DEF Progress, Started, TypeOK
<1>7. \A f \in Encoders :
        (f < e /\ Progress[f] # "out" /\ Written[f] \cap Touched[e] # {}) => Progress[f] = "done"
  <2>1. SUFFICES ASSUME NEW f \in Encoders, f < e, Progress[f] # "out",
                        Written[f] \cap Touched[e] # {}
                 PROVE  Progress[f] = "done"
    OBVIOUS
  <2>2. Committed(f) /\ Committed(e)
    BY <1>2, <2>1, ProgressCases DEF Committed
  <2>3. writes'[f] \cap touch'[e] # {}
    BY <1>2, <2>1, <2>2 DEF Written, Touched
  <2>4. Started(e)' /\ Published(f)'
    BY <1>2, <1>3, <2>2 DEF Started, Published, TypeOK
  <2>5. stage'[f] = "done"
    BY <1>1, <2>1, <2>3, <2>4 DEF IInv, WritersFirst
  <2>6. stage[f] = "done"
    BY <1>2, <2>5 DEF TypeOK
  <2>7. QED
    BY <1>2, <2>6, ProgressCases
<1>8. QED
  BY <1>4, <1>5, <1>6, <1>7
     DEF Order!Start, Order!Behind, Progress, Touched, Written

\* An encoder's end is the abstract environment's.
LEMMA FinishOrdered == \A e \in Encoders : IInv /\ Finish(e) => Order!Finish(e)
<1>1. SUFFICES ASSUME NEW e \in Encoders, IInv, Finish(e) PROVE Order!Finish(e)
  OBVIOUS
<1>2. /\ stage[e] = "running" /\ stage' = [stage EXCEPT ![e] = "done"]
      /\ UNCHANGED <<touch, writes>> /\ TypeOK
  BY <1>1 DEF Finish, IInv
<1>3. \A f \in Encoders : Committed(f)' <=> Committed(f)
  BY <1>2 DEF Committed, TypeOK
<1>4. Touched' = Touched /\ Written' = Written
  BY <1>2, <1>3 DEF Touched, Written
<1>5. Progress[e] = "running"
  BY <1>2, ProgressCases
<1>6. Progress' = [Progress EXCEPT ![e] = "done"]
  BY <1>2 DEF Progress, Started, TypeOK
<1>7. QED
  BY <1>4, <1>5, <1>6 DEF Order!Finish, Progress, Touched, Written

\* Every step of the layer is a step of the queue or a stutter.
LEMMA StepOrdered ==
  IInv /\ IInv' /\ SessionOrder /\ [Next]_vars => [Order!Next]_(Order!vars)
<1>1. SUFFICES ASSUME IInv, IInv', SessionOrder, [Next]_vars
               PROVE  Order!Next \/ UNCHANGED Order!vars
  OBVIOUS
<1>2. stage \in [Encoders -> {"unused", "open", "closed", "queued", "running", "done", "dead"}]
  BY <1>1 DEF IInv, TypeOK
<1>3. CASE Commit \/ CommitAndWait
  <2>1. Order!Submit(Mine) /\ Mine \in SUBSET Encoders
    BY <1>1, <1>3, SubmitOrdered DEF Commit, CommitAndWait, Mine
  <2>2. QED
    BY <2>1 DEF Order!Next, Order!Submit
<1>4. ASSUME NEW e \in Encoders, Start(e) \/ Finish(e) PROVE Order!Next
  BY <1>1, <1>4, StartOrdered, FinishOrdered DEF Order!Next
<1>5. ASSUME NEW mode \in {"open", "profiled"}, Open(mode) PROVE UNCHANGED Order!vars
  BY <1>5, UnseenStep DEF Open, Committed
<1>6. ASSUME NEW ins \in SUBSET Keys, NEW out \in Keys, NEW u \in BOOLEAN, Dispatch(ins, out, u)
      PROVE  UNCHANGED Order!vars
  <2>1. CASE stage' = stage
    BY <1>6, <2>1, UnseenStep DEF Dispatch, Committed
  <2>2. CASE stage' # stage
    <3>1. /\ opened \in Nat /\ opened < MaxEncoders /\ UNCHANGED <<touch, writes>>
          /\ stage' = [stage EXCEPT ![opened + 1] = "open"]
      BY <1>1, <1>6, <2>2, FenceAssumption DEF Dispatch, IInv, TypeOK
    <3>2. opened + 1 \in Encoders /\ ~(opened + 1 <= opened)
      BY <3>1, FenceAssumption DEF Encoders
    <3>3. stage[opened + 1] = "unused"
      BY <1>1, <3>2 DEF IInv, SessionInv
    <3>4. QED
      BY <1>2, <3>1, <3>3, UnseenStep DEF Committed
  <2>3. QED
    BY <2>1, <2>2
<1>7. CASE BeginProfiledOp
  <2>1. stage' = [stage EXCEPT ![encoder] = "closed"] /\ encoder \in Encoders
        /\ stage[encoder] = "open"
    BY <1>1, <1>7, FenceAssumption DEF BeginProfiledOp, IInv, SessionInv, TypeOK, Encoders
  <2>2. \A e \in Encoders : e # encoder => touch'[e] = touch[e] /\ writes'[e] = writes[e]
    BY <1>1, <1>7 DEF BeginProfiledOp, CloseEncoder, IInv, TypeOK
  <2>3. QED
    BY <1>2, <2>1, <2>2, UnseenStep DEF Committed
<1>8. CASE Abandon
  BY <1>2, <1>8, UnseenStep DEF Abandon, Committed, Mine
<1>9. ASSUME NEW batch \in inflight, Wait(batch) PROVE UNCHANGED Order!vars
  BY <1>9, UnseenStep DEF Wait, Committed
<1>10. CASE Wake \/ UNCHANGED vars
  BY <1>10, UnseenStep DEF Wake, vars, Committed
<1>11. QED
  BY <1>1, <1>3, <1>4, <1>5, <1>6, <1>7, <1>8, <1>9, <1>10 DEF Next

\* Sessions, fences and the map together are an ordered queue that respects
\* writers first: the safety part of ImplementsOrder.
THEOREM FenceOrders == Spec => Order!Init /\ [][Order!Next]_(Order!vars)
<1>1. Init => SessionOrder /\ Order!Init
  <2>1. SUFFICES ASSUME Init PROVE Order!Init
    BY InitSessionOrder
  <2>2. \A e \in Encoders : stage[e] = "unused"
    BY <2>1 DEF Init
  <2>3. QED
    BY <2>2 DEF Order!Init, Started, Committed
<1>2. QED
  BY <1>1, InitIInv, NextIInv, NextSessionOrder, StepOrdered, PTL DEF Spec
=============================================================================
