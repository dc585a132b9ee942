----------------------------- MODULE AsyncEval -----------------------------
(***************************************************************************)
(* Lazy tensors and their evaluation (cider-press-runtime: eval.rs,        *)
(* pending_eval.rs, the caches and gates of tensor.rs), over buffers that  *)
(* are recycled as soon as their tensor drops (BufferPool) and a GPU that  *)
(* orders encoders behind earlier writers only (EncoderOrder).             *)
(*                                                                         *)
(* Nodes are op tensors, numbered as they are built, so a node's inputs    *)
(* have smaller numbers; 0 is a host-constructed leaf, kept for ever, that *)
(* slice_update nodes write in place.  Views are transparent: an input     *)
(* here is the storage owner its chain ends in.  Each op is an encoder of  *)
(* its own, the finest interleaving of chunks.                             *)
(*                                                                         *)
(* content[b] is the set of nodes whose value b holds: an op leaves its    *)
(* own value alone in its output, an in-place update adds one to the leaf. *)
(***************************************************************************)
EXTENDS Integers, Sequences, FiniteSets, SequencesExt

CONSTANTS Buffers,     \* buffers of the pool (one size class)
          Slab,        \* the buffer of the host leaf
          MaxNodes,    \* bound: op nodes ever built
          MaxInputs,   \* bound: inputs of one op
          MaxPending,  \* bound: PendingEval handles held at once
          MaxFaults,   \* bound: jobs the GPU fails, encodes that fail
          None,        \* no buffer
          DropsEarly   \* may a client drop a tensor that a later eval still reads?

ASSUME EvalAssumption == /\ MaxNodes \in Nat /\ MaxInputs \in Nat
                         /\ MaxPending \in Nat /\ MaxFaults \in Nat
                         /\ DropsEarly \in BOOLEAN /\ Slab \notin Buffers
                         /\ None \notin Buffers \cup {Slab}

Nodes == 1..MaxNodes

VARIABLES
  kind,      \* kind[n]: "unbuilt", "op", or "update" (SliceUpdate of the leaf)
  ins,       \* ins[n]: the input tensors, {} once detached
  out,       \* out[n]: the buffer n is dispatched into or cached in, or None
  cached,    \* nodes whose result cache is populated
  in_flight, \* nodes whose host-read gate is closed
  held,      \* nodes the client holds a handle of
  pending,   \* the PendingEvals: the order each pins
  doing,     \* what the host is blocked in: "no", "eval", "abort", "observe"
  order,     \* the nodes of the call the host is blocked in
  queue,     \* committed jobs that have not run, in submission order
  content,   \* content[b]: the nodes whose value the bytes of b are
  failed,    \* nodes whose last job the GPU failed
  broken,    \* nodes whose last job failed or read a broken result
  faults

graph == <<kind, ins, held>>
vars == <<kind, ins, out, cached, in_flight, held, pending, doing, order,
          queue, content, failed, broken, faults>>

BufferOf(n) == IF n = 0 THEN Slab ELSE out[n]

\* Mutant: PendingEval does not pin its order.
RootsUnpinned == held \cup order

\* The nodes a walk from R along the inputs finds when it ends at the nodes in H.
Below(R, H) ==
  {n \in Nodes \ H : \A S \in SUBSET (Nodes \ H) :
     R \ H \subseteq S /\ (\A m \in S : ins[m] \ (H \cup {0}) \subseteq S) => n \in S}

\* What keeps a node alive: a handle, a call, a PendingEval, or a consumer that
\* is not detached.
Roots == held \cup order \cup UNION pending

Alive == Below(Roots, {})

\* Buffers no live tensor owns: in the pool, or released to Metal, which may
\* mint the same address again.
Free == Buffers \ {out[n] : n \in Alive}

Init == /\ kind = [n \in Nodes |-> "unbuilt"]
        /\ ins = [n \in Nodes |-> {}]
        /\ out = [n \in Nodes |-> None]
        /\ cached = {} /\ in_flight = {} /\ held = {} /\ pending = {}
        /\ doing = "no" /\ order = {}
        /\ queue = <<>>
        /\ content = [b \in Buffers \cup {Slab} |-> IF b = Slab THEN {0} ELSE {}]
        /\ failed = {} /\ broken = {} /\ faults = 0
-----------------------------------------------------------------------------
\* An op builder: a fresh node over tensors the client holds, the leaf, and
\* constants (weights, host data), which no op writes and S leaves out.
\* slice_update takes the leaf as its slab, the rest of S as its source.
Build(n, k, S) ==
  /\ doing = "no"
  /\ kind[n] = "unbuilt" /\ \A m \in 1..(n - 1) : kind[m] # "unbuilt"
  /\ S \subseteq held \cup {0} /\ Cardinality(S) <= MaxInputs
  /\ k = "update" => 0 \in S
  /\ kind' = [kind EXCEPT ![n] = k]
  /\ ins' = [ins EXCEPT ![n] = S]
  /\ held' = held \cup {n}
  /\ UNCHANGED <<out, cached, in_flight, pending, doing, order, queue, content,
                 failed, broken, faults>>

\* An evaluated node some committed job, or some op not yet evaluated, reads.
StillRead(n) == /\ n \in cached
                /\ \/ \E i \in DOMAIN queue : out[n] \in queue[i].reads
                   \/ \E m \in Alive \ cached : n \in ins[m]

\* The client drops its handle of n; unless DropsEarly, not while n is still read.
Drop(n) ==
  /\ doing = "no" /\ n \in held
  /\ DropsEarly \/ ~StillRead(n)
  /\ held' = held \ {n}
  /\ UNCHANGED <<kind, ins, out, cached, in_flight, pending, doing, order,
                 queue, content, failed, broken, faults>>

\* The evaluated tensors the nodes of ord read.
CrossInputs(ord) == (UNION {ins[n] : n \in ord}) \cap cached

\* Mutant: a populated cache does not end the walk.
BuildOrderCached(root) == Below({root}, {})

\* build_order: the unevaluated nodes below root, a populated cache hiding what
\* is below it.
BuildOrder(root) == Below({root}, cached)

\* The outputs encode_ops may allocate for the nodes of ord: an update writes
\* the leaf in place, the others get buffers of their own.
Outputs(ord) ==
  {o \in [ord -> Free \cup {Slab}] :
     /\ \A n \in ord : kind[n] = "update" <=> o[n] = Slab
     /\ \A n, m \in ord : o[n] = o[m] /\ o[n] # Slab => n = m}

\* The nodes of S in the order they were built, which is a topological one.
Ascending(S) == CHOOSE s \in [1..Cardinality(S) -> S] :
                  \A i, j \in DOMAIN s : i < j => s[i] < s[j]

\* Mutant: the last, partial chunk is never committed.
JobsLostTail(ord, o, k) ==
  LET seq == Ascending(ord)
  IN  [i \in 1..(k - 1) |-> [node |-> seq[i], out |-> o[seq[i]],
                             reads |-> {BufferOf(m) : m \in ins[seq[i]]},
                             args |-> ins[seq[i]]]]

\* encode_ops up to the first k ops, in topological order; job i waits for the
\* earlier jobs that write what it reads or writes.
Jobs(ord, o, k) ==
  LET seq == Ascending(ord)
      BufferIn(m) == IF m \in ord THEN o[m] ELSE BufferOf(m)
  IN  [i \in 1..k |-> [node |-> seq[i], out |-> o[seq[i]],
                       reads |-> {BufferIn(m) : m \in ins[seq[i]]},
                       args |-> ins[seq[i]]]]

\* Mutant: nodes without a pool tag (slice_update) are passed over.
PopulatedTagged(ord) == cached \cup {n \in ord : kind[n] = "op"}

\* populate_caches.
Populated(ord) == cached \cup ord

\* detach_order: an evaluated node lets go of its producers.
Detached(ord) == [n \in Nodes |-> IF n \in ord THEN {} ELSE ins[n]]

WithOutputs(o) == [n \in Nodes |-> IF n \in DOMAIN o THEN o[n] ELSE out[n]]

\* Tensor::eval and profiled_eval, up to the wait: the host blocks.
Eval(root) ==
  /\ doing = "no"
  /\ LET ord == BuildOrder(root) IN
       /\ ord # {}
       /\ \E o \in Outputs(ord) :
            /\ out' = WithOutputs(o)
            /\ queue' = queue \o Jobs(ord, o, Cardinality(ord))
       /\ order' = ord
  /\ doing' = "eval"
  /\ UNCHANGED <<graph, cached, in_flight, pending, content, failed, broken, faults>>

\* Tensor::eval_async: caches are populated and producers let go at commit.  Unless
\* DropsEarly, the client holds the evaluated tensors the batch reads, which
\* letting go may otherwise recycle at once.
EvalAsync(root) ==
  /\ doing = "no"
  /\ Cardinality(pending) < MaxPending
  /\ LET ord == BuildOrder(root) IN
       /\ ord # {}
       /\ DropsEarly \/ CrossInputs(ord) \subseteq held
       /\ \E o \in Outputs(ord) :
            /\ out' = WithOutputs(o)
            /\ queue' = queue \o Jobs(ord, o, Cardinality(ord))
       /\ in_flight' = in_flight \cup ord
       /\ cached' = Populated(ord)
       /\ ins' = Detached(ord)
       /\ pending' = pending \cup {ord}
  /\ UNCHANGED <<kind, held, doing, order, content, failed, broken, faults>>

\* encode_ops fails at the op after the first k: the chunks committed so far
\* are dropped, which blocks until they have run; nothing else is kept.
EncodeFails(root) ==
  /\ doing = "no" /\ faults < MaxFaults
  /\ faults' = faults + 1
  /\ LET ord == BuildOrder(root) IN
       /\ ord # {}
       /\ \E o \in Outputs(ord), k \in 0..(Cardinality(ord) - 1) :
            /\ out' = WithOutputs(o)
            /\ queue' = queue \o Jobs(ord, o, k)
       /\ order' = ord
  /\ doing' = "abort"
  /\ UNCHANGED <<graph, cached, in_flight, pending, content, failed, broken>>

\* PendingEval::wait, or its drop: the host blocks; the order stays pinned.
Observe(p) ==
  /\ doing = "no" /\ p \in pending
  /\ pending' = pending \ {p}
  /\ order' = p
  /\ doing' = "observe"
  /\ UNCHANGED <<graph, out, cached, in_flight, queue, content, failed, broken, faults>>

GpuDone(S) == \A i \in DOMAIN queue : queue[i].node \notin S

\* The buffers of an evaluation that kept nothing go back to Metal.
Forgotten == [n \in Nodes |-> IF n \in order THEN None ELSE out[n]]

\* eval, once the GPU is done with its jobs: unless one failed, the caches are
\* populated and the producers let go.
EvalReturns ==
  /\ doing = "eval" /\ GpuDone(order)
  /\ IF order \cap failed = {}
     THEN cached' = Populated(order) /\ ins' = Detached(order) /\ UNCHANGED out
     ELSE out' = Forgotten /\ UNCHANGED <<cached, ins>>
  /\ doing' = "no" /\ order' = {}
  /\ UNCHANGED <<kind, held, in_flight, pending, queue, content, failed, broken, faults>>

AbortReturns ==
  /\ doing = "abort" /\ GpuDone(order)
  /\ out' = Forgotten
  /\ doing' = "no" /\ order' = {}
  /\ UNCHANGED <<graph, cached, in_flight, pending, queue, content, failed, broken, faults>>

\* The host-read gate of the whole batch opens, whether or not a job failed.
ObserveReturns ==
  /\ doing = "observe" /\ GpuDone(order)
  /\ in_flight' = in_flight \ order
  /\ doing' = "no" /\ order' = {}
  /\ UNCHANGED <<graph, out, cached, pending, queue, content, failed, broken, faults>>
-----------------------------------------------------------------------------
\* Mutant: outputs are published before the waits are computed, and the encoder
\* waits for itself.
ClearSelf(i) == \A j \in 1..i : queue[j].out \notin queue[i].reads \cup {queue[i].out}

\* EncoderOrder's promise: job i follows the earlier jobs that write a buffer
\* it reads or writes.  An earlier reader of what it writes does not count.
Clear(i) == \A j \in 1..(i - 1) : queue[j].out \notin queue[i].reads \cup {queue[i].out}

\* The GPU runs job i: the result is right if every argument still is.
Run(i) ==
  /\ Clear(i)
  /\ LET job == queue[i]
         n == job.node
         right == \A m \in job.args : m \in content[BufferOf(m)]
         value == IF right THEN {n} ELSE {}
     IN  /\ content' = [content EXCEPT ![job.out] =
                          IF kind[n] = "update" THEN @ \cup value ELSE value]
         /\ broken' = IF job.args \cap broken = {} THEN broken \ {n} ELSE broken \cup {n}
         /\ failed' = failed \ {n}
  /\ queue' = RemoveAt(queue, i)
  /\ UNCHANGED <<graph, out, cached, in_flight, pending, doing, order, faults>>

\* The GPU fails job i: its output is whatever it is.
GpuFails(i) ==
  /\ Clear(i) /\ faults < MaxFaults
  /\ faults' = faults + 1
  /\ LET job == queue[i] IN
       /\ content' = [content EXCEPT ![job.out] = IF job.out = Slab THEN @ ELSE {}]
       /\ broken' = broken \cup {job.node}
       /\ failed' = failed \cup {job.node}
  /\ queue' = RemoveAt(queue, i)
  /\ UNCHANGED <<graph, out, cached, in_flight, pending, doing, order>>

Gpu == \E i \in DOMAIN queue : Run(i) \/ GpuFails(i)

Returns == EvalReturns \/ AbortReturns \/ ObserveReturns

Next == \/ \E n \in Nodes, k \in {"op", "update"}, S \in SUBSET (0..MaxNodes) : Build(n, k, S)
        \/ \E n \in Nodes : Drop(n)
        \/ \E root \in held : Eval(root) \/ EvalAsync(root) \/ EncodeFails(root)
        \/ \E p \in pending : Observe(p)
        \/ Returns
        \/ Gpu

Spec == Init /\ [][Next]_vars

\* The GPU works through what was committed, and a blocked call goes on when it
\* can; nothing obliges the client to act.
FairSpec == Spec /\ WF_vars(Gpu) /\ WF_vars(Returns)
-----------------------------------------------------------------------------
\* What cpu_bytes may hand out: a populated cache whose gate is open.
Readable == (cached \ in_flight) \cap held

\* TypeOK: the shapes of the lazy graph (tensor.rs:48-172) and of the queue; only
\* a populated tensor is ever gated, and a call is blocked on the nodes of its
\* order and on nothing otherwise.
TypeOK ==
  /\ kind \in [Nodes -> {"unbuilt", "op", "update"}]
  /\ ins \in [Nodes -> SUBSET (0..MaxNodes)]
  /\ out \in [Nodes -> Buffers \cup {Slab, None}]
  /\ cached \subseteq Nodes /\ in_flight \subseteq cached
  /\ held \subseteq Nodes /\ pending \subseteq SUBSET Nodes
  /\ doing \in {"no", "eval", "abort", "observe"} /\ order \subseteq Nodes
  /\ doing = "no" <=> order = {}
  /\ \A i \in DOMAIN queue : /\ queue[i].node \in Nodes
                              /\ queue[i].out \in Buffers \cup {Slab}
                              /\ queue[i].reads \subseteq Buffers \cup {Slab}
  /\ content \in [Buffers \cup {Slab} -> SUBSET (0..MaxNodes)]
  /\ failed \subseteq broken /\ broken \subseteq Nodes /\ faults \in 0..MaxFaults

\* A readable op tensor holds its own value, and no committed job is about to
\* write its buffer: recycling, overlap of evaluations, failed evaluations and
\* retries never show a host reader another tensor's bytes.
HostReadsRight ==
  \A n \in Readable : kind[n] = "op" =>
    /\ n \in broken \/ n \in content[out[n]]
    /\ \A i \in DOMAIN queue : queue[i].out # out[n]

\* An applied slice_update is in the leaf once its tensor is readable.
UpdatesLand == \A n \in Readable : kind[n] = "update" => n \in broken \/ n \in content[Slab]

\* A committed slice_update lands: the leaf gains its rows.
UpdateLands == \E i \in DOMAIN queue : /\ kind[queue[i].node] = "update"
                                       /\ content'[Slab] = content[Slab] \cup {queue[i].node}

\* What is readable (tensor.rs:2807-2853) stays readable for as long as the client
\* holds it, an op tensor with the same bytes.  tensor.rs:73-75 and 2801-2805 claim
\* the latter of every populated tensor, host-constructed leaves included.  It does
\* not hold of the leaf, whose bytes a readable slice_update tensor shares: that is
\* written under its readers, but only by a slice_update the client committed; no
\* op, failure or recycled buffer touches it.
ReadsStable ==
  [][/\ \A n \in Readable : n \in held' =>
          /\ n \in Readable'
          /\ kind[n] = "op" => content'[out'[n]] = content[out[n]]
     /\ content'[Slab] # content[Slab] => UpdateLands]_vars

\* Every blocked call (eval, an aborted eval, wait or drop of a PendingEval)
\* returns.
CallsReturn == doing # "no" ~> doing = "no"
-----------------------------------------------------------------------------
\* buffer_pool.rs:149: "it does not by itself order a recycling write after a
\* purely read-only in-flight use (a true WAR hazard).  That case is currently
\* unreachable".
NoWriteAfterRead ==
  \A i, j \in DOMAIN queue :
    j < i /\ Clear(i) => queue[i].out \notin queue[j].reads \cap Buffers
=============================================================================
