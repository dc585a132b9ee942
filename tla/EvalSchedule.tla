--------------------------- MODULE EvalSchedule ---------------------------
(***************************************************************************)
(* How one evaluation is scheduled and encoded (eval.rs: build_order,      *)
(* encode_ops; commands.rs: dispatch_threads, dispatch_threadgroups).      *)
(* build_order walks the unevaluated ops below the root, root last in the  *)
(* numbering, and lists them in Kahn level order; encode_ops dispatches    *)
(* them on concurrent encoders, one per chunk of ChunkOps ops, and skips a *)
(* memory barrier when the op touches nothing written since the last one.  *)
(*                                                                         *)
(* 0 is a terminal input, the host leaf that slice_update nodes write in   *)
(* place; views are transparent, and terminal inputs nobody writes         *)
(* (weights, evaluated tensors) are left out.                              *)
(***************************************************************************)
EXTENDS Integers, Sequences, FiniteSets, SequencesExt

CONSTANTS MaxNodes,     \* bound: ops of the graph
          MaxInputs,    \* bound: inputs of one op
          ChunkOps,     \* OPS_PER_COMMAND_BUFFER
          EmptyUpdates  \* may a slice_update have a source of zero rows?

ASSUME ScheduleAssumption == /\ MaxNodes \in Nat \ {0} /\ MaxInputs \in Nat
                             /\ ChunkOps \in Nat \ {0} /\ EmptyUpdates \in BOOLEAN

Nodes == 1..MaxNodes
Root == MaxNodes

VARIABLES
  kind,      \* kind[n]: "op", "update", or "empty" (an update of zero rows)
  ins,       \* ins[n]: the inputs of n in order, repetitions included
  phase,     \* "discover", "levels", "encode", "done"
  stack, nodes,               \* the worklist, and what it discovered in order
  indegree, wave, next, order,
  unsynced,  \* buffers written since the last barrier
  elide,     \* elide_next_barrier of the open Commands
  encoded,   \* ops encoded so far
  chunk, epoch,               \* open encoder, barriers encoded in it
  log        \* the dispatches: node, encoder and epoch of each

graph == <<kind, ins>>
search == <<stack, nodes, indegree, wave, next>>
window == <<unsynced, elide, encoded, chunk, epoch, log>>
vars == <<graph, phase, search, order, window>>

Inputs(n) == ToSet(ins[n])
Producers(n) == Inputs(n) \ {0}

\* Mutant: terminal inputs are scheduled as well.
DepsAll(n) == ins[n]

\* The items of q at the positions in P, in order.
Picked(q, P) ==
  LET pick[i \in 0..Len(q)] == IF i = 0 THEN <<>>
                               ELSE IF i \in P THEN Append(pick[i - 1], q[i])
                               ELSE pick[i - 1]
  IN  pick[Len(q)]

\* The inputs that are ops, once each, in input order.
Deps(n) == Picked(ins[n], {i \in DOMAIN ins[n] :
                             ins[n][i] # 0 /\ \A j \in 1..(i - 1) : ins[n][j] # ins[n][i]})

BufferOf(m) == IF m # 0 /\ kind[m] = "op" THEN m ELSE 0

\* The graphs a client can build: inputs come first, an update's slab is the leaf.
BoundedSeqOver(S) == UNION {[1..k -> S] : k \in 0..MaxInputs}
Kinds == IF EmptyUpdates THEN {"op", "update", "empty"} ELSE {"op", "update"}

Init == /\ kind \in [Nodes -> Kinds]
        /\ ins \in {f \in [Nodes -> BoundedSeqOver(0..(MaxNodes - 1))] :
                      \A n \in Nodes : \A i \in DOMAIN f[n] : f[n][i] < n}
        /\ \A n \in Nodes : kind[n] # "op" => ins[n] # <<>> /\ ins[n][1] = 0
        /\ phase = "discover"
        /\ stack = <<Root>> /\ nodes = <<>>
        /\ indegree = [n \in Nodes |-> 0]
        /\ wave = <<>> /\ next = <<>> /\ order = <<>>
        /\ unsynced = {} /\ elide = FALSE
        /\ encoded = 0 /\ chunk = 0 /\ epoch = 0 /\ log = <<>>
-----------------------------------------------------------------------------
\* build_order's reachability pass pops a node: seen before, or new.
Discover ==
  /\ phase = "discover" /\ stack # <<>>
  /\ LET n == Last(stack) IN
       IF n \in ToSet(nodes)
       THEN stack' = Front(stack) /\ UNCHANGED nodes
       ELSE /\ nodes' = Append(nodes, n)
            /\ stack' = Front(stack) \o Deps(n)
  /\ UNCHANGED <<graph, phase, indegree, wave, next, order, window>>

\* Mutant: an op that reads a producer twice counts it twice.
CountEveryInput(n) == Cardinality({i \in DOMAIN ins[n] : ins[n][i] # 0})

\* The in-degree of n over the discovered subgraph.
Degree(n) == Cardinality(Producers(n))

StartLevels ==
  /\ phase = "discover" /\ stack = <<>>
  /\ phase' = "levels"
  /\ indegree' = [n \in Nodes |-> Degree(n)]
  /\ wave' = Picked(nodes, {i \in DOMAIN nodes : Producers(nodes[i]) = {}})
  /\ UNCHANGED <<graph, stack, nodes, next, order, window>>

\* Is c one of the discovered consumers of n?
Consumes(c, n) == c \in ToSet(nodes) /\ n \in Producers(c)

\* The consumers that n is the last to hold back, in discovery order.
Ready(n) == Picked(nodes, {i \in DOMAIN nodes : /\ Consumes(nodes[i], n)
                                                /\ indegree[nodes[i]] = 1})

\* Mutant: a node whose producers are all emitted joins the wave being emitted.
EmitAtOnce ==
  /\ phase = "levels" /\ wave # <<>>
  /\ LET n == Head(wave)
         ready == Ready(n)
     IN  /\ order' = Append(order, n)
         /\ indegree' = [c \in Nodes |-> IF Consumes(c, n) THEN indegree[c] - 1
                                         ELSE indegree[c]]
         /\ wave' = ready \o Tail(wave)
  /\ UNCHANGED <<graph, phase, stack, nodes, next, window>>

\* The next node of the wave is emitted; consumers it was the last to hold back
\* form the next wave, which starts when this one is through.
Emit ==
  /\ phase = "levels" /\ wave # <<>>
  /\ LET n == Head(wave)
         ready == Ready(n)
         last == Tail(wave) = <<>>
     IN  /\ order' = Append(order, n)
         /\ indegree' = [c \in Nodes |-> IF Consumes(c, n) THEN indegree[c] - 1
                                         ELSE indegree[c]]
         /\ wave' = IF last THEN next \o ready ELSE Tail(wave)
         /\ next' = IF last THEN <<>> ELSE next \o ready
  /\ UNCHANGED <<graph, phase, stack, nodes, window>>

StartEncode == /\ phase = "levels" /\ wave = <<>>
               /\ phase' = "encode"
               /\ UNCHANGED <<graph, search, order, window>>
-----------------------------------------------------------------------------
\* Mutant: only the first input is looked up in the window.
HazardFirst(n, written) ==
  ({BufferOf(n)} \cup {BufferOf(ins[n][i]) : i \in DOMAIN ins[n] \cap {1}}) \cap written # {}

\* Does op n touch a buffer written since the last barrier?
Hazard(n, written) == ({BufferOf(n)} \cup {BufferOf(m) : m \in Inputs(n)}) \cap written # {}

\* The window after op n: a barrier syncs all that precedes it.
Window(n, written) == IF Hazard(n, written) THEN {BufferOf(n)}
                      ELSE written \cup {BufferOf(n)}

\* Dispatches an op makes: concat one per part, an empty update none.
Dispatches(n) == IF kind[n] = "empty" THEN {0}
                 ELSE IF kind[n] = "op" /\ ins[n] # <<>> THEN {1, Len(ins[n])} ELSE {1}

\* encode_ops encodes the next op.  A chunk boundary opens fresh Commands: no
\* window, no elide flag, no dispatch to wait for.
EncodeOp ==
  /\ phase = "encode" /\ encoded < Len(order)
  /\ LET n == order[encoded + 1]
         fresh == encoded > 0 /\ encoded % ChunkOps = 0
         written == IF fresh THEN {} ELSE unsynced
         here == IF fresh THEN chunk + 1 ELSE chunk
         barriers == IF fresh THEN 0 ELSE epoch
         \* eval arms the one-shot flag, or leaves it as it was
         armed == ~Hazard(n, written) \/ (elide /\ ~fresh)
         first == \A i \in DOMAIN log : log[i].chunk # here
         before == IF armed \/ first THEN 0 ELSE 1
     IN  /\ unsynced' = Window(n, written)
         /\ chunk' = here
         /\ \E k \in Dispatches(n) :
              IF k = 0
              THEN /\ elide' = armed /\ epoch' = barriers /\ UNCHANGED log
              ELSE /\ elide' = FALSE
                   /\ epoch' = barriers + before + k - 1
                   /\ log' = log \o [i \in 1..k |->
                                       [node |-> n, chunk |-> here,
                                        epoch |-> barriers + before + i - 1]]
  /\ encoded' = encoded + 1
  /\ UNCHANGED <<graph, phase, search, order>>

Finish == /\ phase = "encode" /\ encoded = Len(order)
          /\ phase' = "done"
          /\ UNCHANGED <<graph, search, order, window>>

Next == Discover \/ StartLevels \/ Emit \/ StartEncode \/ EncodeOp \/ Finish

Spec == Init /\ [][Next]_vars
-----------------------------------------------------------------------------
\* TypeOK: the worklists hold ops, never terminal inputs, and in-degrees never go
\* below zero (eval.rs:89-169); what encode_ops tracks has its range (220-303).
TypeOK ==
  /\ phase \in {"discover", "levels", "encode", "done"}
  /\ stack \in Seq(Nodes) /\ nodes \in Seq(Nodes)
  /\ wave \in Seq(Nodes) /\ next \in Seq(Nodes) /\ order \in Seq(Nodes)
  /\ indegree \in [Nodes -> 0..MaxInputs]
  /\ unsynced \subseteq 0..MaxNodes /\ elide \in BOOLEAN
  /\ encoded \in 0..Len(order)
  /\ log \in Seq([node : Nodes, chunk : Nat, epoch : Nat])

\* The ops below the root, and how many producers deep each lies.
Reachable == {n \in Nodes : \A S \in SUBSET Nodes :
                Root \in S /\ (\A m \in S : Producers(m) \subseteq S) => n \in S}

Level == LET depth[n \in Nodes] == IF Producers(n) = {} THEN 0
                                   ELSE 1 + Max({depth[m] : m \in Producers(n)})
         IN  depth

\* ScheduleSound: the schedule has every op the root needs, once, each after
\* all of its producers (the debug_assert of eval.rs:163, and more).
ScheduleSound ==
  phase \in {"encode", "done"} =>
    /\ ToSet(order) = Reachable /\ Len(order) = Cardinality(Reachable)
    /\ \A i, j \in DOMAIN order : order[i] \in Producers(order[j]) => i < j

\* WavesInOrder: the schedule goes level by level, so mutually independent ops
\* of a level lie next to each other (eval.rs:70-84).
WavesInOrder == \A i, j \in DOMAIN order : i < j => Level[order[i]] <= Level[order[j]]

\* The buffer a dispatch writes.
Out(d) == BufferOf(d.node)

\* What the kernel reads: an update writes its slab without reading it.
Reads(d) == {BufferOf(ins[d.node][i]) :
               i \in {j \in DOMAIN ins[d.node] : kind[d.node] = "op" \/ j > 1}}

\* Two dispatches that may overlap on the GPU.
Overlap(d, e) == d.node # e.node /\ d.chunk = e.chunk /\ d.epoch = e.epoch

\* ElisionProven: no dispatch overlaps an earlier one that writes what it reads
\* or writes.  "Callers must prove the next dispatch reads nothing written since
\* the last barrier in this encoder" (commands.rs:290-293).
ElisionProven ==
  \A i, j \in DOMAIN log :
    i < j /\ Overlap(log[i], log[j]) => Out(log[i]) \notin Reads(log[j]) \cup {Out(log[j])}
=============================================================================
