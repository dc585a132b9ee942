# Specifications of cider_press

TLA+ specifications of cider_press, a lazy tensor library and LLM decoder on Apple
Metal. Half of what makes the program right is *sequencing*: buffers are untracked by
Metal, recycled through a pool, written and read by encoders that overlap on the GPU,
named by lazy tensors whose evaluation may still be in flight, and updated in place
by a KV cache. The other half is *addressing*: zero-copy views are folded into offsets
and strides that every kernel encoder interprets in its own way, and the two language
models are long compositions of such ops over caches that are cut at other places than
the chunks of tokens fed to them. The modules here state what each part promises and
check it; the promises about sequencing, and those about which element an op reads, are
proved for every value of the constants.

Paths are relative to `src/`; `runtime`, `kernels` and `models` stand for
`crates/cider-press-{runtime,kernels,models}/src`. `PROJECT.json` gives, for every
definition that models code, the lines it models.

## 1. The system

| part | code | state | operations |
|---|---|---|---|
| buffer pool | `runtime/buffer_pool.rs`, `runtime/device.rs` | free-list by exact byte length, byte count, cap, counters; the owning handles | `alloc_pooled`/`take`, `pooled`, drop of a raw or pooled handle/`give`, `set_cap`, tear-down |
| command sessions and fence map | `kernels/commands.rs`, `kernels/device.rs` | the open encoder and the keys recorded for it, the undo log; the device's map buffer -> fence of its last writer; the handles of committed batches | open, record + dispatch, close (wait, update, publish), commit, commit-and-wait, drop uncommitted (restore), wait / drop of a handle |
| lazy tensors and evaluation | `runtime/tensor.rs`, `runtime/eval.rs`, `runtime/pending_eval.rs` | the graph of op nodes, result caches, in-flight gates, detached inputs | op builders, `eval`, `profiled_eval`, `eval_async`, `PendingEval::wait`/drop, `cpu_bytes`, drops |
| schedule and barrier elision | `runtime/eval.rs` (`build_order`, `encode_ops`), `kernels/commands.rs` (`elide_next_barrier`) | worklists, in-degrees, waves; the window of unsynced buffers; the one-shot flag | discover, level, encode in chunks of 50 |
| KV cache | `runtime/kv_cache.rs` | position, latest `slice_update` per slab, the slabs | `update`, `keys_view`/`values_view`, `reset` |
| token generator | `models/generator.rs`, `models/language_model.rs` | per-layer caches, the queue of in-flight steps, the chained id tensor, deferred error | `generate`, `next`, `advance`, drop, `reset`, prefill |
| views, shapes, strides | `runtime/tensor.rs`, `strides.rs`, `shape.rs`, `layout.rs` | none (a tensor is dims, strides, offset, storage) | reshape, permute, slice, broadcast, `copy` and its elision, the host's odometer, the checks of every op builder |
| op dispatch | `runtime/eval.rs` (`dispatch_*`) | none | resolving operands, refusing, routing to an encoder with strides and offsets |
| kernel encoders | `kernels/kernels/*` | none | length checks, grids, the element each thread reads and writes |
| quantized weights | `runtime/quantization.rs`, `quantized.rs` | packed words, scales, biases, physical and logical K | `validate`, `from_bytes`, `from_bytes_k_padded` |
| weights, configuration | `models/safetensors_io.rs`, `models/{qwen2,qwen3_5}/{config,weights}.rs` | the shards of a checkpoint and their index | `ShardSet::read`, lookups, `load_*`, padded twins |
| Qwen2, Qwen3.5 | `models/nn.rs`, `models/{qwen2,qwen3_5}/*` | per-layer caches: KV slabs, convolution window and recurrent state | `from_weights`, `make_caches`, `forward`, `forward_last`, `forward_hidden`, `fill_cache`, `reset_caches` |
| profiling, tokenizer, CLI | the remaining files | see `PROJECT.json` | |

How they interact. A client thread builds op tensors (no GPU work). `eval(root)`
asks `build_order` for the unevaluated nodes, draws one output buffer per node
from the **pool**, encodes each op on a **session** that publishes a fence per
output in the device's **map**, commits every 50 ops, and then either waits
(`eval`) or returns a `PendingEval` that pins the nodes (`eval_async`). At the
wait, or for `eval_async` already at commit, the caches are populated and the
nodes let go of their producers, whose buffers return to the pool while the GPU
is still at work. The next evaluation may be handed such a buffer at once: only
the fence of its last writer orders it. The **KV cache** writes rows of a
long-lived slab in place and hands out views of it; the **generator** runs several
decode steps ahead of the token it returns, feeding each step's result tensor to
the next without reading it. The **models** it drives are compositions of op builders:
a token id becomes a row of a quantized embedding, goes through the layers, each of which
reads and replaces its own cache, and comes out as logits; a prompt and a single token
take different kernels on the way.

What is hard, and where it is covered (the complete list, line by line, is
`hazards` in `PROJECT.json`):

* *ordering on the GPU*: nothing but the fence map, and within an encoder nothing
  but the barriers not elided, orders two dispatches;
* *partial failure*: an op that fails to encode discards a session whose fences
  are already in the map, after earlier chunks were committed and run; a batch may
  fail on the GPU after its caches were populated; the second of two `slice_update`s
  may fail after the first is in place;
* *ownership*: recycled buffers, lent through handles that are dropped at any
  time, with the pool gone or not;
* *stale state*: host reads of tensors in flight, the one-shot elide flag, views
  kept across steps and resets, producers detached before they have run;
* *waiting*: blocked calls must return, and nothing may wait for a fence that no
  encoder will ever update;
* *stacked views*: a permute of a slice of a broadcast, read by a kernel that takes
  strides, one that takes an offset only, and one that takes neither, or refused by the
  builder, the dispatch or the encoder;
* *chunks*: a causal mask shifted by what the cache holds, a convolution window shorter
  or longer than the chunk, a recurrent state carried from one forward to the next;
* *checkpoints*: a tensor that is missing, misnamed, or of another shape or type than the
  configuration implies must be noticed when it is loaded, not computed with.

There is one client thread: `commands.rs:46-55` makes one dispatching thread at a
time a contract of the API. All concurrency is between that thread and the GPU, and
among the encoders on the GPU.

## 2. Modules

```
BufferLending  <=refines=  BufferPool
EncoderOrder   <=refines=  FenceMap
     |
     +- its promise is the GPU (Clear) of -> AsyncEval, KvCache
     +- and the batch order (Run) of      -> Generator
EvalSchedule   (order and barriers inside one evaluation)
GreedyDecode   <=refines=  Generator

TensorViews <- TensorKernels <- TensorDispatch <- TensorOps     (which element is read)
     ^
     +-- TensorMath <- QwenBlocks <- GatedDeltaNet ----+        (what is computed)
             ^  ^           ^ <----- QwenAttention ----+
             |  +-- Checkpoint <--- QwenWeights -------+- QwenModel
             +-- QwenReference  <== agrees with ==     +
MC<module>       the TLC instance of each
<module>Proofs   the theorems about BufferPool, FenceMap, EvalSchedule, AsyncEval, KvCache,
                 Generator; TensorOpsProofs extends TensorViewsProofs, both about TensorOps
```

(`A <- B`: B extends A.)

The layers are checked separately and meet in their promises: `BufferPool` is
checked against `BufferLending`, and `AsyncEval` assumes exactly that (`Free`: any
buffer no live tensor owns may be handed out next, recycled or freshly minted);
`FenceMap` is checked against `EncoderOrder`, and `AsyncEval` and `KvCache` assume
exactly that (`Clear`: a job starts after the *earlier writers* of what it reads or
writes, and after nothing else). Definitions named after a mutation (`TakeHitPeek`,
`RestoreForward`, ...) are deliberate mistakes, used only to see that each property
would catch one; nothing else refers to them.

**BufferLending** is what the pool promises: a buffer is absent, idle or lent, keeps
the size it was minted for, is lent only when idle and of exactly the requested
size (or new), and only idle buffers are evicted.

**BufferPool**: `free[s]` is the stack of recycled buffers of `s` bytes;
`handle[b]` says who owns `b` (nobody, an unwrapped allocation, a `PooledBuffer`),
`tag[b]` is the key that travels with the handle, `len[b]` what Metal allocated (a
ghost). `AllocPooled` is `TakeHit`, `TakeMiss` or `TakeFails`; `Wrap`, `DropRaw`,
`DropPooled` are the life of a handle; `SetCap` pops buckets in the unspecified
order of the hash map, all but the last one visited to the bottom; `TearDown` is
the drop of the last device handle. The mutex makes each of them atomic in the code.

**EncoderOrder** is what the session layer promises: encoders are submitted in
order, start after the earlier *writers* of what they touch, and finish. It does
not order a write behind an earlier read; that is a fact about the code (fences are
published for outputs only), and what the modules above build on.

**FenceMap**: encoders are numbered as they are opened; `prev_outputs`, `input_keys`,
`output_keys`, `unresolved_input`, `restore` and `inflight` are the fields of the
code. `Open`, `Dispatch`, `BeginProfiledOp`, `Commit`, `CommitAndWait`, `Abandon`,
`Wait` are its operations, `CloseEncoder` the part they share, with the code's order:
waits are computed before the outputs are published. `Start`, `Finish` and `Wake`
are Metal.

**AsyncEval**: nodes are op tensors; `ins`, `out`, `cached`, `in_flight` the graph, the
output buffers, the populated caches and the closed gates; `held` and `pending` what
the client holds; `queue` the committed jobs; `content[b]` (a ghost) whose values
the bytes of `b` are. `Build` stands for every op builder, `Eval`/`EvalReturns` for
the two halves of a blocking evaluation, `EvalAsync`, `Observe`/`ObserveReturns` for
the asynchronous one, `EncodeFails`/`AbortReturns` for an op that fails to encode after
some chunks were committed, `GpuFails` for a command buffer that ends in error.
Every op is an encoder of its own here: the finest interleaving chunking allows.

**EvalSchedule**: `Discover`, `StartLevels`, `Emit` are the passes of `build_order`, one
step per iteration; `EncodeOp` is an iteration of `encode_ops` with its window, the
one-shot flag, and the number of dispatches the op really makes. The graph is chosen
in `Init`: every DAG of the given size.

**KvCache**: `updates` are the `slice_update` nodes ever built; `latest` the one each
slab's views slice; `slab[s][r]` which update wrote a row. `Update`, `UpdateFails`,
`KeepView`/`DropView`, `Eval`, `EvalFails`, `Reset` are the client's calls, `Run` the GPU.

**TensorViews** has the shapes, strides and view builders. A tensor is a record with the
storage at the end of its view chain in it; the view builders fold views the way
`view_target` does. `CpuIter` is the host's odometer, `CopyElides` the shortcut of `copy`.

**TensorKernels** says of every encoder what a dispatch leaves in the output buffer, element
by element: which thread of the grid writes where, from which address of which operand.
A value is the sequence of the elements it is computed from, so that two sums over
different elements are different values. Buffers have the slack of their allocation
behind them.

**TensorDispatch** is `eval.rs` from `dispatch_op` down: how each op reads its operands
(a view refused, resolved at offset 0, or resolved with its strides) and which encoder it
takes.

**TensorOps** is the state machine over them: two operands go through any chain of
`MaxSteps` views, copies, casts and in-place updates, and then any op builder is called on
them. Beside each operand the state has `says`, the values its indices denote when
storage is ignored.

**TensorMath** has the same ops on numbers, for whole forwards: residues modulo a prime, in
which sums and products may be regrouped freely, with the elementary functions left open
(`Fn`). It keeps every refusal, and which results are views.

**QwenBlocks** (`nn.rs` and the KV cache as a value), **GatedDeltaNet** and **QwenAttention**
(the mixers), **QwenModel** (layers, caches, the four forwards and the reset) compose them as
the models crate does. `Init` loads a checkpoint; the action `Forward` is a call of any of
the four forwards over any chunk, with what it returned judged against the reference in
`last`; `ResetCaches` starts the next sequence. **Checkpoint** and **QwenWeights** lead from a directory of shards and a
configuration to the weights a forward uses, decoding packed words as the kernels do.

**QwenReference** is what a token means: the formulas that the comments of the models crate
quote, one token, one head and one number at a time, without tensors, chunks, masks or
views. It uses the weights that were *written* to the checkpoint, so agreement with it
covers loading too.

**GreedyDecode** is what `generate` promises: token after token, each computed from all
the tokens before it, until EOS, `max_new_tokens` or the first failure, at which the
caller gets an error; no lookahead, no caches.

**Generator**: tokens are named by their place in the sequence and a forward by the
position it starts at. `caches[l]` holds the tokens layer `l` has absorbed and whether
its latest update is uncommitted; layers are full-attention (`KvCache`: refuses to
grow past the window or over an uncommitted update, refuses a reset then too) or
linear (`LinearState`: neither). `plan` fixes, when a call begins, its lengths and
what will go wrong in it: the forward that fails on the host (in any layer, or
between the two slabs of one), the batch that fails on the GPU, the token that is EOS,
failing allocations. `Begin` is the entry of `generate` and of the synchronous prefills
with the unconditional `reset`; `FillChunk`, `FirstToken`/`PrefillSync` are
`prefill_last_logits` and what follows it; `Call`, `Advance`, `Pop`, `Read` are `next()`
cut where it blocks or the GPU may run; `Drop`/`Dropped` is the iterator going out of
scope, blocking for what is in flight; `Run` is the GPU. `Argmax` yields the next
token only if every layer absorbed exactly the tokens before it, and a marked
wrong id otherwise, so a stale cache is visible in what the caller receives.

## 3. What the runs check

| run | what | distinct states |
|---|---|---|
| `pool` | safety of the pool, `BufferPool => BufferLending` | 5 502 |
| `fence` | safety of sessions and the map, a blocked host is released, `FenceMap => EncoderOrder` | 222 704 |
| `eval` | what a host reader sees; every blocked call returns | 1 052 936 |
| `schedule` | the schedule and the elided barriers | 343 168 |
| `kv_cache` | attention reads the prefix it was built for, nothing is lost or replayed | 709 720 |
| `generator` | the decoder's output is that of a decoder without lookahead | 133 476 |
| `ops` | every op on any chain of views reads what its operands denote | 33 542 |
| `model` | both models, loaded and fed in chunks, compute the formulas; damaged checkpoints are refused | 1 659 |
| `eval_recycle`, `schedule_empty`, `ops_decode_q`, `model_one_head` | section 6 | |

The properties that say most:

* `SoleOwner`, `ExactSize` (pool): no two op outputs share storage; a buffer only
  ever serves the length it was allocated for, which the zeroed slack that padded
  kernels read relies on. `BytesAccounted`, `EvictsToFit`: the unchecked
  subtractions never wrap, and a shrink stops at the pop that brings the pool under the
  new cap: with that buffer back it would exceed it, and the size classes not yet visited
  are untouched. It visits them in hash order, so it may release a small buffer that would
  have fitted before it gets to a large one.
* `WritersFirst` (fence): a started encoder finds every earlier writer of what it
  touches finished, through abandoned sessions, profiled sessions and inputs without
  a key. `NoDeadWait`: nothing waits for the fence of a discarded session.
  `MapIsLastWriter`: the map is what it would be had the abandoned sessions never been
  opened.
* `HostReadsRight` (eval): a readable op tensor is its own value, and no committed job is
  about to overwrite it. `UpdatesLand`: a readable `slice_update` is in its leaf. Both
  excuse what a failed job has spoiled. `ReadsStable`: what is readable stays readable for
  as long as it is held, an op tensor with the same bytes. It does *not* say that the bytes
  of a leaf stay, because they do not: the code writes a leaf in place under its readers
  (section 6). What it says of the leaf is that it changes only as a committed
  `slice_update` lands: no op, no failure and no recycled buffer touches it.
* `ElisionProven` (schedule): no two dispatches that may overlap have a
  read-after-write or write-after-write conflict. `WavesInOrder`: what the level order is for.
* `AttentionReadsPrefix`, `LatestHoldsPrefix`, `NothingToReplay`, `PrefixSurvives`
  (kv_cache): although the next step's row write is not ordered behind this step's
  attention, attention reads exactly the rows appended before its view was taken;
  no update is lost, none is replayed into rows used again.
* `ImplementsGreedy` (generator): the yielded sequence, errors included, does not
  depend on the lookahead, nor on how the previous call ended. `InStep`: every layer
  has absorbed exactly the prompt and the committed tokens, whatever state the last
  call left the caches in. `RewindQuiet`: slabs are rewound or freed only when no batch
  is in flight, the duty `KvCache::reset` leaves to its caller. `LookaheadBounded`: no
  forward is committed past `max_new_tokens`, and at most `depth` are wasted.
* `HostReadsTensor`, `DispatchComputes` (ops): after any chain of views and copies the host
  and every kernel read exactly the elements the operands denote, or the op is refused.
  `RefusalsKnown`: the ops that are built and then refused at `eval` are the ones listed in
  `Gap`, and no others.
* `ForwardsAgree` (model): however the tokens were cut into chunks, and whichever of the
  prefill and decode kernels a chunk takes, a forward returns what each of its tokens
  means after the ones before. `CachesRemember`: between two calls each cache holds what
  a token-by-token computation would remember, and nothing after a reset. `ForwardsRun`: a
  checkpoint loads exactly when nothing of it is missing or misshapen, and a loaded model
  never refuses a forward that fits: each view that reaches an op that wants dense
  storage was copied on the way.

**Bounds.** The pool has three identities in two size classes, one twice the other, so
an eviction can leave a small buffer behind or not, and caps that hold nothing, one
buffer, or a mix; five takes exhaust the identities and recycle them. Fences: two
buffers, so encoders conflict through one and not the other, and three encoders, the
least for a profiled session of two encoders that displaces one key twice and is
abandoned behind a committed writer (one output an encoder; the theorems cover any
number). Evaluation: three nodes, two pool buffers and the slab: a producer, a consumer
and a third evaluation that is handed the producer's buffer, with one fault anywhere;
two `PendingEval`s at once. Schedule: all graphs of four ops with up to two ordered
inputs (the diamond and a repeated input included) and a chunk of three, so that a
boundary falls inside a wave. KV cache: two rows and two updates (or one and up to two
that failed half-way) before or after a reset, a view kept across them, and at most four jobs
on the GPU: a step's writes to both slabs with the attention that reads them, or, as an
evaluation commits an attention with its write, an attention of the step before
with the write that overtakes it and that write's own attention. Generator: two calls in a row, so that each way a
call can end is followed by a recovery; a linear layer between two full ones, so that a
forward can fail before, between and after either kind; a window of five tokens, prompts
of one token and of one chunk and a half, one, two or four new tokens (the last filling
the window exactly), lookaheads of none, one, two and `usize::MAX`. Ops: eleven pairs of
leaves of rank one to four with two or three elements an axis, chosen so that every op
accepts at least one of them as it is, and two steps, so that any two views are stacked;
two weights to a group, slack of four elements, limits of the kernels scaled alike.
Models: one layer of each mixer (two for Qwen2), two query heads over one KV head, two
value heads over one key head, three positions and chunks of one to three, so that a chunk
starts before, at and after the first and may not fit, and the convolution window (three
rows) is longer than a chunk or filled by one; a reset; residues modulo 10007 and a polynomial for each elementary
function, so that agreement is by the formula and not by chance; words of eight bits
with two codes each, groups of two, padding to a multiple of six. The damaged
checkpoints lack one tensor, or have one of another type or a row longer, for every
tensor; have a configuration off in one field; or have their index, a shard or a file
name wrong. `MaxTakes`, `MaxEncoders`, `MaxNodes`, `MaxPending`, `MaxFaults`,
`MaxUpdates`, `MaxResets`, `MaxKept`, `MaxJobs`, `MaxCalls`, `MaxSteps`, `MaxChunk`
bound the length of a run only; the program has no such limits, which is why deadlock is
not checked: when the bounds are used up, and whenever the client has nothing to ask,
the system stops legitimately. That nothing is ever stuck is what the liveness
properties say.

**Fairness.** The GPU makes progress on committed work that may run (weak fairness of
`Start`, `Finish` in `FenceMap`, of `Gpu` in `AsyncEval`, of `Run` in `Generator`), which Metal guarantees for
every command buffer, failed ones included; a blocked call proceeds once it may
(`Wake`, `Returns`, and `Host`, the steps inside a call of `Generator`): the thread runs
and `waitUntilCompleted` returns. The client is never obliged to act: no fairness on
the start of any operation of the library. A fence that is never updated
hangs the model as it would the program.

**Assumptions about the client** are constants or guards, never silent:

* one thread dispatches, one session is open at a time (`commands.rs:46-55`);
* `DropsEarly = FALSE` in the passing runs of `AsyncEval`: a client keeps the handle of
  an evaluated tensor until no committed batch and no unevaluated op reads it.
  `buffer_pool.rs:142-156` asserts this of all present callers; `eval_recycle` shows
  what follows without it;
* `Reset` of the KV cache finds the GPU idle: `kv_cache.rs:330-333` makes that the
  caller's duty, and `RewindQuiet` shows that the generator does it;
* batches run in commit order in `Generator`: each reads the id and the states its
  predecessor writes, which the fences order; after a failure on the GPU, the batches behind
  the failed one compute garbage until the caches are reset;
* `CallersOnly = TRUE` in `ops`: a `q` of one token is dense, as the output of rope is
  (`ops_decode_q` shows what follows without it), and the activation of a K-padded weight
  owns its storage, so that its tail is the zeroed slack of its allocation;
* the client of `QwenModel` evaluates what a forward returns before the next one and resets
  the caches when a forward failed half-way, as the generator does (`Generator` has both
  in detail); laziness within a forward is the subject of `AsyncEval` and `KvCache`;
* the last tensor may outlive the device by its own buffer only (`TearDown`): its
  fields drop in declaration order.

## 4. What is proved

Everything in this section is checked by TLAPS for every value of the constants that the
`ASSUME` of the component permits: any number of buffers, encoders, nodes, rows or layers,
any depth, window and chunk, any shapes. TLC evaluates these assumptions in every run. They
are ranges, except that the sizes of the pool are a finite set (they are machine integers;
an infinite set has no sum), that a depth of one is among the lookaheads (the generator
starts with it), that a model has at least one full-attention layer (without one,
`rope_offset` refuses every forward, `models/nn.rs:390`), that `Refused`, the model value
for an error, is neither a number nor a buffer (`RefusedAssumption`), and that a rope
thread rotates at least one head (`RopeAssumption`). The ranges of `TensorOps` are that
shapes are lists of naturals (`OperandAssumption`), and that a quantized weight, a group
and a word have sizes (`WeightAssumption`, `QuantizationAssumption`). Some theorems have a
further hypothesis, which is the one of the passing run and stands in the theorem:
`~DropsEarly` (two of `AsyncEvalProofs`), `~EmptyUpdates` (one of `EvalScheduleProofs`),
`CallersOnly` (one of `TensorOpsProofs`). The runs `eval_recycle`, `schedule_empty` and
`ops_decode_q` show that they are needed. TLC checked each inductive invariant on the
instances of section 3 before it was proved.

| module | theorems |
|---|---|
| `BufferPoolProofs` | `PoolTyped`, `PoolSoleOwner`, `PoolExactSize`, `PoolBytesAccounted`, `PoolEvictsToFit`, `PoolLends` (refinement) |
| `FenceMapProofs` | `FenceTyped`, `FenceWritersFirst`, `FenceMapIsLastWriter`, `FenceNoDeadWait`, `FenceOrders` (refinement, safety part) |
| `EvalScheduleProofs` | `ScheduleTyped`, `ScheduleWavesInOrder`, `ScheduleIsSound`, `ScheduleElisionProven` |
| `AsyncEvalProofs` | `EvalTyped`, `EvalReadsStable`, `EvalHostReadsRight`, `EvalUpdatesLand` |
| `KvCacheProofs` | `CacheTyped`, `CacheNothingToReplay`, `CacheAttentionReadsPrefix`, `CacheLatestHoldsPrefix`, `CachePrefixSurvives` |
| `GeneratorProofs` | `GeneratorTyped`, `GeneratorLookahead`, `GeneratorInStep`, `GeneratorRewindQuiet`, `GeneratorGreedy` (refinement) |
| `TensorViewsProofs` | `CpuIterIsRowMajor`, `OperandsAlwaysHold`, `HostReadsAlways`, `OperandsTyped` |
| `TensorOpsProofs` | `OpsAlwaysCompute`, `DispatchAlwaysComputes` |

Every safety invariant and action property of the passing runs of the first six components
is a theorem, all three refinements are (`FenceMap => EncoderOrder` without its fairness),
and so are the invariants of `ops` but `RefusalsKnown`. Each proof has an inductive
invariant (`Owned` and `Accounted` for the pool, `GInv` for what ops compute, `IInv`
elsewhere) and one lemma per action; the arguments are these.

* **Pool.** Sole ownership is not inductive alone: that a popped buffer is nobody's needs
  that the stacks hold no duplicates *and* that a handle's buffer is in no stack, and a
  fresh identity is new to the stacks only because `len` is non-zero exactly for buffers
  that are idle or held. The byte count is the sum over the size classes of size times
  stack length; an eviction empties some classes and shortens one, so the sum is split at
  them, and what is subtracted is what was in it. For the refinement a buffer is idle in
  `BufferLending` exactly if it is in a stack.
* **Fences.** The map names the last surviving writer of each buffer, from which both the
  ordering and the absence of dead waits follow. The strengthening says what the undo log
  means: replaying it leaves for every key the last writer among the encoders *outside*
  the session being encoded, so that `Abandon` restores the truth and `Submit` may forget
  the log; and, about waits: whoever waits for an encoder transitively waits for the
  earlier writers of the same key, because each of them was in the map when the next was
  closed. `FenceOrders` needs one thing more: the encoders of the open session are the
  youngest, so that a commit submits them in the order in which they were opened.
* **Schedule.** The graph is arbitrary; edges go from older to newer nodes. What has
  been discovered or is on the worklist is what the root needs, and a discovered op's
  producers have been pushed (`Walked`); in-degrees count the producers not yet emitted,
  once each, which is why an input used twice does no harm (`Counted`); the wave is of one
  level and the next one of the level above (`Leveled`). That Kahn's algorithm does not
  stop early is the least node of what it would leave over. For elision (`Logged`): every
  dispatch since the last barrier of the open encoder wrote a buffer in `unsynced`, and the
  flag is down between ops, because an op that arms it dispatches something: no update
  is empty.
* **Evaluation.** `EvalTyped` and `EvalReadsStable` hold for any client: whoever owns a
  buffer of the pool is the only live node that does (`Owned`), and each committed job
  writes the buffer of a node some order pins (`JobsMatch`), so a readable op tensor's
  buffer has no job; and a job that changes the leaf is that of an update, whose output is the
  leaf's buffer and nobody else's (`LeafWritten`). What the host sees being *right* needs more: each argument of a committed job
  stays alive until the job has run (`Pinned`, where the client's duty enters), each is
  right or an earlier job writes it (`ArgsReady`), and each evaluated tensor is right,
  broken by a failure, or still to be written (`Settled`).
* **KV cache.** For each row of the prefix: which update it is due (`PrefixRows`); that
  this update has landed, is queued, or is the latest, uncommitted one (`RowsHold`); that
  whatever else is queued for the row is older and runs first (`WritesQueued`); and that a
  queued attention stands behind the writes it needs (`ReadsQueued`). That a later write
  may overtake an attention is harmless because it covers rows past the attention's.
* **Generator.** The batches of a call are numbered as they are committed, and batch `j`
  computes token `prompt + j + 1`. The iterator's queue, the GPU's queue and the results
  not yet read are three windows on that one numbering (`Pipelined`, `Answered`); the
  forward that is to fail on the host lies at or after the next one to commit
  (`Committing`), the one that is to fail on the GPU at or after the next one to return.
  Hence what `next` returns is the decoder's next item, and the stashed error of a failed
  lookahead comes out exactly in the place where a decoder without lookahead would have met
  it. Between calls nothing is in flight (`Quiet`): the drop of the iterator has waited.

* **Views.** The invariant is `Holds(t, v)`: each multi-index of the operand `t` leads,
  through its strides and offset, to an element of its storage that has the value `v`
  denotes there, and an operand that is no view is dense from offset zero. The builders
  preserve it one at a time (`ReshapeHolds`, `PermuteHolds`, `SliceHolds`,
  `BroadcastHolds`, `ElidedHolds`): each gives, for an index of the new shape, the index of
  the old one that it stands for, and shows that the sum of the new steps is the sum of the
  old ones. A reshape needs that flat positions and indices are in bijection
  (`FlattenUnflatten`), a permutation that a sum may be reordered, a broadcast that an axis of
  one element contributes nothing. Strided copies and in-place updates need that the threads
  of a grid and the indices of a shape correspond (`ThreadIndex`, `IndexThread`), so that
  each element is written, once, with its own value. `cpu_iter` is an odometer; that it
  yields row-major order is an induction over its steps: advancing an index is adding one
  to its flat position.
* **Ops.** For each op, what the builder denotes at an output position is what the
  encoder its dispatch chose reads for it, on operands that hold what they say; where the
  encoder ignores strides, because the builder's or the dispatch's check makes the operand
  dense (`Flat`). Rows of the last axis (`RowFacts`, `ColumnFacts`) carry the reductions,
  softmax, rms_norm, the products and the attention; `Joint` the concatenation; `Turn` the
  pairs of rope and their grid over heads. gather alone needs more than `IInv`, namely that
  the values of an index operand are numbers: no op yields an index but the upload, and views and copies
  keep its elements (`Indexes`, which makes `GInv`). For `quantized_matmul` with a padded K and
  for `sdpa` on one query the code relies on its callers, so `DispatchAlwaysComputes` has
  `CallersOnly`; `OpsAlwaysCompute` says the same of all other ops without it.

Where induction is needed (the sum over a set, the list of a set in ascending order, the
depth of a node, the product of a shape), it takes the form "the set of counterexamples has
a minimal member". The operators the proofs are about are therefore sets, folds or recursive
functions, never `RECURSIVE`: `Below` and `Ascending` in `AsyncEval`, `Picked` in
`EvalSchedule`, `Total`, `Product`, `CpuIter` and `InTurn` in the tensor modules.

`TypeOK` of `Generator` bounds the rows of the `KvCache` layers only. The bound is false of
a linear layer that comes first: a faulty `profiled_decode_step` fails in a later layer and
can be called again, and a `LinearState` has no capacity. The instance of section 3 starts
with a full layer and cannot show this; the proof needs the distinction.

**Only model-checked**: liveness (`WaitReturns`, `CallsReturn`, `NextReturns`, and the
fairness part of `ImplementsOrder`), which is out of the proof system's reach;
`RefusalsKnown`, a list of the gaps between builders and dispatch on the shapes of the
instance; and the four invariants of `QwenModel`, which compare whole forwards of loaded
checkpoints: that a chunked computation and a token-by-token one fold to the same values for
every configuration is an induction over layers, heads and tokens at once.

## 5. What is not modelled

Pipeline lookup, argument indices and threadgroup shapes of the encoders; of the vendored
Metal code (`kernels-mlx`) all but the addressing of strided elements, the decoding of packed
weights and the formulas of a row, which `TensorKernels`, `TensorMath` and `Checkpoint` have:
tiles, simd reductions and the steel products are left out;
tokenizer and templates; JSON and the safetensors header; the command-line program;
profiling counters; test utilities. Rounding: values are the elements they are computed
from (`ops`) or residues (`model`), so a cast changes a dtype and no number, and NaN and
infinity exist only as the mask's minus infinity. Dimensions of zero are left out of the
`ops` instance (the one that matters is in `EvalSchedule`). Codes of 3, 5 and 6 bits
straddle words and are decoded nowhere; `ValidQuantization` accepts them as the code
does. Configurations no supported checkpoint has: `attn_output_gate = false` (it loads,
and the first forward fails). Views are transparent in `AsyncEval` and `EvalSchedule`:
an input is the storage owner its chain ends in; a buffer holds "the value of node n" or
not, a row "was written by update u". One thing the code does and leaves to its callers
is in `AsyncEval` without a run of its own: `eval()` of a tensor in flight is a no-op
that leaves it unreadable (`runtime/eval.rs:381`). A batch of `eval_async` that fails on the
GPU leaves populated caches whose gate then opens on garbage; only `PendingEval::wait` tells
the client, and no property here says more than the code promises (`broken`). The two kernels-level contracts excluded by
documentation (two sessions at once, two evaluating threads) are listed as hazards
without a property. So is one limit of barrier elision: `unsynced`
(`runtime/eval.rs:244-289`) holds written buffers only, so an in-place update may
overlap an *earlier reader* of its slab in the same encoder; `ElisionProven` does not
ask for more than the code does, and the KV cache never builds such a graph, since the
readers of a slab are consumers of its update.

## 6. Disagreements found

Each of the first four has a run whose counterexample shows it.

1. `schedule_empty` (code): `encode_ops` arms `elide_next_barrier` for an op it has proved
   independent; a `slice_update` of zero rows then dispatches nothing
   (`kernels/kernels/copy.rs:366`), so the flag is spent on the *next* op, which may
   need its barrier. `commands.rs:290-293` demands the proof for the next dispatch.
2. `eval_recycle` (comment): `buffer_pool.rs:148-156` calls a recycling write over a
   read-only in-flight use unreachable; neither the pool nor the fences exclude it, only
   clients that hold on to what their batches read.
3. `ops_decode_q` (code): with one query, `dispatch_sdpa` looks at `q`'s byte offset and not
   at its strides, and neither does the builder, so a strided `q` is read at the wrong
   elements (`runtime/eval.rs:2424`; the comment at 2376 calls it dense). Today's callers
   pass the dense output of rope.
4. `model_one_head` (code): `copy()` is meant to hand `rms_norm` a dense leaf
   (`models/qwen3_5/attention.rs:313`), but with one attention head and one token its source
   is already dense, the copy is elided, and `rms_norm` refuses the view: every decode step
   of such a model fails. The same shape with two heads is in `model`, and runs.

A fifth needs no counterexample, since it is the second conjunct of `ReadsStable`:
`runtime/tensor.rs:73-75` calls populated storage "immutable for the lifetime of the inner",
and 2801-2805 says that no dispatch writes the buffer of a populated cache concurrently,
which "host-constructed leaves uphold [...] trivially". But `slice_update` takes a
host-constructed leaf as its slab (862) and its evaluation writes the leaf's own buffer
(`runtime/eval.rs:255-260`, as 866-868 of `tensor.rs` says), while the leaf is readable
throughout: `eval_async` gates the update's tensor, not the leaf. A slice that `cpu_bytes`
lent of a slab is therefore stable only until the next update of it is committed.

## 7. Plan

Written in order of importance; done: the pool, the sessions, evaluation, schedule, KV
cache and generator, then views, dispatch, kernels, the two models and their checkpoints,
each with its MC module; the theorems of section 4. Next:

1. **Refusals**: which ops that were built may still be refused at `eval`, as a theorem.
2. **GPU sampler**: its capacity, and the pairing of samples with ops.
3. **Models**: that the attention of a chunk is that of its tokens, for any cache.
