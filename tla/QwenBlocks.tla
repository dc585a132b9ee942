----------------------------- MODULE QwenBlocks -----------------------------
(***************************************************************************)
(* nn.rs: the building blocks both model families share.                   *)
(***************************************************************************)
EXTENDS TensorMath
LOCAL INSTANCE SequencesExt

----------------------------------------------------------------------------

Silu(t) == Mul(t, Unary("sigmoid", t))

\* gather of the rows of the table, then dequantize: ids must own storage.
EmbedTokens(ids, table) ==
  IF OwnsDense(ids) /\ Rank(ids) = 1 /\ ids.dtype = "U32"
  THEN Dense(<<ids.dims[1], table.k>>, "BF16",
             FlattenSeq([i \in DOMAIN ids.store |-> table.rows[ids.store[i] + 1]]))
  ELSE Refused

AddBias(y, bias) == IF bias = <<>> THEN y ELSE Add(y, Dense(<<Len(bias)>>, "BF16", bias))

\* A projection is [weight, bias]; no bias is the empty sequence.
Linear(x, proj) == AddBias(QuantizedMatmul(x, proj.weight), proj.bias)

\* One token takes the padded twin of the weight.
PhasedLinear(x, proj) ==
  Linear(x, IF x # Refused /\ Rank(x) = 3 /\ x.dims[2] = 1 THEN proj.decode ELSE proj.prefill)

Gamma(values) == Dense(<<Len(values)>>, "BF16", values)

Mlp(x, w) ==
  Linear(Mul(Silu(Linear(x, w.gate_proj)), Linear(x, w.up_proj)), w.down_proj)

\* Index i of axis becomes the factor indices i * factor .. (i+1) * factor - 1.
RepeatAxisInterleaved(x, axis, factor) ==
  LET Expanded(n) == SubSeq(x.dims, 1, axis) \o <<n>> \o SubSeq(x.dims, axis + 1, Rank(x))
  IN  CASE x = Refused -> Refused
        [] factor = 1 -> Copied(x)
        [] OTHER -> Reshaped(Copied(Broadcast(Reshaped(Copied(x), Expanded(1)), Expanded(factor))),
                             [x.dims EXCEPT ![axis] = @ * factor])

\* The position the KV caches share.
RopeOffset(positions) ==
  IF positions # <<>> /\ \A i \in DOMAIN positions : positions[i] = positions[1]
  THEN positions[1] ELSE Refused

----------------------------------------------------------------------------
\* kv_cache.rs, its evaluation done: a slab [max, heads, dim] of keys and one of
\* values, and how many rows are in use.

NewKvCache(maxTokens, heads, dim) ==
  LET slab == Dense(<<maxTokens, heads, dim>>, "BF16", [i \in 1..(maxTokens * heads * dim) |-> 0])
  IN  [keys |-> slab, values |-> slab, position |-> 0]

\* Mutant: the position moves whether or not the rows had room.
PushAnyway(cache, k, v) ==
  IF Refused \in {k, v} THEN Refused
  ELSE LET keys   == SliceUpdate(cache.keys, k, cache.position)
           values == SliceUpdate(cache.values, v, cache.position)
       IN  [keys |-> IF keys = Refused THEN cache.keys ELSE keys,
            values |-> IF values = Refused THEN cache.values ELSE values,
            position |-> cache.position + k.dims[1]]

\* Refused past the end, and then nothing is written.
KvUpdate(cache, k, v) ==
  IF Refused \in {k, v} THEN Refused
  ELSE LET keys   == SliceUpdate(cache.keys, k, cache.position)
           values == SliceUpdate(cache.values, v, cache.position)
       IN  IF Refused \in {keys, values} THEN Refused
           ELSE [keys |-> keys, values |-> values, position |-> cache.position + k.dims[1]]

PrefixView(slab, n) ==
  Sliced(slab, <<<<0, n>>, <<0, slab.dims[2]>>, <<0, slab.dims[3]>>>>)
=============================================================================
