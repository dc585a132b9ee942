--------------------------- MODULE QwenAttention ---------------------------
(***************************************************************************)
(* Softmax attention over a KV cache: the gated mixer of Qwen3.5           *)
(* (qwen3_5/attention.rs) and the attention of Qwen2 (qwen2/attention.rs). *)
(***************************************************************************)
EXTENDS QwenBlocks
LOCAL INSTANCE SequencesExt

Whole(n) == <<0, n>>

----------------------------------------------------------------------------

\* Mutant: the mask of a prefill from scratch, whatever the cache holds.
TriangleMask(t, tCache) ==
  Dense(<<t, tCache>>, "BF16",
        Tab(<<t, tCache>>, LAMBDA i : IF i[2] <= i[1] THEN 0 ELSE NegInf))

\* Query i is at position i + tCache - t.
CausalMask(t, tCache) ==
  IF tCache < t THEN Refused
  ELSE Dense(<<t, tCache>>, "BF16",
             Tab(<<t, tCache>>, LAMBDA i : IF i[2] <= i[1] + (tCache - t) THEN 0 ELSE NegInf))

\* Attention from matmul and softmax, for the head dims the prefill kernel lacks.
ComposedSdpa(q, k, v, mask) ==
  LET heads  == q.dims[2]
      t      == q.dims[3]
      tCache == k.dims[3]
      Full(x) == RepeatAxisInterleaved(x, 2, heads \div k.dims[2])
      Scaled(scores) == Mul(Reshaped(scores, <<heads, t, tCache>>),
                            Scalar("BF16", Fn("rsqrt", q.dims[4])))
      Weights(scores) == Reshaped(Softmax(Add(Scaled(scores), mask)), <<1, heads, t, tCache>>)
  IN  Matmul(Weights(Matmul(q, Copied(Permuted(Full(k), <<1, 2, 4, 3>>)))), Full(v))

\* One query goes to the fused kernel.
GatedSdpa(q, k, v) ==
  IF Refused \in {q, k, v} THEN Refused
  ELSE IF q.dims[3] = 1 THEN FusedSdpa(q, k, v, q.dims[2] \div k.dims[2], FALSE)
  ELSE ComposedSdpa(q, k, v, CausalMask(q.dims[3], k.dims[3]))

Qwen2Sdpa(q, k, v) ==
  IF Refused \in {q, k, v} THEN Refused
  ELSE FusedSdpa(q, k, v, q.dims[2] \div k.dims[2], q.dims[3] > 1)

\* What both do after their projections: append to the cache, attend over its
\* views, bring the heads back together; a refusal leaves the cache alone.
Attended(c, t, q, cache, updated, Sdpa(_, _, _)) ==
  LET CacheView(slab) == Broadcast(Permuted(PrefixView(slab, updated.position), <<2, 1, 3>>),
                              <<1, c.kvHeads, updated.position, c.headDim>>)
  IN  IF q = Refused \/ updated = Refused THEN [out |-> Refused, cache |-> cache]
      ELSE [out   |-> Reshaped(Copied(Permuted(Sdpa(q, CacheView(updated.keys),
                                                    CacheView(updated.values)),
                                               <<1, 3, 2, 4>>)),
                               <<1, t, c.heads * c.headDim>>),
            cache |-> updated]

AttendCached(c, t, q, k, v, cache, Sdpa(_, _, _)) ==
  Attended(c, t, q, cache,
           KvUpdate(cache, Permuted(k, <<3, 2, 4, 1>>), Permuted(v, <<3, 2, 4, 1>>)), Sdpa)

----------------------------------------------------------------------------

\* q_proj yields the query and the gate of a head side by side.
GatedAttentionForward(c, w, hidden, offset, cache) ==
  LET t     == hidden.dims[2]
      both  == Reshaped(Linear(hidden, w.q_proj), <<1, t, c.heads, 2 * c.headDim>>)
      Half(from) == Copied(Sliced(both, <<Whole(1), Whole(t), Whole(c.heads),
                                          <<from, from + c.headDim>>>>))
      gate  == Copied(Reshaped(Half(c.headDim), <<1, t, c.heads * c.headDim>>))
      Heads(proj) == Copied(Reshaped(Linear(hidden, proj), <<1, t, c.kvHeads, c.headDim>>))
      Major(x) == Copied(Permuted(x, <<1, 3, 2, 4>>))
      q     == Rope(Major(RmsNorm(Half(0), Gamma(w.q_norm))), offset, c.rotary)
      k     == Rope(Major(RmsNorm(Heads(w.k_proj), Gamma(w.k_norm))), offset, c.rotary)
      Gated(attn) == [out   |-> Linear(Mul(attn.out, Unary("sigmoid", gate)), w.o_proj),
                      cache |-> attn.cache]
  IN  Gated(AttendCached(c, t, q, k, Major(Heads(w.v_proj)), cache, GatedSdpa))

\* The heads stay a strided view of the projection.
ProjectHeads(proj, hidden, t, heads, dim) ==
  Permuted(Reshaped(PhasedLinear(hidden, proj), <<1, t, heads, dim>>), <<1, 3, 2, 4>>)

Qwen2AttentionForward(c, w, hidden, offset, cache) ==
  LET t    == hidden.dims[2]
      q    == Rope(ProjectHeads(w.q_proj, hidden, t, c.heads, c.headDim), offset, c.headDim)
      k    == Rope(ProjectHeads(w.k_proj, hidden, t, c.kvHeads, c.headDim), offset, c.headDim)
      v    == ProjectHeads(w.v_proj, hidden, t, c.kvHeads, c.headDim)
      Projected(attn) == [out |-> PhasedLinear(attn.out, w.o_proj), cache |-> attn.cache]
  IN  Projected(AttendCached(c, t, q, k, v, cache, Qwen2Sdpa))
=============================================================================
