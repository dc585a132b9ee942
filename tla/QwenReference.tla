--------------------------- MODULE QwenReference ---------------------------
(***************************************************************************)
(* What a token means: the formulas of mlx-lm that the comments of the     *)
(* models crate quote, one token, one head and one number at a time, with  *)
(* no tensors, chunks, views or caches to reshape.  The memory of a layer  *)
(* is the window of projected rows and the matrix M of each head, or the   *)
(* keys and values of the tokens so far.                                   *)
(***************************************************************************)
EXTENDS TensorMath
LOCAL INSTANCE SequencesExt

MatVec(weight, v) == Strict([n \in 1..Len(weight.rows) |-> Dot(v, weight.rows[n])])
Map(v, F(_)) == Strict([j \in 1..Len(v) |-> F(v[j])])
Pairwise(a, b, F(_, _)) == Strict([j \in 1..Len(a) |-> F(a[j], b[j])])
SiluOf(n) == Times(n, Sigmoid(n))
Chunk(v, i, n) == SubSeq(v, (i - 1) * n + 1, i * n)     \* the i-th n numbers
Project(v, proj) ==
  IF proj.bias = <<>> THEN MatVec(proj.weight, v) ELSE Pairwise(MatVec(proj.weight, v), proj.bias, Plus)

----------------------------------------------------------------------------
\* Gated DeltaNet.

NoMemory(c) ==
  [window |-> [i \in 1..3 |-> [j \in 1..(2 * c.hk * c.dk + c.hv * c.dv) |-> 0]],
   m      |-> [h \in 1..c.hv |-> [i \in 1..c.dv |-> [j \in 1..c.dk |-> 0]]]]

DeltaToken(c, w, x, memory) ==
  LET rows  == Append(memory.window, Project(x, w.in_proj_qkv))
      Tap(ch) == SumOf(Strict([j \in 1..4 |-> Times(w.conv1d_weight[(ch - 1) * 4 + j], rows[j][ch])]))
      conv  == Strict([ch \in 1..Len(rows[4]) |-> SiluOf(Tap(ch))])
      ones  == [j \in 1..c.dk |-> 1]
      inv   == Fn("rsqrt", c.dk)
      KeyHead(h) == (h - 1) \div (c.hv \div c.hk) + 1
      Normed(from, h) == NormRow(Chunk(SubSeq(conv, from + 1, Len(conv)), KeyHead(h), c.dk), ones)
      Q(h)  == Map(Normed(0, h), LAMBDA n : Times(n, Times(inv, inv)))
      K(h)  == Map(Normed(c.hk * c.dk, h), LAMBDA n : Times(n, inv))
      V(h)  == Chunk(SubSeq(conv, 2 * c.hk * c.dk + 1, Len(conv)), h, c.dv)
      softplus(n) == Fn("log", Plus(Fn("exp", n), 1))
      G(h)  == Fn("exp", Times(MinusOne, Times(Fn("exp", w.a_log[h]),
                                softplus(Plus(Project(x, w.in_proj_a)[h], w.dt_bias[h])))))
      Beta(h) == Sigmoid(Project(x, w.in_proj_b)[h])
      Updated(h) ==
        LET k == K(h)
            v == V(h)
            g == G(h)
            beta == Beta(h)
        IN  Strict([i \in 1..c.dv |->
              LET faded == Map(memory.m[h][i], LAMBDA n : Times(n, g))
                  delta == Times(Plus(v[i], Times(MinusOne, Dot(faded, k))), beta)
              IN  Pairwise(faded, k, LAMBDA a, b : Plus(a, Times(b, delta)))])
      m     == Strict([j \in 1..c.hv |-> Updated(j)])
      y     == Strict([h \in 1..c.hv |-> LET q == Q(h) IN Strict([i \in 1..c.dv |-> Dot(m[h][i], q)])])
      z     == Project(x, w.in_proj_z)
      gated == FlattenSeq(Strict([h \in 1..c.hv |->
                 Pairwise(Chunk(z, h, c.dv), NormRow(y[h], w.norm), LAMBDA a, b : Times(SiluOf(a), b))]))
  IN  [out |-> Project(gated, w.out_proj), memory |-> [window |-> Tail(rows), m |-> m]]

----------------------------------------------------------------------------
\* Attention.  The memory is [keys, values]: for each token, a row per head.

NoTokens == [keys |-> <<>>, values |-> <<>>]

Attend(c, q, memory) ==
  LET HeadOut(h) ==
        LET kv == (h - 1) \div (c.heads \div c.kvHeads) + 1
            weights == SoftmaxRow(Map(memory.keys, LAMBDA key :
                         Times(Dot(q[h], key[kv]), Fn("rsqrt", c.headDim))))
        IN  Strict([d \in 1..c.headDim |-> Dot(weights, Map(memory.values, LAMBDA val : val[kv][d]))])
  IN  FlattenSeq(Strict([j \in 1..c.heads |-> HeadOut(j)]))

Remember(memory, k, v) ==
  [keys |-> Append(memory.keys, k), values |-> Append(memory.values, v)]

GatedToken(c, w, x, memory) ==
  LET position == Len(memory.keys)
      both == Project(x, w.q_proj)
      q == Strict([h \in 1..c.heads |->
             RotateRow(NormRow(Chunk(both, 2 * h - 1, c.headDim), w.q_norm), position, c.rotary)])
      k == Strict([h \in 1..c.kvHeads |->
             RotateRow(NormRow(Chunk(Project(x, w.k_proj), h, c.headDim), w.k_norm),
                       position, c.rotary)])
      v == Strict([h \in 1..c.kvHeads |-> Chunk(Project(x, w.v_proj), h, c.headDim)])
      gate == FlattenSeq(Strict([h \in 1..c.heads |-> Map(Chunk(both, 2 * h, c.headDim), Sigmoid)]))
      grown == Remember(memory, k, v)
  IN  [out |-> Project(Pairwise(Attend(c, q, grown), gate, Times), w.o_proj), memory |-> grown]

Qwen2Token(c, w, x, memory) ==
  LET position == Len(memory.keys)
      Rotated(proj, n) == Strict([h \in 1..n |->
                            RotateRow(Chunk(Project(x, proj.prefill), h, c.headDim), position, c.headDim)])
      v == Strict([h \in 1..c.kvHeads |-> Chunk(Project(x, w.v_proj.prefill), h, c.headDim)])
      grown == Remember(memory, Rotated(w.k_proj, c.kvHeads), v)
  IN  [out    |-> Project(Attend(c, Rotated(w.q_proj, c.heads), grown), w.o_proj.prefill),
       memory |-> grown]

----------------------------------------------------------------------------
\* Layers and the model.

MixToken(c, layer, x, memory) ==
  CASE layer.mixer = "linear" -> DeltaToken(c, layer.weights, x, memory)
    [] layer.mixer = "full"   -> GatedToken(c, layer.weights, x, memory)
    [] layer.mixer = "qwen2"  -> Qwen2Token(c, layer.weights, x, memory)

EmptyMemory(c, layer) == IF layer.mixer = "linear" THEN NoMemory(c) ELSE NoTokens

LayerToken(c, layer, x, memory) ==
  LET MlpOf(inner) == Project(Pairwise(Map(Project(inner, layer.mlp.gate_proj), SiluOf),
                                       Project(inner, layer.mlp.up_proj), Times),
                              layer.mlp.down_proj)
      WithMlp(after) == Pairwise(after, MlpOf(NormRow(after, layer.post_attention_layernorm)), Plus)
      Outcome(mixed) == [out |-> WithMlp(Pairwise(x, mixed.out, Plus)), memory |-> mixed.memory]
  IN  Outcome(MixToken(c, layer, NormRow(x, layer.input_layernorm), memory))

\* One token through every layer: its hidden state, and the memories after it.
ModelToken(model, token, memories) ==
  LET Passed(acc, r) == [out |-> r.out, memories |-> Append(acc.memories, r.memory)]
      Layer(acc, l) == Passed(acc, LayerToken(model.cfg, model.layers[l], acc.out, memories[l]))
  IN  FoldLeft(Layer, [out |-> model.embed.rows[token + 1], memories |-> <<>>],
               [l \in DOMAIN model.layers |-> l])

Normed(model, hidden) == NormRow(hidden, model.norm)
Logits(model, hidden) == MatVec(model.head, Normed(model, hidden))
=============================================================================
