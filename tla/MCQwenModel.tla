---------------------------- MODULE MCQwenModel ----------------------------
\* Two models of two layers, with weights that have no two numbers in a row alike,
\* the checkpoints they are written to, and everything one can lose of them.
EXTENDS QwenModel, TLC
LOCAL INSTANCE SequencesExt
LOCAL INSTANCE Functions

\* A polynomial per elementary function.
MCFn(name, v) ==
  LET c == CASE name = "sigmoid" -> 3 [] name = "exp" -> 5 [] name = "log" -> 7
             [] name = "recip" -> 11 [] name = "rsqrt" -> 13 [] name = "rsqrt_mean" -> 17
             [] name = "cos" -> 19 [] name = "sin" -> 23
  IN  (c * v * v + (c + 6) * v + c * c + 2) % P

\* Groups of two columns, two codes of four bits in a word of eight.
Quant == [bits |-> 4, group |-> 2]

Number(seed, i, j) == (seed * 37 + i * i * 11 + j * 101 + i * j * 53 + 7) * (seed + i + 2 * j) % P
Code(seed, i, j) == Number(seed, i, j) % 16
MCVec(seed, n) == [i \in 1..n |-> Number(seed, i, 3)]
MCMat(seed, n, k) ==
  [rows |-> [i \in 1..n |-> [j \in 1..k |->
     LET g == (j + 1) \div 2
     IN  (Code(seed, i, j) * Number(seed + 5, i, g) + Number(seed + 7, i, g)) % P]],
   seed |-> seed, k |-> k]
MCProj(seed, n, k) == [weight |-> MCMat(seed, n, k), bias |-> <<>>]
Biased(seed, n, k) == [weight |-> MCMat(seed, n, k), bias |-> MCVec(seed + 1, n)]
Phased(proj) == [prefill |-> proj, decode |-> proj]

MCLayer(mixer, seed, cfg, weights) ==
  [mixer |-> mixer, weights |-> weights,
   input_layernorm |-> MCVec(seed, cfg.hidden),
   post_attention_layernorm |-> MCVec(seed + 1, cfg.hidden),
   mlp |-> [gate_proj |-> MCProj(seed + 2, 2, cfg.hidden), up_proj |-> MCProj(seed + 3, 2, cfg.hidden),
            down_proj |-> MCProj(seed + 4, cfg.hidden, 2)]]

Cfg35(heads) ==
  [hidden |-> 2, heads |-> heads, kvHeads |-> 1, headDim |-> 4, rotary |-> 2,
   hk |-> 1, hv |-> 2, dk |-> 2, dv |-> 2, intermediate |-> 2, vocab |-> 2, kernel |-> 4,
   numLayers |-> 2, layerTypes |-> <<"linear", "full">>, interval |-> 2,
   tied |-> FALSE, gate |-> TRUE, attentionBias |-> FALSE, quantization |-> Quant]
Cfg2 == [hidden |-> 4, heads |-> 2, kvHeads |-> 1, headDim |-> 2, intermediate |-> 2, vocab |-> 2,
         numLayers |-> 2, layerTypes |-> <<"qwen2", "qwen2">>, tied |-> TRUE, quantization |-> Quant]

LinearLayer(cfg) ==
  MCLayer("linear", 100, cfg,
    [in_proj_qkv |-> MCProj(110, ConvDim(cfg), cfg.hidden), in_proj_z |-> MCProj(111, ValueDim(cfg), cfg.hidden),
     in_proj_a |-> MCProj(112, cfg.hv, cfg.hidden), in_proj_b |-> MCProj(113, cfg.hv, cfg.hidden),
     out_proj |-> MCProj(114, cfg.hidden, ValueDim(cfg)), conv1d_weight |-> MCVec(115, ConvDim(cfg) * 4),
     a_log |-> MCVec(116, cfg.hv), dt_bias |-> MCVec(117, cfg.hv), norm |-> MCVec(118, cfg.dv)])

FullLayer(cfg) ==
  MCLayer("full", 200, cfg,
    [q_proj |-> MCProj(210, 2 * AttnQueryDim(cfg), cfg.hidden), k_proj |-> MCProj(211, KvDim(cfg), cfg.hidden),
     v_proj |-> MCProj(212, KvDim(cfg), cfg.hidden), o_proj |-> MCProj(213, cfg.hidden, AttnQueryDim(cfg)),
     q_norm |-> MCVec(214, cfg.headDim), k_norm |-> MCVec(215, cfg.headDim)])

Qwen2Layer(seed) ==
  MCLayer("qwen2", seed, Cfg2,
    [q_proj |-> Phased(Biased(seed + 10, 4, 4)), k_proj |-> Phased(Biased(seed + 12, 2, 4)),
     v_proj |-> Phased(Biased(seed + 14, 2, 4)), o_proj |-> Phased(MCProj(seed + 16, 4, 4))])

\* The head of Qwen3.5 is its own; the one of Qwen2 is tied to the embedding.
Qwen35(heads) == [cfg |-> Cfg35(heads), layers |-> <<LinearLayer(Cfg35(heads)), FullLayer(Cfg35(heads))>>,
                  embed |-> MCMat(1, 2, 2), norm |-> MCVec(2, 2), head |-> MCMat(3, 2, 2)]
Qwen2 == [cfg |-> Cfg2, layers |-> <<Qwen2Layer(300), Qwen2Layer(400)>>,
          embed |-> MCMat(1, 2, 4), norm |-> MCVec(2, 4), head |-> MCMat(1, 2, 4)]

----------------------------------------------------------------------------
\* A file that holds a model.

Entry(key, dtype, shape, data) == key :> [dtype |-> dtype, shape |-> shape, data |-> data]
Merged(files) == FoldLeft(LAMBDA a, b : a @@ b, <<>>, files)
DenseEntry(key, v) == Entry(key, "BF16", <<Len(v)>>, v)

WrittenMat(key, w) ==
  LET n == Len(w.rows)
      groups == w.k \div 2
      PerGroup(F(_, _)) == [o \in 1..(n * groups) |-> F((o - 1) \div groups + 1, ((o - 1) % groups) + 1)]
  IN  Merged(<<Entry(key \o <<"weight">>, "U32", <<n, groups>>,
                  PerGroup(LAMBDA i, g : Code(w.seed, i, 2 * g - 1) + 16 * Code(w.seed, i, 2 * g))),
            Entry(key \o <<"scales">>, "BF16", <<n, groups>>, PerGroup(LAMBDA i, g : Number(w.seed + 5, i, g))),
            Entry(key \o <<"biases">>, "BF16", <<n, groups>>, PerGroup(LAMBDA i, g : Number(w.seed + 7, i, g)))>>)

WrittenProj(key, proj) ==
  WrittenMat(key, proj.weight) @@ (IF proj.bias = <<>> THEN <<>> ELSE DenseEntry(key \o <<"bias">>, proj.bias))

WrittenMixer(prefix, layer) ==
  LET w == layer.weights
      Projs(key, names, Proj(_)) == Merged([i \in DOMAIN names |-> WrittenProj(key \o <<names[i]>>, Proj(w[names[i]]))])
      Norm(key, name) == DenseEntry(key \o <<name, "weight">>, w[name])
      lin == prefix \o <<"linear_attn">>
      attn == prefix \o <<"self_attn">>
  IN  CASE layer.mixer = "linear" ->
             Merged(<<Projs(lin, <<"in_proj_qkv", "in_proj_z", "in_proj_a", "in_proj_b", "out_proj">>, LAMBDA p : p),
                   DenseEntry(lin \o <<"A_log">>, w.a_log), DenseEntry(lin \o <<"dt_bias">>, w.dt_bias),
                   Entry(lin \o <<"conv1d", "weight">>, "BF16", <<Len(w.conv1d_weight) \div 4, 4, 1>>, w.conv1d_weight),
                   Norm(lin, "norm")>>)
        [] layer.mixer = "full" ->
             Merged(<<Projs(attn, <<"q_proj", "k_proj", "v_proj", "o_proj">>, LAMBDA p : p),
                   Norm(attn, "q_norm"), Norm(attn, "k_norm")>>)
        [] layer.mixer = "qwen2" ->
             Projs(attn, <<"q_proj", "k_proj", "v_proj", "o_proj">>, LAMBDA p : p.prefill)

WrittenLayer(i, layer) ==
  LET prefix == <<"layers", i>>
      Norm(name) == DenseEntry(prefix \o <<name, "weight">>, layer[name])
      Proj(name) == WrittenProj(prefix \o <<"mlp", name>>, layer.mlp[name])
  IN  Merged(<<Norm("input_layernorm"), Norm("post_attention_layernorm"),
            Proj("gate_proj"), Proj("up_proj"), Proj("down_proj"), WrittenMixer(prefix, layer)>>)

Written(written) ==
  Merged(<<WrittenMat(<<"embed_tokens">>, written.embed), DenseEntry(<<"norm", "weight">>, written.norm)>>
      \o [i \in DOMAIN written.layers |-> WrittenLayer(i, written.layers[i])])
  @@ (IF written.cfg.tied THEN <<>> ELSE WrittenMat(<<"lm_head">>, written.head))

----------------------------------------------------------------------------
\* Directories.

OneFile(file) == [index |-> "none", weight_map |-> <<>>, files |-> SingleFile :> file]

\* Two shards, the first with the tensors of the layers.
Sharded(file) ==
  LET shard == [k \in DOMAIN file |-> IF k[1] = "layers" THEN "a" ELSE "b"]
  IN  [index |-> "there", weight_map |-> shard,
       files |-> [n \in {"a", "b"} |-> [k \in {j \in DOMAIN file : shard[j] = n} |-> file[k]]]]

MCCheckpoint(family, written, config, dir, whole) ==
  [family |-> family, meant |-> written, config |-> config, dir |-> dir, whole |-> whole]

\* What can be wrong, each by a name.  One tensor gone, of another type, or a row
\* longer than it should be.
Damages(file) ==
  LET Wider(e) == LET row == Len(e.data) \div e.shape[1]
                  IN  [e EXCEPT !.shape[1] = @ + 1, !.data = @ \o [j \in 1..row |-> 0]]
  IN  [d \in {"gone", "F16", "wider"} \X DOMAIN file |->
         CASE d[1] = "gone"  -> [j \in DOMAIN file \ {d[2]} |-> file[j]]
           [] d[1] = "F16"   -> [file EXCEPT ![d[2]].dtype = "F16"]
           [] d[1] = "wider" -> [file EXCEPT ![d[2]] = Wider(@)]]

Numbered(seq, name) == [n \in {<<name, i>> : i \in DOMAIN seq} |-> seq[n[2]]]

Configs35 ==
  LET c == Cfg35(2)
  IN  <<[c EXCEPT !.numLayers = 1], [c EXCEPT !.interval = 0], [c EXCEPT !.interval = 1],
        [c EXCEPT !.layerTypes = <<"linear", "linear">>, !.interval = 3], [c EXCEPT !.kernel = 3],
        [c EXCEPT !.attentionBias = TRUE], [c EXCEPT !.quantization = Refused],
        [c EXCEPT !.quantization.bits = 7], [c EXCEPT !.quantization.group = 3],
        [c EXCEPT !.quantization.group = 4], [c EXCEPT !.quantization.group = 1]>>
Configs2 == <<[Cfg2 EXCEPT !.tied = FALSE], [Cfg2 EXCEPT !.heads = 0],
              [Cfg2 EXCEPT !.heads = 3, !.headDim = 1], [Cfg2 EXCEPT !.quantization = Refused]>>

Directories(file) ==
  LET good == Sharded(file)
      norm == <<"norm", "weight">>
  IN  <<[good EXCEPT !.index = "dangling"],
        [good EXCEPT !.index = "dangling", !.files = SingleFile :> file],
        [good EXCEPT !.files = [n \in {"a"} |-> good.files[n]]],
        [good EXCEPT !.weight_map[norm] = "../b", !.files = good.files @@ ("../b" :> good.files["b"])],
        [good EXCEPT !.weight_map[norm] = "a"],
        [OneFile(file) EXCEPT !.files = <<>>]>>

Model35 == Qwen35(2)
File35 == Written(Model35)
File2 == Written(Qwen2)

\* Two whole checkpoints and every damaged one, by family and damage.
MCCheckpoints ==
  LET Spoilt(family, written, d, Config(_), Dir(_)) ==
        [n \in {<<family, e[1], e[2]>> : e \in DOMAIN d} |->
           LET x == d[<<n[2], n[3]>>] IN MCCheckpoint(family, written, Config(x), Dir(x), FALSE)]
      Each35(d, Config(_), Dir(_)) == Spoilt("qwen3_5", Model35, d, Config, Dir)
      Each2(d, Config(_), Dir(_)) == Spoilt("qwen2", Qwen2, d, Config, Dir)
  IN  <<"qwen3_5", "whole", 1>> :> MCCheckpoint("qwen3_5", Model35, Cfg35(2), Sharded(File35), TRUE)
      @@ <<"qwen2", "whole", 1>> :> MCCheckpoint("qwen2", Qwen2, Cfg2, OneFile(File2), TRUE)
      @@ Each35(Numbered(Configs35, "config"), LAMBDA c : c, LAMBDA c : Sharded(File35))
      @@ Each35(Numbered(Directories(File35), "directory"), LAMBDA d : Cfg35(2), LAMBDA d : d)
      @@ Each35(Damages(File35), LAMBDA f : Cfg35(2), OneFile)
      @@ Each2(Numbered(Configs2, "config"), LAMBDA c : c, LAMBDA c : OneFile(File2))
      @@ Each2(Damages(File2), LAMBDA f : Cfg2, Sharded)

MCOneHead == <<"one head">> :> MCCheckpoint("qwen3_5", Qwen35(1), Cfg35(1), OneFile(Written(Qwen35(1))), TRUE)
=============================================================================
