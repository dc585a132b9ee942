---------------------------- MODULE QwenWeights ----------------------------
(***************************************************************************)
(* From a configuration and a checkpoint to a model: config.rs and         *)
(* weights.rs of both families, and the from_weights constructors.         *)
(*                                                                         *)
(* A configuration is a record; a model is [cfg, layers, embed, norm,      *)
(* head], its projections [weight, bias], or Refused when any part of it   *)
(* is missing or not as the configuration says.                            *)
(***************************************************************************)
EXTENDS Checkpoint, GatedDeltaNet
LOCAL INSTANCE SequencesExt

CONSTANT PadTo    \* the width a decode twin is padded to a multiple of (512)

----------------------------------------------------------------------------
\* config.rs

AttnQueryDim(c) == c.heads * c.headDim
QProjOutDim(c) == IF c.gate THEN 2 * AttnQueryDim(c) ELSE AttnQueryDim(c)
KvDim(c) == c.kvHeads * c.headDim

\* Every interval-th layer attends, the others are linear.
Qwen35ConfigOk(c) ==
  /\ Len(c.layerTypes) = c.numLayers
  /\ c.interval > 0
  /\ \A i \in DOMAIN c.layerTypes : (c.layerTypes[i] = "linear") <=> i % c.interval # 0
  /\ \E i \in DOMAIN c.layerTypes : c.layerTypes[i] = "full"
  /\ c.kernel = Kernel

\* The width of a head is what hidden leaves to each.
Qwen2ConfigOk(c) ==
  /\ c.heads > 0
  /\ c.hidden % c.heads = 0
  /\ c.headDim = c.hidden \div c.heads

Quantized(c) == c.quantization # Refused /\ ValidQuantization(c.quantization)

----------------------------------------------------------------------------
\* weights.rs

\* A record, or a sequence, all of whose parts were read.
Complete(record) == IF \E f \in DOMAIN record : record[f] = Refused THEN Refused ELSE record

ExpectDims(w, dims) == IF w # Refused /\ w.dims = dims THEN w ELSE Refused

QWeight(set, c, key, n, k) ==
  ExpectDims(ReadQuantizedWeight(set, key, c.quantization), <<n, k>>)

\* The elements of a dense tensor of a dtype and shape.
Expect(t, dtype, dims) ==
  IF t # Refused /\ t.dtype = dtype /\ t.dims = dims THEN t.store ELSE Refused

Values(set, key, dims) == Expect(ReadDenseTensor(set, key), "BF16", dims)

\* A bias, where there is one, adds to every row of the product.
Projection(weight, bias) ==
  IF \/ weight = Refused \/ bias = Refused
     \/ bias # <<>> /\ Len(bias) # weight.dims[1]
  THEN Refused ELSE [weight |-> weight, bias |-> bias]
Unbiased(set, c, key, n, k) == Projection(QWeight(set, c, key, n, k), <<>>)

LoadMlp(set, c, prefix) ==
  Complete([gate_proj |-> Unbiased(set, c, Append(prefix, "gate_proj"), c.intermediate, c.hidden),
            up_proj   |-> Unbiased(set, c, Append(prefix, "up_proj"), c.intermediate, c.hidden),
            down_proj |-> Unbiased(set, c, Append(prefix, "down_proj"), c.hidden, c.intermediate)])

\* The decay rate is kept in F32, whichever way it was stored.
InF32(raw) ==
  IF raw = Refused \/ raw.dtype \notin {"F32", "BF16"} THEN Refused ELSE Cast(raw, "F32")

LoadALog(set, c, key) == Expect(InF32(ReadDenseTensor(set, key)), "F32", <<c.hv>>)

LoadLinearAttn(set, c, prefix) ==
  LET Key(name) == Append(prefix, name)
  IN  Complete([in_proj_qkv   |-> Unbiased(set, c, Key("in_proj_qkv"), ConvDim(c), c.hidden),
                in_proj_z     |-> Unbiased(set, c, Key("in_proj_z"), ValueDim(c), c.hidden),
                in_proj_a     |-> Unbiased(set, c, Key("in_proj_a"), c.hv, c.hidden),
                in_proj_b     |-> Unbiased(set, c, Key("in_proj_b"), c.hv, c.hidden),
                a_log         |-> LoadALog(set, c, Key("A_log")),
                dt_bias       |-> Values(set, Key("dt_bias"), <<c.hv>>),
                conv1d_weight |-> Values(set, Key("conv1d") \o <<"weight">>, <<ConvDim(c), c.kernel, 1>>),
                norm          |-> Values(set, Key("norm") \o <<"weight">>, <<c.dv>>),
                out_proj      |-> Unbiased(set, c, Key("out_proj"), c.hidden, ValueDim(c))])

\* A checkpoint with biases on these projections is not one of this mixer.
LoadFullAttn(set, c, prefix) ==
  LET Key(name) == Append(prefix, name)
  IN  IF c.attentionBias THEN Refused
      ELSE Complete([q_proj |-> Unbiased(set, c, Key("q_proj"), QProjOutDim(c), c.hidden),
                     k_proj |-> Unbiased(set, c, Key("k_proj"), KvDim(c), c.hidden),
                     v_proj |-> Unbiased(set, c, Key("v_proj"), KvDim(c), c.hidden),
                     q_norm |-> Values(set, Key("q_norm") \o <<"weight">>, <<c.headDim>>),
                     k_norm |-> Values(set, Key("k_norm") \o <<"weight">>, <<c.headDim>>),
                     o_proj |-> Unbiased(set, c, Key("o_proj"), c.hidden, AttnQueryDim(c))])

NextMultiple(k, of) == ((k + of - 1) \div of) * of

\* A prompt multiplies by the weight as stored, one token by its padded twin.
Phases(weight, bias, k) ==
  Complete([prefill |-> Projection(weight, bias),
            decode  |-> Projection(BuildPaddedTwin(weight, NextMultiple(k, PadTo)), bias)])

LoadAttention(set, c, prefix) ==
  LET Key(name) == Append(prefix, name)
      Biased(name, n) == Phases(QWeight(set, c, Key(name), n, c.hidden),
                                Values(set, Key(name) \o <<"bias">>, <<n>>), c.hidden)
  IN  Complete([q_proj |-> Biased("q_proj", AttnQueryDim(c)),
                k_proj |-> Biased("k_proj", KvDim(c)),
                v_proj |-> Biased("v_proj", KvDim(c)),
                o_proj |-> Phases(QWeight(set, c, Key("o_proj"), c.hidden, AttnQueryDim(c)),
                                  <<>>, AttnQueryDim(c))])

LoadMixer(set, c, prefix, mixer) ==
  CASE mixer = "linear" -> LoadLinearAttn(set, c, Append(prefix, "linear_attn"))
    [] mixer = "full"   -> LoadFullAttn(set, c, Append(prefix, "self_attn"))
    [] mixer = "qwen2"  -> LoadAttention(set, c, Append(prefix, "self_attn"))

LoadLayer(set, c, i) ==
  LET prefix == <<"layers", i>>
      Norm(name) == Values(set, prefix \o <<name, "weight">>, <<c.hidden>>)
  IN  Complete([mixer |-> c.layerTypes[i],
                input_layernorm |-> Norm("input_layernorm"),
                post_attention_layernorm |-> Norm("post_attention_layernorm"),
                mlp |-> LoadMlp(set, c, Append(prefix, "mlp")),
                weights |-> LoadMixer(set, c, prefix, c.layerTypes[i])])

LoadModel(set, c, head) ==
  Complete([cfg    |-> c,
            embed  |-> QWeight(set, c, <<"embed_tokens">>, c.vocab, c.hidden),
            norm   |-> Values(set, <<"norm", "weight">>, <<c.hidden>>),
            head   |-> QWeight(set, c, head, c.vocab, c.hidden),
            layers |-> Complete(Strict([i \in 1..c.numLayers |-> LoadLayer(set, c, i)]))])

\* A tied model projects its logits through the embedding.
Qwen35FromWeights(set, c) ==
  IF set = Refused \/ ~Qwen35ConfigOk(c) \/ ~Quantized(c) THEN Refused
  ELSE LoadModel(set, c, IF c.tied THEN <<"embed_tokens">> ELSE <<"lm_head">>)

Qwen2FromWeights(set, c) ==
  IF set = Refused \/ ~c.tied \/ ~Qwen2ConfigOk(c) \/ ~Quantized(c) THEN Refused
  ELSE LoadModel(set, c, <<"embed_tokens">>)
=============================================================================
