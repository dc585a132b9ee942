----------------------------- MODULE QwenModel -----------------------------
(***************************************************************************)
(* The two language models of the models crate over their per-layer        *)
(* caches: qwen3_5/{block,cache,model}.rs and qwen2/{block,model}.rs,       *)
(* loaded from a checkpoint (QwenWeights).                                 *)
(*                                                                         *)
(* A client feeds tokens in chunks of any length to the four forwards and  *)
(* resets the caches in between.  It evaluates what a forward returns      *)
(* before the next one, as the generator does, so that a cache is the      *)
(* values it holds (KvCache has the laziness).  Beside the caches the      *)
(* state keeps the memories that a token-by-token computation of the       *)
(* formulas would have (QwenReference), and whether the last output was    *)
(* what they give.                                                         *)
(***************************************************************************)
EXTENDS QwenWeights, QwenAttention
LOCAL INSTANCE SequencesExt

CONSTANTS
  Checkpoints, \* [family, config, dir, meant, whole]: a directory, the model that
               \* was written to it, and whether all of that model is still there
  Vocab,       \* token ids
  MaxTokens,   \* positions a KV cache has room for
  MaxChunk,    \* bound: tokens of one forward
  MaxResets    \* bound: resets of one run

Ref == INSTANCE QwenReference

VARIABLES
  chosen,     \* the checkpoint it was loaded from
  model,      \* the model, or Refused
  caches,     \* one per layer: the linear state or the KV cache
  memories,   \* what each layer should remember
  fed,        \* tokens since the last reset
  resets,     \* how many there were
  last        \* how the last forward ended

vars == <<chosen, model, caches, memories, fed, resets, last>>

FromCheckpoint(c) ==
  IF c.family = "qwen2" THEN Qwen2FromWeights(ReadShards(c.dir), c.config)
  ELSE Qwen35FromWeights(ReadShards(c.dir), c.config)

Meant == Checkpoints[chosen].meant
Cfg == model.cfg
Layers == model.layers

----------------------------------------------------------------------------
\* block.rs

MakeCache(cfg, layer) ==
  IF layer.mixer = "linear" THEN ZeroState(cfg)
  ELSE NewKvCache(MaxTokens, cfg.kvHeads, cfg.headDim)

Mix(layer, normed, offset, cache) ==
  CASE layer.mixer = "linear" -> GatedDeltaNetForward(Cfg, layer.weights, normed, cache)
    [] layer.mixer = "full"   -> GatedAttentionForward(Cfg, layer.weights, normed, offset, cache)
    [] layer.mixer = "qwen2"  -> Qwen2AttentionForward(Cfg, layer.weights, normed, offset, cache)

MlpResidual(layer, hidden) ==
  Add(hidden, Mlp(RmsNorm(hidden, Gamma(layer.post_attention_layernorm)), layer.mlp))

FromMixer(layer, hidden, mixed) ==
  [out |-> MlpResidual(layer, Add(hidden, mixed.out)), cache |-> mixed.cache]

LayerForward(layer, hidden, offset, cache) ==
  FromMixer(layer, hidden, Mix(layer, RmsNorm(hidden, Gamma(layer.input_layernorm)), offset, cache))

----------------------------------------------------------------------------
\* model.rs

Positions(cs) ==
  LET kept == SelectSeq([l \in DOMAIN cs |-> l], LAMBDA l : Layers[l].mixer # "linear")
  IN  [i \in DOMAIN kept |-> cs[kept[i]].position]

Replaced(acc, l, r) == [out |-> r.out, caches |-> [acc.caches EXCEPT ![l] = r.cache]]

\* The layers run in order until one fails: those before it keep what they did.
RunLayers(embedded, offset) ==
  FoldLeft(LAMBDA acc, l :
             IF acc.out = Refused THEN acc
             ELSE Replaced(acc, l, LayerForward(Layers[l], acc.out, offset, acc.caches[l])),
           [out |-> embedded, caches |-> caches], [l \in DOMAIN Layers |-> l])

HiddenStates(ids) ==
  LET t == Len(ids)
      offset == RopeOffset(Positions(caches))
      flat == Copied(Reshaped([Dense(<<1, t>>, "U32", ids) EXCEPT !.leaf = TRUE], <<t>>))
      embedded == Copied(Reshaped(EmbedTokens(flat, model.embed), <<1, t, Cfg.hidden>>))
  IN  IF offset = Refused THEN [out |-> Refused, caches |-> caches]
      ELSE RunLayers(embedded, offset)

FinalNorm(hidden) == RmsNorm(hidden, Gamma(model.norm))

ProjectLogits(hidden) == QuantizedMatmul(FinalNorm(hidden), model.head)

LastPosition(hidden) ==
  IF hidden = Refused \/ hidden.dims[2] = 1 THEN hidden
  ELSE Copied(Sliced(hidden, <<<<0, 1>>, <<hidden.dims[2] - 1, hidden.dims[2]>>,
                               <<0, Cfg.hidden>>>>))

----------------------------------------------------------------------------
\* The reference, token by token.

Expected(ids) ==
  LET After(acc, r) == [outs |-> Append(acc.outs, r.out), memories |-> r.memories]
      Token(acc, id) == After(acc, Ref!ModelToken(Meant, id, acc.memories))
  IN  FoldLeft(Token, [outs |-> <<>>, memories |-> memories], ids)

Fits(ids) == Len(fed) + Len(ids) <= MaxTokens

Chunks == UNION {[1..n -> Vocab] : n \in 1..MaxChunk}

\* What is known of a forward: did the tokens fit, did it return, was what it
\* returned what they mean, and did it fail after a cache had moved?
NoCall == [room |-> TRUE, ended |-> TRUE, agrees |-> TRUE, torn |-> FALSE]

----------------------------------------------------------------------------

\* A checkpoint that does not load leaves no model, and nothing to call.
Start(a) ==
  /\ chosen = a
  /\ model = FromCheckpoint(Checkpoints[a])
  /\ LET layers == IF model = Refused THEN <<>> ELSE Layers
     IN  /\ caches = [l \in DOMAIN layers |-> MakeCache(Cfg, layers[l])]
         /\ memories = [l \in DOMAIN layers |-> Ref!EmptyMemory(Cfg, layers[l])]
  /\ fed = <<>>
  /\ resets = 0
  /\ last = NoCall

Init == \E a \in DOMAIN Checkpoints : Start(a)

\* What the four forwards return, and what each token of the chunk should add.
FillCache(hidden) == hidden
ForwardHidden(hidden) == FinalNorm(hidden)
ForwardAll(hidden) == ProjectLogits(hidden)
ForwardLast(hidden) == ProjectLogits(LastPosition(hidden))

Output(forward, hidden) ==
  CASE forward = "fill_cache"     -> FillCache(hidden)
    [] forward = "forward_hidden" -> ForwardHidden(hidden)
    [] forward = "forward"        -> ForwardAll(hidden)
    [] forward = "forward_last"   -> ForwardLast(hidden)

Due(forward, outs) ==
  CASE forward = "fill_cache"     -> FlattenSeq(outs)
    [] forward = "forward_hidden" -> FlattenSeq([i \in DOMAIN outs |-> Ref!Normed(Meant, outs[i])])
    [] forward = "forward"        -> FlattenSeq([i \in DOMAIN outs |-> Ref!Logits(Meant, outs[i])])
    [] forward = "forward_last"   -> Ref!Logits(Meant, Last(outs))

Forwards == {"fill_cache", "forward_hidden", "forward", "forward_last"}

\* A forward over any chunk: what it returns and what it should.  One that fails
\* after a layer's cache has moved leaves the caches torn, and the client resets.
Forward ==
  /\ model # Refused
  /\ ~last.torn
  /\ UNCHANGED <<chosen, model, resets>>
  /\ \E ids \in Chunks : \E run \in {HiddenStates(ids)}, expected \in {Expected(ids)} :
       \E forward \in Forwards : \E out \in {Output(forward, run.out)} :
         LET ended == out # Refused
         IN  /\ caches' = run.caches
             /\ memories' = IF ended THEN expected.memories ELSE memories
             /\ fed' = IF ended THEN fed \o ids ELSE fed
             /\ last' = [room   |-> Fits(ids),
                         ended  |-> ended,
                         agrees |-> ended => out.store = Due(forward, expected.outs),
                         torn   |-> ~ended /\ run.caches # caches]

\* Mutant: the convolution keeps the window of the sequence before.
ResetKeepsWindow(layer, cache) ==
  IF layer.mixer = "linear"
  THEN [cache EXCEPT !.recurrent_state = ZeroState(Cfg).recurrent_state]
  ELSE [cache EXCEPT !.position = 0]

\* The slab keeps its rows; linear states are zeroed anew.
ResetCache(layer, cache) ==
  IF layer.mixer = "linear" THEN ZeroState(Cfg) ELSE [cache EXCEPT !.position = 0]

ResetCaches ==
  /\ model # Refused
  /\ resets < MaxResets
  /\ resets' = resets + 1
  /\ caches' = [l \in DOMAIN caches |-> ResetCache(Layers[l], caches[l])]
  /\ memories' = [l \in DOMAIN Layers |-> Ref!EmptyMemory(Cfg, Layers[l])]
  /\ fed' = <<>>
  /\ last' = NoCall
  /\ UNCHANGED <<chosen, model>>

Next == Forward \/ ResetCaches

Spec == Init /\ [][Next]_vars
----------------------------------------------------------------------------
\* The attention layers all count the tokens fed, within the room there is, and
\* every cache keeps its shape.
TypeOK ==
  /\ fed \in Seq(Vocab)
  /\ \A l \in DOMAIN caches :
       IF Layers[l].mixer = "linear"
       THEN /\ caches[l].conv_state.dims = ZeroState(Cfg).conv_state.dims
            /\ caches[l].recurrent_state.dims = ZeroState(Cfg).recurrent_state.dims
       ELSE /\ caches[l].position <= MaxTokens
            /\ ~last.torn => caches[l].position = Len(fed)

\* However the tokens were cut into chunks, whichever of the kernels a chunk
\* takes, a forward gives what each of its tokens means after the ones before:
\* no token sees a later one, none is lost between two forwards.
ForwardsAgree == last.agrees

\* A checkpoint loads exactly when nothing of it is missing, misshapen or at odds
\* with its configuration, and a model that loaded never refuses a forward with room
\* in the caches: every view that reaches an op which wants dense storage was copied
\* on the way.
ForwardsRun ==
  /\ Checkpoints[chosen].whole <=> model # Refused
  /\ last.room => last.ended

RowsOf(t) == [i \in 1..t.dims[2] |-> [j \in 1..t.dims[3] |-> El(t, <<0, i - 1, j - 1>>)]]
Prefix(slab, n) == [i \in 1..n |-> [h \in 1..slab.dims[2] |-> RowAt(slab, <<i - 1, h - 1, 0>>)]]
Matrices(t) == [h \in 1..t.dims[2] |-> [i \in 1..t.dims[3] |-> RowAt(t, <<0, h - 1, i - 1, 0>>)]]

\* Between two calls each cache holds what its layer should remember of the
\* tokens since the last reset, and a reset forgets everything.
CachesRemember ==
  ~last.torn =>
    \A l \in DOMAIN caches :
      IF Layers[l].mixer = "linear"
      THEN /\ RowsOf(caches[l].conv_state) = memories[l].window
           /\ Matrices(caches[l].recurrent_state) = memories[l].m
      ELSE /\ Prefix(caches[l].keys, caches[l].position) = memories[l].keys
           /\ Prefix(caches[l].values, caches[l].position) = memories[l].values
=============================================================================
