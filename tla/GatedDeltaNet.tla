--------------------------- MODULE GatedDeltaNet ---------------------------
(***************************************************************************)
(* qwen3_5/gated_deltanet.rs: the linear-attention mixer, over the T       *)
(* tokens of one forward.  c is the configuration ([hv, hk, dk, dv, ...]), *)
(* w the layer's weights, and the state of the layer is                    *)
(* [conv_state, recurrent_state].                                          *)
(***************************************************************************)
EXTENDS QwenBlocks
LOCAL INSTANCE SequencesExt

Kernel == 4      \* linear_conv_kernel_dim: nothing else is accepted

KeyDim(c) == c.hk * c.dk
ValueDim(c) == c.hv * c.dv
ConvDim(c) == 2 * KeyDim(c) + ValueDim(c)

All(n) == <<0, n>>
Only(i) == <<i, i + 1>>

----------------------------------------------------------------------------

\* The last three rows of the convolution's input, kept as a view of it.
NextWindow(input, t) ==
  IF input = Refused THEN Refused ELSE Sliced(input, <<All(1), <<t, t + Kernel - 1>>, All(input.dims[3])>>)

\* The three rows before the call, then its own: output row i is the sum over
\* the taps j of weight[.., j] with input row i + j.
Conv1dCausal(qkv, convState, weight, t) ==
  LET channels == weight.dims[1]
      input == Concat(<<convState, qkv>>, 2)
      Tap(j) ==
        LET wj == Reshaped(Copied(Sliced(weight, <<All(channels), Only(j), All(1)>>)),
                           <<1, 1, channels>>)
            xj == Copied(Sliced(input, <<All(1), <<j, j + t>>, All(channels)>>))
        IN  Mul(xj, wj)
  IN  [out   |-> Silu(FoldLeft(LAMBDA prev, j : Add(prev, Tap(j)), Tap(0),
                               [j \in 1..(Kernel - 1) |-> j])),
       state |-> NextWindow(input, t)]

\* exp(-exp(a_log) * softplus(a + dt_bias)), in F32.
ComputeG(a, aLog, dtBias) ==
  LET hv == aLog.dims[1]
      PerHead(x) == Reshaped(x, <<1, 1, hv>>)
      Softplus(u) == Unary("log", Add(Unary("exp", u), Scalar("F32", 1)))
      Decay(rate, s) == Unary("exp", Mul(Mul(rate, s), Scalar("F32", MinusOne)))
  IN  Decay(PerHead(Unary("exp", aLog)),
            Softplus(Add(Cast(a, "F32"), PerHead(Cast(dtBias, "F32")))))

GdnBeta(b) == Cast(Unary("sigmoid", b), "F32")

SplitQkv(c, t, convOut) ==
  LET Part(from, to, heads, dim) ==
        Reshaped(Copied(Sliced(convOut, <<All(1), All(t), <<from, to>>>>)), <<1, t, heads, dim>>)
  IN  [q |-> Part(0, KeyDim(c), c.hk, c.dk),
       k |-> Part(KeyDim(c), 2 * KeyDim(c), c.hk, c.dk),
       v |-> Part(2 * KeyDim(c), ConvDim(c), c.hv, c.dv)]

FlatScaled(normed, dims, scale) ==
  Reshaped(Mul(Copied(Reshaped(normed, <<Product(dims)>>)), Scalar("BF16", scale)), dims)

\* Mutant: without the copy a view reaches the norm.
NormScaleView(x, scale) ==
  IF x = Refused THEN Refused ELSE FlatScaled(UnitRmsNorm(x), x.dims, scale)

\* x is a view: copied for the norm, and flattened for the strided product.
QkNormScale(x, scale) ==
  IF x = Refused THEN Refused ELSE FlatScaled(UnitRmsNorm(Copied(x)), x.dims, scale)

GqaRepeat(c, x) == RepeatAxisInterleaved(x, 3, c.hv \div c.hk)

\* Token i of x, a matrix of c.hv rows, and of a gate, a number per head.
TokenRows(c, x, i, dim, dims) ==
  Reshaped(Reshaped(Copied(Sliced(x, <<All(1), Only(i), All(c.hv), All(dim)>>)), <<c.hv, dim>>), dims)
TokenGate(c, x, i, dims) ==
  Reshaped(Reshaped(Copied(Sliced(x, <<All(1), Only(i), All(c.hv)>>)), <<c.hv>>), dims)

\* What v says, less what the decayed memory gives for k.
Delta(kvMem, v, b) == Mul(Add(v, Mul(kvMem, Scalar("F32", MinusOne))), b)

Corrected(c, decayed, k, v, b) ==
  Add(decayed, Mul(k, Reshaped(Delta(SumLast(Mul(decayed, k)), v, b), <<c.hv, c.dv, 1>>)))

\* The output of a token from the memory it has updated.
ReadOut(c, acc, m, q) ==
  [m  |-> m,
   ys |-> Append(acc.ys, Reshaped(Cast(SumLast(Mul(m, q)), "BF16"), <<1, 1, c.hv, c.dv>>))]

\* Decay, read of the decayed memory, correction, write, output.
Step(c, in, acc, i) ==
  ReadOut(c, acc,
          Corrected(c, Mul(acc.m, TokenGate(c, in.g, i, <<c.hv, 1, 1>>)),
                    TokenRows(c, in.k, i, c.dk, <<c.hv, 1, c.dk>>),
                    TokenRows(c, in.v, i, c.dv, <<c.hv, c.dv>>),
                    TokenGate(c, in.beta, i, <<c.hv, 1>>)),
          TokenRows(c, in.q, i, c.dk, <<c.hv, 1, c.dk>>))

Stacked(c, run) ==
  [y |-> Concat(run.ys, 2), state |-> Reshaped(run.m, <<1, c.hv, c.dv, c.dk>>)]

\* Over the tokens of in, [q, k, v, g, beta], from the memory state0.
Recurrence(c, t, in, state0) ==
  Stacked(c, FoldLeft(LAMBDA acc, i : Step(c, in, acc, i),
                      [m |-> Reshaped(Copied(state0), <<c.hv, c.dv, c.dk>>), ys |-> <<>>],
                      [i \in 1..t |-> i - 1]))

----------------------------------------------------------------------------

ZeroState(c) ==
  [conv_state      |-> Dense(<<1, Kernel - 1, ConvDim(c)>>, "BF16",
                             [i \in 1..((Kernel - 1) * ConvDim(c)) |-> 0]),
   recurrent_state |-> Dense(<<1, c.hv, c.dv, c.dk>>, "F32",
                             [i \in 1..(c.hv * c.dv * c.dk) |-> 0])]

\* What the memory gave, normed and gated by z.
GatedNorm(c, w, t, y, z) ==
  LET Wide(x) == Cast(Copied(Reshaped(x, <<t * c.hv, c.dv>>)), "F32")
  IN  Reshaped(Cast(Mul(Silu(Wide(Copied(z))), Wide(RmsNorm(Copied(y), Gamma(w.norm)))), "BF16"),
               <<1, t, ValueDim(c)>>)

\* The operands of the recurrence: the heads of the convolution's output, and the
\* gates, projections of the same hidden states.
Prepared(c, w, hidden, part) ==
  LET inv == Fn("rsqrt", c.dk)
      F32(x) == Cast(Copied(x), "F32")
  IN  [q    |-> F32(GqaRepeat(c, QkNormScale(part.q, Times(inv, inv)))),
       k    |-> F32(GqaRepeat(c, QkNormScale(part.k, inv))),
       v    |-> F32(part.v),
       g    |-> ComputeG(Linear(hidden, w.in_proj_a), Dense(<<c.hv>>, "F32", w.a_log),
                         Dense(<<c.hv>>, "BF16", w.dt_bias)),
       beta |-> GdnBeta(Linear(hidden, w.in_proj_b))]

\* The state is replaced at the end, when every op has been built.
Committed(out, conv, mem, state) ==
  [out   |-> out,
   cache |-> IF out = Refused THEN state
             ELSE [conv_state |-> conv.state, recurrent_state |-> mem.state]]

FromMemory(c, w, hidden, state, conv, mem) ==
  Committed(Linear(GatedNorm(c, w, hidden.dims[2], mem.y,
                             Reshaped(Linear(hidden, w.in_proj_z), <<1, hidden.dims[2], c.hv, c.dv>>)),
                   w.out_proj),
            conv, mem, state)

FromConv(c, w, hidden, state, conv) ==
  FromMemory(c, w, hidden, state, conv,
             Recurrence(c, hidden.dims[2],
                        Prepared(c, w, hidden, SplitQkv(c, hidden.dims[2], conv.out)),
                        state.recurrent_state))

\* Projection and convolution, recurrence, gated norm and output.
GatedDeltaNetForward(c, w, hidden, state) ==
  FromConv(c, w, hidden, state,
           Conv1dCausal(Linear(hidden, w.in_proj_qkv), state.conv_state,
                        Dense(<<ConvDim(c), Kernel, 1>>, "BF16", w.conv1d_weight),
                        hidden.dims[2]))
=============================================================================
