---------------------------- MODULE TensorKernels ----------------------------
(***************************************************************************)
(* What the kernel encoders of cider-press-kernels make the GPU do: the    *)
(* length checks of each wrapper, the grid it dispatches, the element each *)
(* thread reads and the position it writes.                                *)
(*                                                                         *)
(* A value is a sequence of numbers: an element of a leaf is <<label>>, a  *)
(* computed element the concatenation of the values it is computed from,   *)
(* in the order it takes them.  A buffer is the sequence of its elements;  *)
(* an encoder returns the buffer after its dispatch, or Refused.           *)
(***************************************************************************)
EXTENDS TensorViews

CONSTANTS
  GroupSize,      \* quantized weights that share a scale and a bias (64)
  PerByte,        \* weights in one byte of w_q (8 / bits)
  BytesPerWord,   \* 4
  SlackQuantum,   \* elements an allocation is rounded up to (512 bytes)
  SoftmaxLimit,   \* BLOCK_AXIS_LIMIT (4096)
  SteelHeadDim,   \* the head_dim of the steel attention kernel (64)
  RopeHeads       \* heads one rope thread rotates (4)

\* They count weights, bytes and elements; an allocation rounds up to something.
ASSUME QuantizationAssumption ==
  GroupSize \in Nat /\ PerByte \in Nat /\ BytesPerWord \in Nat /\ SlackQuantum \in Nat \ {0}

\* A rope thread rotates some head.
ASSUME RopeAssumption == RopeHeads \in Nat \ {0}

Junk == <<-1>>    \* stale or foreign memory
Zero == <<0>>

\* The value computed from values, which it takes in this order.
InTurn(values) == LET upto[i \in 0..Len(values)] == IF i = 0 THEN <<>> ELSE upto[i - 1] \o values[i]
                  IN  upto[Len(values)]

----------------------------------------------------------------------------
\* Buffers.

\* A fresh output buffer: the pool hands back whatever it held.
Fresh(n) == [i \in 1..n |-> Junk]

Read(buf, a) == IF a \in 0..(Len(buf) - 1) THEN buf[a + 1] ELSE Junk

AllocLen(n) == ((n + SlackQuantum - 1) \div SlackQuantum) * SlackQuantum

\* Past the end of the elements alloc_buffer has zeroed the slack.
ReadSlack(buf, a) == IF a \in Len(buf)..(AllocLen(Len(buf)) - 1) THEN Zero ELSE Read(buf, a)

\* buf after threads wrote the <<position, value>> pairs of writes.  A position
\* two threads disagree on holds neither; a write past the end spoils all.
Written(buf, writes) ==
  IF \E w \in writes : w[1] \notin 0..(Len(buf) - 1) THEN [i \in DOMAIN buf |-> Junk]
  ELSE [i \in DOMAIN buf |->
          LET here == {w[2] : w \in {v \in writes : v[1] = i - 1}}
          IN  CASE here = {} -> buf[i]
                [] Cardinality(here) = 1 -> CHOOSE v \in here : TRUE
                [] OTHER -> Junk]

Row(buf, start, n) == InTurn([j \in 1..n |-> Read(buf, start + j - 1)])

----------------------------------------------------------------------------
\* The strided grids of copy.rs and binary.rs: x runs along the last axis, y
\* along the one before, z over the product of the others.

Dim0(shape) == shape[Len(shape)]
Dim1(shape) == IF Len(shape) > 1 THEN shape[Len(shape) - 1] ELSE 1
Rest(shape) == Product(SubSeq(shape, 1, Len(shape) - 2))

\* Above rank 3 the kernel walks two elements of the last axis per thread and
\* stops at its end: the threads past half of the grid do nothing.
Threads(shape) ==
  LET xs == IF Len(shape) <= 3 THEN 0..(Dim0(shape) - 1)
            ELSE (UNION {{2 * x, 2 * x + 1} : x \in 0..(Dim0(shape) - 1)}) \cap 0..(Dim0(shape) - 1)
  IN  xs \X (0..(Dim1(shape) - 1)) \X (0..(Rest(shape) - 1))

IndexOf(shape, t) ==
  CASE Len(shape) = 1 -> <<t[1]>>
    [] OTHER -> Unflatten(SubSeq(shape, 1, Len(shape) - 2), t[3]) \o <<t[2], t[1]>>

GridPosition(shape, t) == t[1] + Dim0(shape) * (t[2] + Dim1(shape) * t[3])

Along(strides, idx) == Total([a \in DOMAIN idx |-> idx[a] * strides[a]])

EncodeGCopy(src, srcOff, srcStrides, dst, dstOff, dstStrides, shape) ==
  IF shape = <<>> THEN Refused
  ELSE Written(dst, {<<dstOff + Along(dstStrides, IndexOf(shape, t)),
                       Read(src, srcOff + Along(srcStrides, IndexOf(shape, t)))>> :
                       t \in Threads(shape)})

\* The cross-dtype copy writes at the grid position and stops at rank 3.
EncodeGeneralCopy(src, srcOff, srcStrides, dst, dstOff, shape) ==
  IF Len(shape) \notin 1..3 THEN Refused
  ELSE Written(dst, {<<dstOff + GridPosition(shape, t),
                       Read(src, srcOff + Along(srcStrides, IndexOf(shape, t)))>> :
                       t \in Threads(shape)})

EncodeVCopy(src, dst) == IF Len(src) = Len(dst) THEN src ELSE Refused

EncodeVV(a, b, c) ==
  IF Len(a) = Len(c) /\ Len(b) = Len(c) THEN [i \in DOMAIN c |-> a[i] \o b[i]] ELSE Refused

\* g_nd1, g_nd2 and g_nd3: both operands strided, the output dense.
EncodeG(a, aStrides, b, bStrides, c, shape) ==
  Written(c, {<<GridPosition(shape, t),
                Read(a, Along(aStrides, IndexOf(shape, t)))
                  \o Read(b, Along(bStrides, IndexOf(shape, t)))>> : t \in Threads(shape)})

\* unary v_
EncodeV(src, dst) == IF Len(src) = Len(dst) THEN src ELSE Refused

----------------------------------------------------------------------------
\* Rows.

\* Every row starts as the identity (init_reduce) and is then reduced.
EncodeRowReduce(src, srcShape, dst) ==
  LET rowSize == srcShape[Len(srcShape)]
      outSize == Product(SubSeq(srcShape, 1, Len(srcShape) - 1))
  IN  IF srcShape = <<>> \/ Len(src) # outSize * rowSize \/ Len(dst) # outSize THEN Refused
      ELSE [r \in DOMAIN dst |-> Row(src, (r - 1) * rowSize, rowSize)]

EncodeArgmax(src, dst, axisSize) ==
  IF axisSize = 0 \/ Len(src) # axisSize \/ Len(dst) # 1 THEN Refused
  ELSE <<Row(src, 0, axisSize)>>

\* gamma is read with stride 1, or with stride 0 from a single one.
EncodeRmsNorm(x, w, out, axisSize, rows, wStride) ==
  IF \/ axisSize = 0 \/ rows = 0
     \/ Len(x) # rows * axisSize \/ Len(out) # rows * axisSize
     \/ wStride > 1
     \/ Len(w) # (IF wStride = 0 THEN 1 ELSE axisSize)
  THEN Refused
  ELSE [i \in DOMAIN out |->
          LET j == (i - 1) % axisSize
          IN  <<j>> \o Row(x, (i - 1) - j, axisSize) \o Read(w, j * wStride)]

EncodeSoftmax(src, dst, axisSize, rows) ==
  IF axisSize = 0 \/ rows = 0 THEN dst
  ELSE IF axisSize > SoftmaxLimit \/ Len(src) < axisSize * rows \/ Len(dst) < axisSize * rows
  THEN Refused
  ELSE [i \in DOMAIN dst |->
          LET j == (i - 1) % axisSize IN <<j>> \o Row(src, (i - 1) - j, axisSize)]

----------------------------------------------------------------------------
\* Gather, dequantize, matrix products.

\* Grid (n_indices, 1, slice size); nothing checks an index against the source.
EncodeGather(src, rowStride, indices, dst, sliceSize) ==
  Written(dst, {<<t[1] * sliceSize + t[2], Read(src, indices[t[1] + 1][1] * rowStride + t[2])>> :
                  t \in (0..(Len(indices) - 1)) \X (0..(sliceSize - 1))})

\* The weight at position o: its lane in its word, its group's scale and bias.
Weight(w, scales, biases, o) ==
  Read(w, o \div (PerByte * BytesPerWord)) \o <<o % (PerByte * BytesPerWord)>>
    \o Read(scales, o \div GroupSize) \o Read(biases, o \div GroupSize)

EncodeDequantize(w, scales, biases, out) ==
  LET n == Len(out)
      groups == n \div GroupSize
  IN  IF n = 0 THEN out
      ELSE IF \/ n % PerByte # 0 \/ n % GroupSize # 0
              \/ Len(scales) # groups \/ Len(biases) # groups
              \/ Len(w) # (n \div PerByte) \div BytesPerWord
      THEN Refused
      ELSE [i \in DOMAIN out |-> Weight(w, scales, biases, i - 1)]

EncodeGemm(a, b, c, m, n, k, batch, aStride, bStride, cStride) ==
  IF m = 0 \/ n = 0 \/ k = 0 \/ batch = 0 THEN c
  ELSE IF \/ Len(a) < (batch - 1) * aStride + m * k
          \/ Len(b) < (batch - 1) * bStride + k * n
          \/ Len(c) < (batch - 1) * cStride + m * n
  THEN Refused
  ELSE Written(c, {<<t[3] * cStride + t[1] * n + t[2],
                     InTurn([p \in 1..k |->
                        Read(a, t[3] * aStride + t[1] * k + p - 1)
                          \o Read(b, t[3] * bStride + (p - 1) * n + t[2])])>> :
                     t \in (0..(m - 1)) \X (0..(n - 1)) \X (0..(batch - 1))})

\* A weight is [n, k, kLogical, w, scales, biases]; k is the physical width.
QuantizedLens(q) ==
  /\ q.k % GroupSize = 0
  /\ Len(q.w) = (q.n * q.k) \div (PerByte * BytesPerWord)
  /\ Len(q.scales) = q.n * (q.k \div GroupSize)
  /\ Len(q.biases) = q.n * (q.k \div GroupSize)

\* The product of row `start` of x with row r of the weight.  The groups past
\* kLogical have scale and bias zero: they add nothing if x is zero there, and
\* else what 0 * x is, not a number if x is not finite.
DotRow(x, start, q, r) ==
  IF \E p \in (q.kLogical + 1)..q.k : ReadSlack(x, start + p - 1) # Zero THEN Junk
  ELSE InTurn([p \in 1..q.kLogical |->
         ReadSlack(x, start + p - 1) \o Weight(q.w, q.scales, q.biases, r * q.k + p - 1)])

EncodeQmv(q, x, y) ==
  IF AllocLen(Len(x)) < q.k \/ q.k = 0 \/ Len(y) = 0 \/ ~QuantizedLens([q EXCEPT !.n = Len(y)])
  THEN Refused
  ELSE [r \in DOMAIN y |-> DotRow(x, 0, q, r - 1)]

EncodeQmm(q, x, y, m) ==
  IF m = 0 \/ q.n = 0 \/ q.k = 0 \/ ~QuantizedLens(q) \/ Len(x) # m * q.k \/ Len(y) # m * q.n
  THEN Refused
  ELSE [i \in DOMAIN y |-> DotRow(x, ((i - 1) \div q.n) * q.k, q, (i - 1) % q.n)]

----------------------------------------------------------------------------
\* Rotary embedding: thread (x, y, z) rotates the pair (x, x + rotary/2) of
\* position y in up to RopeHeads heads of one batch entry.

Rotated(half, position, x, a, b) == <<half, position, x>> \o a \o b

EncodeRope(src, dst, offset, batch, heads, seq, headDim, rotary, sHead, sSeq) ==
  LET ups    == (heads + RopeHeads - 1) \div RopeHeads
      half   == rotary \div 2
      Mats(z) == LET first == (z * RopeHeads) % (ups * RopeHeads)
                     entry == (z * RopeHeads) \div (ups * RopeHeads)
                 IN  {entry * heads + h : h \in {g \in first..(first + RopeHeads - 1) : g < heads}}
      In(t, m)  == t[2] * sSeq + m * sHead + t[1]
      Out(t, m) == t[2] * headDim + m * seq * headDim + t[1]
      Pair(h, t, m) == Rotated(h, offset + t[2], t[1], Read(src, In(t, m)),
                                                       Read(src, In(t, m) + half))
      Rotations(t) == UNION {{<<Out(t, m), Pair(1, t, m)>>, <<Out(t, m) + half, Pair(2, t, m)>>} :
                               m \in Mats(t[3])}
  IN  IF \/ 0 \in {batch, heads, seq, headDim, rotary}
         \/ headDim % 2 # 0 \/ rotary > headDim \/ rotary % 2 # 0
         \/ Len(src) < batch * heads * seq * headDim
         \/ Len(dst) < batch * heads * seq * headDim
      THEN Refused
      ELSE Written(dst, UNION {Rotations(t) :
             t \in (0..(half - 1)) \X (0..(seq - 1)) \X (0..(batch * ups - 1))})

----------------------------------------------------------------------------
\* Attention.  The value of one output element: the query row, then for each
\* key attended to the key row and the element of the value row.

EncodeSdpaVector(q, k, v, out, headDim, nKeys, gqa, khs, kss, vhs, vss) ==
  LET heads == Len(out) \div headDim
      kv    == heads \div gqa
      Last0(hs, ss) == (kv - 1) * hs + (nKeys - 1) * ss + headDim
  IN  IF \/ Len(out) % headDim # 0 \/ heads = 0 \/ Len(q) < heads * headDim
         \/ nKeys = 0 \/ gqa = 0 \/ heads % gqa # 0
         \/ Len(k) < Last0(khs, kss) \/ Len(v) < Last0(vhs, vss)
      THEN Refused
      ELSE [i \in DOMAIN out |->
              LET h == (i - 1) \div headDim
                  d == (i - 1) % headDim
              IN  Row(q, h * headDim, headDim)
                    \o InTurn([n \in 1..nKeys |->
                         Row(k, (h \div gqa) * khs + (n - 1) * kss, headDim)
                           \o Read(v, (h \div gqa) * vhs + (n - 1) * vss + d)])]

\* qs, ks, vs: the batch, head and sequence strides.
EncodeSdpaFull(q, k, v, out, headDim, heads, kvHeads, qLen, kLen, qs, ks, vs, causal) ==
  LET Need(s, hs, len) == (hs - 1) * s[2] + (len - 1) * s[3] + headDim
      gqa == heads \div kvHeads
  IN  IF \/ headDim # SteelHeadDim \/ 0 \in {heads, kvHeads, qLen, kLen}
         \/ heads % kvHeads # 0 \/ kLen < qLen
         \/ Len(q) < Need(qs, heads, qLen) \/ Len(k) < Need(ks, kvHeads, kLen)
         \/ Len(v) < Need(vs, kvHeads, kLen) \/ Len(out) < heads * qLen * headDim
      THEN Refused
      ELSE [i \in DOMAIN out |->
              LET d == (i - 1) % headDim
                  t == ((i - 1) \div headDim) % qLen
                  h == (i - 1) \div (headDim * qLen)
                  keys == IF causal THEN t + (kLen - qLen) + 1 ELSE kLen
              IN  Row(q, h * qs[2] + t * qs[3], headDim)
                    \o InTurn([n \in 1..keys |->
                         Row(k, (h \div gqa) * ks[2] + (n - 1) * ks[3], headDim)
                           \o Read(v, (h \div gqa) * vs[2] + (n - 1) * vs[3] + d)])]
=============================================================================
