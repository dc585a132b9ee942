----------------------------- MODULE TensorMath -----------------------------
(***************************************************************************)
(* The ops of tensor.rs as the models crate uses them: each takes tensors  *)
(* of numbers and returns the tensor eval leaves, or Refused when a        *)
(* builder or the dispatch of eval rejects it.  TensorOps shows that what  *)
(* is not refused reads exactly the elements its operands denote; here the *)
(* elements have values, so that a forward can be computed with them.      *)
(*                                                                         *)
(* A number is a residue modulo the prime P: sums and products of the code *)
(* are sums and products, and regrouping them changes nothing, as for real *)
(* numbers (rounding is left out, so a cast changes the dtype only).  What *)
(* an elementary function returns is left open (Fn): equal results come    *)
(* from equal arguments.                                                   *)
(***************************************************************************)
EXTENDS TensorViews
LOCAL INSTANCE SequencesExt

CONSTANTS
  P,              \* the modulus
  Fn(_, _),       \* Fn(name, x): the elementary function name at x
  SoftmaxLimit,   \* BLOCK_AXIS_LIMIT (4096)
  SteelHeadDim,   \* the head_dim of the steel attention kernel (64)
  HeadDims        \* SUPPORTED_HEAD_DIMS (64, 96, 128, 256)

----------------------------------------------------------------------------
\* Numbers.

NegInf == -1
Plus(a, b) == IF a = NegInf \/ b = NegInf THEN NegInf ELSE (a + b) % P
Times(a, b) == (a * b) % P
MinusOne == P - 1

\* A sequence, built at once: TLC keeps a function it has not to look at unbuilt.
Strict(s) == <<>> \o s

SumOf(s) == LET upto[i \in 0..Len(s)] == IF i = 0 THEN 0 ELSE Plus(upto[i - 1], s[i])
            IN  upto[Len(s)]
Dot(a, b) == SumOf([j \in DOMAIN a |-> Times(a[j], b[j])])

Sigmoid(v) == Fn("sigmoid", v)

\* A row over its root mean square.
NormRow(row, gamma) ==
  LET scale == Fn("rsqrt_mean", Dot(row, row))
  IN  Strict([j \in 1..Len(row) |-> Times(Times(row[j], scale), gamma[j])])

\* A score of minus infinity weighs nothing; the maximum the kernel subtracts from
\* every score first cancels.
SoftmaxRow(row) ==
  LET weight == Strict([j \in 1..Len(row) |-> IF row[j] = NegInf THEN 0 ELSE Fn("exp", row[j])])
      total  == Fn("recip", SumOf(weight))
  IN  Strict([j \in 1..Len(row) |-> Times(weight[j], total)])

\* The row of one head at a position: element j of the first half of the rotary
\* dims turns with element j of the second half.
RotateRow(row, position, rotary) ==
  LET half == rotary \div 2
      Turn(j, a, b) == Plus(Times(a, Fn("cos", position * half + j)),
                            Times(b, Fn("sin", position * half + j)))
      Element(j) ==
        CASE j <= half -> Turn(j, row[j], Times(MinusOne, row[j + half]))
          [] j > half /\ j <= rotary -> Turn(j - half, row[j], row[j - half])
          [] OTHER -> row[j]
  IN  Strict([j \in 1..Len(row) |-> Element(j)])

----------------------------------------------------------------------------
\* Tensors.

El(t, idx) == t.store[Address(t, idx) + 1]

\* All multi-indices, in row-major order.
IndicesBy(step, dims) ==
  Strict([k \in 1..Product(dims) |-> [a \in 1..Len(dims) |-> ((k - 1) \div step[a]) % dims[a]]])
Indices(dims) == IndicesBy(Contiguous(dims), dims)

MapSeq(s, F(_)) == Strict([k \in DOMAIN s |-> F(s[k])])
Tab(dims, F(_)) == MapSeq(Indices(dims), F)

ElementsAt(t, all) == Strict([k \in DOMAIN all |-> El(t, all[k])])
Elements(t) == ElementsAt(t, Indices(t.dims))

\* The elements along the last axis, at idx.
RowAt(t, idx) ==
  LET step  == t.strides[Rank(t)]
      start == Address(t, idx) - idx[Rank(t)] * step
  IN  Strict([j \in 1..t.dims[Rank(t)] |-> t.store[start + (j - 1) * step + 1]])

\* Views and copies of what may have been refused.
Reshaped(t, dims) == IF t = Refused THEN Refused ELSE Reshape(t, dims)
Permuted(t, axes) == IF t = Refused THEN Refused ELSE Permute(t, axes)
Sliced(t, ranges) == IF t = Refused THEN Refused ELSE Slice(t, ranges)
Broadcast(t, dims) == IF t = Refused THEN Refused ELSE BroadcastTo(t, dims)

Materialised(t, dtype) == Dense(t.dims, dtype, Elements(t))

Copied(t) ==
  IF t = Refused THEN Refused
  ELSE IF CopyElides(t) THEN Elided(t)
  ELSE IF t.view /\ Rank(t) = 0 THEN Refused
  ELSE Materialised(t, t.dtype)

Cast(t, dtype) ==
  IF t = Refused \/ t.dtype = dtype THEN t
  ELSE IF {t.dtype, dtype} # {"BF16", "F32"} \/ (t.view /\ Rank(t) \notin 1..3) THEN Refused
  ELSE Materialised(t, dtype)

OwnsDense(t) == t # Refused /\ ~t.view /\ IsContiguous(t)
Flat(t) == t # Refused /\ IsContiguous(t) /\ t.off = 0

Unary(name, t) ==
  IF OwnsDense(t)
  THEN Dense(t.dims, t.dtype, Strict([k \in DOMAIN t.store |-> Fn(name, t.store[k])]))
  ELSE Refused

\* An operand in the shape of the result.
Aligned(t, dims) == IF t.dims = dims THEN t ELSE BroadcastTo(t, dims)

\* The strided kernels end at rank 3 and take no offset.
Accepted(a, b) ==
  IF (a.view \/ b.view) /\ (Rank(a) \notin 1..3 \/ a.off # 0 \/ b.off # 0) THEN Refused
  ELSE [dims |-> a.dims, dtype |-> a.dtype, left |-> Elements(a), right |-> Elements(b)]

AcceptedIn(dims, a, b) ==
  IF dims = Refused THEN Refused ELSE Accepted(Aligned(a, dims), Aligned(b, dims))

\* The elements of both operands, in the order of the result's.
Operands(a, b) ==
  IF Refused \in {a, b} \/ a.dtype # b.dtype THEN Refused
  ELSE AcceptedIn(BroadcastShape(a.dims, b.dims), a, b)

Combined(ops, F(_, _)) ==
  IF ops = Refused THEN Refused
  ELSE Dense(ops.dims, ops.dtype,
             Strict([k \in DOMAIN ops.left |-> F(ops.left[k], ops.right[k])]))

Add(a, b) == Combined(Operands(a, b), Plus)
Mul(a, b) == Combined(Operands(a, b), Times)

Scalar(dtype, v) == [Dense(<<1>>, dtype, <<v>>) EXCEPT !.leaf = TRUE]

\* sum(-1, false)
SumLast(t) ==
  IF OwnsDense(t)
  THEN Dense(Front(t.dims), t.dtype, Tab(Front(t.dims), LAMBDA i : SumOf(RowAt(t, Append(i, 0)))))
  ELSE Refused

\* The store of a dense tensor whose rows are given by their first index.
Rows(dims, F(_)) ==
  LET lead == Front(dims)
  IN  FlattenSeq(Strict([r \in 1..Product(lead) |-> F(Append(Unflatten(lead, r - 1), 0))]))

RowWise(t, F(_)) == Dense(t.dims, t.dtype, Rows(t.dims, LAMBDA i : F(RowAt(t, i))))

\* gamma is a [D] tensor.
RmsNorm(t, gamma) ==
  IF OwnsDense(t) /\ OwnsDense(gamma) /\ t.dtype = "BF16" /\ gamma.dtype = "BF16"
     /\ Rank(t) > 0 /\ gamma.dims = <<t.dims[Rank(t)]>>
  THEN RowWise(t, LAMBDA row : NormRow(row, gamma.store))
  ELSE Refused

\* rms_norm(None): gamma is 1.
UnitRmsNorm(t) ==
  IF OwnsDense(t) /\ t.dtype = "BF16" /\ Rank(t) > 0
  THEN RowWise(t, LAMBDA row : NormRow(row, [j \in DOMAIN row |-> 1]))
  ELSE Refused

Softmax(t) ==
  IF OwnsDense(t) /\ t.dtype = "BF16" /\ t.dims[Rank(t)] \in 1..SoftmaxLimit
  THEN RowWise(t, SoftmaxRow) ELSE Refused

\* position is the value of the length-1 offset tensor.
Rope(t, position, rotary) ==
  IF /\ t # Refused /\ t.dtype = "BF16" /\ Rank(t) = 4 /\ t.off = 0 /\ t.strides[4] = 1
     /\ rotary \in 1..t.dims[4] /\ rotary % 2 = 0
  THEN Dense(t.dims, "BF16", Rows(t.dims, LAMBDA i :
         RotateRow(RowAt(t, i), position + i[3], rotary)))
  ELSE Refused

\* Rank-4 operands that agree on their two leading axes.
Matmul(a, b) ==
  IF /\ Flat(a) /\ Flat(b) /\ a.dtype = "BF16" /\ b.dtype = "BF16"
     /\ SubSeq(a.dims, 1, 2) = SubSeq(b.dims, 1, 2) /\ a.dims[4] = b.dims[3]
  THEN LET dims == [a.dims EXCEPT ![4] = b.dims[4]]
       IN  Dense(dims, "BF16", Tab(dims, LAMBDA i :
             Dot(RowAt(a, i), Strict([p \in 1..a.dims[4] |-> El(b, [i EXCEPT ![3] = p - 1])]))))
  ELSE Refused

\* x @ W^T.  A weight is [rows, k]: its rows, and the width the activation has
\* to have; the rows of a padded twin are longer.  One row of activations takes
\* the matrix-vector kernel, which reads on to the end of the weight's rows.
QuantizedMatmul(x, weight) ==
  LET d == Rank(x)
      width == Len(weight.rows[1])
      dims == [x.dims EXCEPT ![d] = Len(weight.rows)]
      Padded == Strict([p \in 1..width |-> IF p <= Len(x.store) THEN x.store[p] ELSE 0])
  IN  IF \/ x = Refused \/ ~Flat(x) \/ x.dtype # "BF16" \/ x.dims[d] # weight.k
         \/ Product(Front(x.dims)) > 1 /\ weight.k # width
      THEN Refused
      ELSE IF Product(Front(x.dims)) = 1
      THEN Dense(dims, "BF16", Strict([n \in 1..Len(weight.rows) |-> Dot(Padded, weight.rows[n])]))
      ELSE Dense(dims, "BF16", Tab(dims, LAMBDA i : Dot(RowAt(x, i), weight.rows[i[d] + 1])))

\* Copies each part behind the ones before; the axes before axis are 1.
Concat(parts, axis) ==
  LET first == parts[1]
      Fits(t) == /\ t.dtype = first.dtype /\ Rank(t) = Rank(first)
                 /\ \A c \in DOMAIN t.dims \ {axis} : t.dims[c] = first.dims[c]
      width == Total([i \in DOMAIN parts |-> parts[i].dims[axis]])
  IN  IF /\ \A i \in DOMAIN parts : parts[i] # Refused
         /\ \A i \in DOMAIN parts : Fits(parts[i])
         /\ \A c \in 1..(axis - 1) : first.dims[c] = 1
      THEN Dense([first.dims EXCEPT ![axis] = width], first.dtype,
                 FlattenSeq(Strict([i \in 1..Len(parts) |-> Elements(parts[i])])))
      ELSE Refused

\* The fused kernels; causal concerns several queries only.  The decode kernel
\* takes q for dense.
FusedSdpa(q, k, v, gqa, causal) ==
  LET queries == q.dims[3]
      keys    == k.dims[3]
      Seen(i) == IF causal /\ queries > 1 THEN i[3] + (keys - queries) + 1 ELSE keys
      KeyRow(t, i, n) == RowAt(t, <<0, i[2] \div gqa, n - 1, 0>>)
      Query(i) == IF queries > 1 THEN RowAt(q, i)
                  ELSE Strict([d \in 1..q.dims[4] |-> q.store[i[2] * q.dims[4] + d]])
      Out(i) == LET weights == SoftmaxRow(Strict([n \in 1..Seen(i) |->
                      Times(Dot(Query(i), KeyRow(k, i, n)), Fn("rsqrt", q.dims[4]))]))
                IN  Strict([d \in 1..q.dims[4] |->
                      Dot(weights, Strict([n \in 1..Seen(i) |-> KeyRow(v, i, n)[d]]))])
      Unit(t) == t.off = 0 /\ t.strides[4] = 1
  IN  IF /\ Refused \notin {q, k, v}
         /\ q.dims[4] \in HeadDims /\ k.dims[4] = q.dims[4] /\ q.dims[2] = k.dims[2] * gqa
         /\ Unit(k) /\ Unit(v) /\ q.off = 0
         /\ queries > 1 => q.dims[4] = SteelHeadDim /\ Unit(q) /\ keys >= queries
      THEN Dense(q.dims, "BF16", Rows(q.dims, Out))
      ELSE Refused

\* The rows of src, [T, H, D] or [T, H, D, 1], into the slab from row on.
SliceUpdate(slab, src, row) ==
  LET n == src.dims[1]
      Src(i) == El(src, [a \in DOMAIN src.dims |-> IF a = 1 THEN i[1] - row
                                                   ELSE IF a < 4 THEN i[a] ELSE 0])
  IN  IF /\ src # Refused
         /\ Tail(slab.dims) = SubSeq(src.dims, 2, 3) /\ (Rank(src) = 4 => src.dims[4] = 1)
         /\ src.strides[3] = 1 /\ row + n <= slab.dims[1]
      THEN [slab EXCEPT !.store =
             Tab(slab.dims, LAMBDA i : IF i[1] \in row..(row + n - 1) THEN Src(i) ELSE El(slab, i))]
      ELSE Refused
=============================================================================
