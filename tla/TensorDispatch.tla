--------------------------- MODULE TensorDispatch ---------------------------
(***************************************************************************)
(* eval.rs: how each op node reads its inputs' storage and which kernel it *)
(* encodes.  Every operator takes the op's input tensors and returns the   *)
(* output buffer, or Refused when eval returns an error.                   *)
(***************************************************************************)
EXTENDS TensorKernels

\* An error resolving one of the inputs is the error of the dispatch.
Unless(inputs, result) == IF Refused \in inputs THEN Refused ELSE result

\* dense_input_buffer: the input itself must own storage, views do not.
DenseInput(t) == IF t.view THEN Refused ELSE t.store

\* Mutant: no view is resolved.
OwnerInput(t) == IF t.view THEN Refused ELSE t.store

\* matmul_input_bytes: a view is resolved, but must start at offset 0.
FlatInput(t) == IF t.off # 0 THEN Refused ELSE t.store

\* resolve_view_storage: the owner's buffer; t.off is the offset into it.
Storage(t) == t.store

Out(dims) == Fresh(Product(dims))

----------------------------------------------------------------------------

DispatchCopy(t) ==
  IF t.view
  THEN EncodeGCopy(Storage(t), t.off, t.strides, Out(t.dims), 0, Contiguous(t.dims), t.dims)
  ELSE EncodeVCopy(t.store, Out(t.dims))

DispatchCast(t) ==
  IF t.view THEN EncodeGeneralCopy(Storage(t), t.off, t.strides, Out(t.dims), 0, t.dims)
  ELSE EncodeVCopy(t.store, Out(t.dims))

\* The three leading axes of src go, row-major, to the slab from row offset on.
DispatchSliceUpdate(slab, src, offset) ==
  LET core == SubSeq(src.dims, 1, 3)
  IN  Unless({DenseInput(slab)},
        EncodeGCopy(Storage(src), src.off, SubSeq(src.strides, 1, 3),
                    slab.store, offset * core[2] * core[3], Contiguous(core), core))

\* Mutant: the running offset counts the last axis only.
ConcatLastAxis(parts, dims, dtype) ==
  LET Starts(i) == Total([j \in 1..(i - 1) |-> parts[j].dims[Len(parts[j].dims)]])
      Moved(dst, i) == EncodeGCopy(Storage(parts[i]), parts[i].off, parts[i].strides, dst,
                                   Starts(i), Contiguous(parts[i].dims), parts[i].dims)
      after[i \in 0..Len(parts)] ==
        IF i = 0 THEN Out(dims) ELSE Unless({after[i - 1]}, Moved(after[i - 1], i))
  IN  IF dtype \notin {"BF16", "F32"} THEN Refused
      ELSE after[Len(parts)]

\* One strided copy per part, each after the one before.
DispatchConcat(parts, dims, dtype) ==
  LET Starts(i) == Total([j \in 1..(i - 1) |-> Product(parts[j].dims)])
      Moved(dst, i) == EncodeGCopy(Storage(parts[i]), parts[i].off, parts[i].strides, dst,
                                   Starts(i), Contiguous(parts[i].dims), parts[i].dims)
      after[i \in 0..Len(parts)] ==
        IF i = 0 THEN Out(dims) ELSE Unless({after[i - 1]}, Moved(after[i - 1], i))
  IN  IF dtype \notin {"BF16", "F32"} THEN Refused
      ELSE after[Len(parts)]

DispatchBinaryVV(a, b, dims) ==
  Unless({DenseInput(a), DenseInput(b)}, EncodeVV(a.store, b.store, Out(dims)))

\* The kernels take no offset, and there is none above rank 3.
DispatchBinaryStrided(a, b, dims) ==
  IF Len(dims) \notin 1..3 \/ a.off # 0 \/ b.off # 0 THEN Refused
  ELSE EncodeG(Storage(a), a.strides, Storage(b), b.strides, Out(dims), dims)

DispatchBinary(a, b, dims, dtype) ==
  IF dtype \notin {"F32", "F16", "BF16"} THEN Refused
  ELSE IF a.view \/ b.view THEN DispatchBinaryStrided(a, b, dims)
  ELSE DispatchBinaryVV(a, b, dims)

DispatchUnary(t) == Unless({DenseInput(t)}, EncodeV(t.store, Out(t.dims)))

\* dims is the op's output shape; the kernel only sees the input's.
DispatchReduce(t, dims) == Unless({DenseInput(t)}, EncodeRowReduce(t.store, t.dims, Out(dims)))

DispatchArgReduce(t, dims) ==
  Unless({DenseInput(t)}, EncodeArgmax(t.store, Out(dims), t.dims[Rank(t)]))

DispatchGather(t, indices) ==
  LET slice == Product(Tail(t.dims))
  IN  Unless({DenseInput(t), DenseInput(indices)},
        EncodeGather(t.store, Contiguous(t.dims)[1], indices.store,
                     Out(indices.dims \o Tail(t.dims)), slice))

DispatchDequantize(w, scales, biases, dims) ==
  Unless({DenseInput(w), DenseInput(scales), DenseInput(biases)},
         EncodeDequantize(w.store, scales.store, biases.store, Out(dims)))

\* A partial rotation first copies the input into the output and rotates there;
\* a full one reads the input through its head and sequence strides.
DispatchRope(t, offset, rotary) ==
  LET d == t.dims
      dense == DispatchCopy([t EXCEPT !.view = TRUE])
      Rope(src, sHead, sSeq) ==
        EncodeRope(src, IF rotary < d[4] THEN src ELSE Out(d), offset,
                   d[1], d[2], d[3], d[4], rotary, sHead, sSeq)
  IN  IF rotary < d[4] THEN Unless({dense}, Rope(dense, d[3] * d[4], d[4]))
      ELSE Unless({FlatInput(t)}, Rope(t.store, t.strides[2], t.strides[3]))

DispatchRmsNorm(t, w, wStride) ==
  LET axis == t.dims[Rank(t)]
  IN  Unless({DenseInput(t), DenseInput(w)},
        EncodeRmsNorm(t.store, w.store, Out(t.dims), axis, Product(t.dims) \div axis, wStride))

DispatchSoftmax(t) ==
  LET axis == t.dims[Rank(t)]
  IN  Unless({DenseInput(t)},
        EncodeSoftmax(t.store, Out(t.dims), axis, Product(t.dims) \div axis))

DispatchMatmul(a, b, dims) ==
  LET lead == Rank(a) - 2
      m == a.dims[lead + 1]
      k == a.dims[lead + 2]
      n == b.dims[lead + 2]
      rows == Product(SubSeq(a.dims, 1, lead))
  IN  Unless({FlatInput(a), FlatInput(b)},
        EncodeGemm(a.store, b.store, Out(dims), m, n, k, IF rows = 0 THEN 1 ELSE rows,
                   m * k, k * n, m * n))

\* q is the weight; one row of activations takes the matrix-vector kernel.
DispatchQuantizedMatmul(q, t, dims) ==
  LET m == IF Rank(t) = 1 THEN 1
           ELSE LET lead == Product(SubSeq(t.dims, 1, Rank(t) - 2))
                IN  (IF lead = 0 THEN 1 ELSE lead) * t.dims[Rank(t) - 1]
  IN  Unless({FlatInput(t)},
        IF m = 1 THEN EncodeQmv(q, t.store, Out(dims))
                 ELSE EncodeQmm(q, t.store, Out(dims), m))

DispatchSdpaFull(q, k, v, causal) ==
  IF \/ q.off # 0 \/ k.off # 0 \/ v.off # 0
     \/ q.strides[4] # 1 \/ k.strides[4] # 1 \/ v.strides[4] # 1
  THEN Refused
  ELSE EncodeSdpaFull(Storage(q), Storage(k), Storage(v), Out(q.dims), q.dims[4],
                      q.dims[2], k.dims[2], q.dims[3], k.dims[3],
                      q.strides, k.strides, v.strides, causal)

\* Decode: k and v are read through their strides, q as if it were dense.
DispatchSdpa(q, k, v, gqa, causal) ==
  IF q.dims[3] > 1 THEN DispatchSdpaFull(q, k, v, causal)
  ELSE IF k.off # 0 \/ v.off # 0 \/ k.strides[4] # 1 \/ v.strides[4] # 1 THEN Refused
  ELSE Unless({FlatInput(q)},
         EncodeSdpaVector(q.store, Storage(k), Storage(v), Out(q.dims), q.dims[4], k.dims[3],
                          gqa, k.strides[2], k.strides[3], v.strides[2], v.strides[3]))
=============================================================================
