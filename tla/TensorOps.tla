------------------------------ MODULE TensorOps ------------------------------
(***************************************************************************)
(* The op builders of tensor.rs over two operands x and y that go through  *)
(* any chain of views and copies first.  Beside each operand the state     *)
(* keeps what it says: the values a program that ignores storage would     *)
(* find at its indices, in row-major order.  A call of an op builder       *)
(* records what the op means on those values (denoted) and the output      *)
(* buffer eval leaves (got).                                               *)
(***************************************************************************)
EXTENDS TensorDispatch

CONSTANTS
  Leaves,       \* the pairs of uploaded operands: <<dims, dtype, dims, dtype>>
  Shapes,       \* the targets of reshape and broadcast_to
  HeadDims,     \* SUPPORTED_HEAD_DIMS (64, 96, 128, 256)
  QWeight,      \* a quantized weight: [n, k, kLogical, w, scales, biases]
  RopeOffset,   \* the position rope starts at
  CallersOnly,  \* calls only as the models crate makes them (see Sdpa, QuantizedMatmul)
  MaxSteps      \* bound: view, copy and cast steps

\* Shapes are lists of sizes (shape.rs: Vec<usize>).
ASSUME OperandAssumption ==
  /\ \A p \in Leaves : p[1] \in Seq(Nat) /\ p[3] \in Seq(Nat)
  /\ Shapes \subseteq Seq(Nat)
  /\ MaxSteps \in Nat

\* A weight has sizes (quantized.rs: usize).
ASSUME WeightAssumption == QWeight.n \in Nat /\ QWeight.k \in Nat /\ QWeight.kLogical \in Nat

\* An error is neither an axis nor a buffer.
ASSUME RefusedAssumption == Refused \notin Nat /\ Refused \notin Seq(Seq(Int))

VARIABLES arg, says, steps, last
vars == <<arg, says, steps, last>>

Floats == {"F32", "F16", "BF16"}
Arg == {"x", "y"}
x == arg["x"]
y == arg["y"]

None == [op |-> "none", denoted |-> <<>>, got |-> <<>>]

Leaf(dims, dtype, Label(_)) ==
  [Dense(dims, dtype, [i \in 1..Product(dims) |-> <<Label(i)>>]) EXCEPT !.leaf = TRUE]

Init ==
  /\ \E p \in Leaves :
       arg = [x |-> Leaf(p[1], p[2], LAMBDA i : i),
              y |-> Leaf(p[3], p[4], LAMBDA i : IF p[4] = "U32" THEN Product(p[3]) - i
                                                ELSE 100 + i)]
  /\ says = [a \in Arg |-> arg[a].store]
  /\ steps = 0
  /\ last = None

----------------------------------------------------------------------------
\* Values by multi-index.

At(values, dims, idx) == values[Flatten(dims, idx) + 1]
Tabulate(dims, F(_)) == [k \in 1..Product(dims) |-> F(Unflatten(dims, k - 1))]
Dims(a) == arg[a].dims
Says(a, idx) == At(says[a], Dims(a), idx)
LastRow(a, idx) ==   \* the row of the last axis that idx is in
  InTurn([j \in 1..Dims(a)[Len(idx)] |-> Says(a, [idx EXCEPT ![Len(idx)] = j - 1])])

Lead(dims) == SubSeq(dims, 1, Len(dims) - 1)   \* all axes but the last
Perms(n) == {p \in [1..n -> 1..n] : {p[i] : i \in 1..n} = 1..n}

----------------------------------------------------------------------------
\* Views, copies and casts replace the operand.

\* The output of an op built last goes nowhere: only an in-place update, whose
\* output is an operand, is followed by further steps.
Open == last.op \in {"none", "slice_update"}

Become(a, t, values) ==
  /\ Open
  /\ t # Refused
  /\ steps < MaxSteps
  /\ arg' = [arg EXCEPT ![a] = t]
  /\ says' = [says EXCEPT ![a] = values]
  /\ steps' = steps + 1
  /\ last' = None

ReshapeArg(a) == \E dims \in Shapes : Become(a, Reshape(arg[a], dims), says[a])

PermuteArg(a) ==
  \E p \in Perms(Rank(arg[a])) :
    LET t == Permute(arg[a], p)
    IN  Become(a, t, Tabulate(t.dims, LAMBDA i : Says(a, [c \in DOMAIN p |->
                                                    i[CHOOSE b \in DOMAIN p : p[b] = c]])))

SliceArg(a) ==
  \E c \in 1..Rank(arg[a]) : \E s \in 0..Dims(a)[c] : \E e \in s..Dims(a)[c] :
    LET t == Slice(arg[a], [b \in 1..Rank(arg[a]) |-> IF b = c THEN <<s, e>> ELSE <<0, Dims(a)[b]>>])
    IN  /\ s < e
        /\ Become(a, t, Tabulate(t.dims, LAMBDA i : Says(a, [i EXCEPT ![c] = @ + s])))

Broadcasted(values, from, to) ==
  Tabulate(to, LAMBDA i : At(values, from, [b \in DOMAIN from |->
                  IF from[b] = 1 THEN 0 ELSE i[b + Len(to) - Len(from)]]))

BroadcastArg(a) ==
  \E dims \in Shapes : LET t == BroadcastTo(arg[a], dims)
                       IN  t # Refused /\ Become(a, t, Broadcasted(says[a], Dims(a), dims))

\* An op in place of an operand: its output buffer, or nothing when eval fails.
Computed(dims, dtype, buffer) == IF buffer = Refused THEN Refused ELSE Dense(dims, dtype, buffer)

Copied(t) == IF CopyElides(t) THEN Elided(t) ELSE Computed(t.dims, t.dtype, DispatchCopy(t))

CopyArg(a) == Become(a, Copied(arg[a]), says[a])

Casts == {<<"BF16", "F32">>, <<"F32", "BF16">>}

Casted(t, dtype) ==
  IF dtype = t.dtype THEN t
  ELSE IF <<t.dtype, dtype>> \notin Casts THEN Refused
  ELSE Computed(t.dims, dtype, DispatchCast(t))

CastArg(a) == \E dtype \in {"F32", "BF16"} : dtype # arg[a].dtype
                                              /\ Become(a, Casted(arg[a], dtype), says[a])

----------------------------------------------------------------------------
\* The op builders.

\* A call its builder rejects returns an error and leaves everything as it was.
Call(op, accepted, denoted, got) ==
  /\ Open
  /\ accepted
  /\ last' = [op |-> op, denoted |-> denoted, got |-> got]
  /\ UNCHANGED <<arg, says, steps>>

\* What unary, reduce, argmax, softmax and rms_norm ask of their input.
OwnsDense(t) == ~t.view /\ IsContiguous(t)

Copy == Call("copy", TRUE, says["x"], IF CopyElides(x) THEN Fetch(Elided(x), CpuIter(Elided(x)))
                                      ELSE DispatchCopy(x))

Cast == \E dtype \in Floats :
  Call("cast", <<x.dtype, dtype>> \in Casts, says["x"], DispatchCast(x))

\* Each side is broadcast to the output shape if it does not have it already.
Binary ==
  LET dims == BroadcastShape(x.dims, y.dims)
      Side(t) == IF t.dims = dims THEN t ELSE BroadcastTo(t, dims)
  IN  Call("binary", x.dtype = y.dtype /\ dims # Refused,
           Tabulate(dims, LAMBDA i : LET k == Flatten(dims, i) + 1
                                     IN  Broadcasted(says["x"], x.dims, dims)[k]
                                           \o Broadcasted(says["y"], y.dims, dims)[k]),
           DispatchBinary(Side(x), Side(y), dims, x.dtype))

Unary == Call("unary", x.dtype \in Floats /\ OwnsDense(x), says["x"], DispatchUnary(x))

Kept(dims, keep) == IF keep THEN [dims EXCEPT ![Len(dims)] = 1] ELSE Lead(dims)

\* Reductions of the last axis, which may be named from either end.
Reduce == \E axis \in -1..3, keep \in BOOLEAN :
  Call("reduce", x.dtype \in Floats /\ OwnsDense(x) /\ ResolveAxis(x, axis) = Rank(x),
       Tabulate(Kept(x.dims, TRUE), LAMBDA i : LastRow("x", i)),
       DispatchReduce(x, Kept(x.dims, keep)))

\* mean is a sum, then a product with a tensor [1] that holds 1/n.
Mean == \E keep \in BOOLEAN :
  LET summed == Dense(Kept(x.dims, keep), x.dtype, DispatchReduce(x, Kept(x.dims, keep)))
      divisor == Dense(<<1>>, x.dtype, <<<<500>>>>)
      dims == BroadcastShape(summed.dims, <<1>>)
      Side(t) == IF t.dims = dims THEN t ELSE BroadcastTo(t, dims)
  IN  Call("mean", Rank(x) > 0 /\ x.dtype \in Floats /\ OwnsDense(x),
           Tabulate(Kept(x.dims, TRUE), LAMBDA i : LastRow("x", i) \o <<500>>),
           DispatchBinary(Side(summed), Side(divisor), dims, x.dtype))

Argmax == \E axis \in -1..3 :
  Call("argmax", x.dtype = "BF16" /\ OwnsDense(x) /\ ResolveAxis(x, axis) = Rank(x),
       Tabulate(Kept(x.dims, TRUE), LAMBDA i : LastRow("x", i)),
       DispatchArgReduce(x, Lead(x.dims)))

\* That the indices are rows of the table is left to the caller.
Gather ==
  /\ Rank(x) > 0 /\ Rank(y) = 1 /\ y.dtype = "U32"
  /\ \A k \in DOMAIN says["y"] : says["y"][k][1] < x.dims[1]
  /\ Call("gather", IsContiguous(x) /\ x.dtype \in {"BF16", "U32"} /\ IsContiguous(y),
          Tabulate(y.dims \o Tail(x.dims),
                   LAMBDA i : Says("x", <<Says("y", <<i[1]>>)[1]>> \o Tail(i))),
          DispatchGather(x, y))

Third(t) == [t EXCEPT !.store = [i \in DOMAIN t.store |->
                                   [j \in DOMAIN t.store[i] |-> t.store[i][j] + 50]]]
Plus50(value) == [j \in DOMAIN value |-> value[j] + 50]

\* x holds the packed words, y the scales, its twin the biases.  The builder
\* leaves it to its caller that their shapes agree.
Lanes == PerByte * BytesPerWord
DequantizeAffine ==
  LET dims == [x.dims EXCEPT ![Rank(x)] = @ * Lanes]
      Group(i) == Says("y", [i EXCEPT ![Rank(x)] = @ \div GroupSize])
  IN  /\ Rank(x) > 0 /\ dims = [y.dims EXCEPT ![Rank(y)] = @ * GroupSize]
      /\ Call("dequantize", /\ x.dtype = "U32" /\ y.dtype = "BF16"
                            /\ IsContiguous(x) /\ IsContiguous(y),
           Tabulate(dims, LAMBDA i : Says("x", [i EXCEPT ![Rank(x)] = @ \div Lanes])
                            \o <<i[Rank(x)] % Lanes>> \o Group(i) \o Plus50(Group(i))),
           DispatchDequantize(x, y, Third(y), dims))

RopeAccepts(t, rotary) ==
  /\ t.dtype = "BF16" /\ Rank(t) = 4 /\ t.off = 0 /\ t.strides[4] = 1
  /\ t.dims[1] > 1 => t.strides[1] = t.dims[2] * t.strides[2]
  /\ t.dims[4] > 0 /\ t.dims[4] % 2 = 0
  /\ rotary \in 1..t.dims[4] /\ rotary % 2 = 0

Rope == \E rotary \in 1..4 :
  LET half == rotary \div 2
      Turned(i) ==
        LET j == i[4] % half
        IN  Rotated(IF i[4] < half THEN 1 ELSE 2, RopeOffset + i[3], j,
                    Says("x", [i EXCEPT ![4] = j]), Says("x", [i EXCEPT ![4] = j + half]))
  IN  Call("rope", RopeAccepts(x, rotary),
           Tabulate(x.dims, LAMBDA i : IF i[4] < rotary THEN Turned(i) ELSE Says("x", i)),
           DispatchRope(x, RopeOffset, rotary))

\* With gamma y, or with the device's single 1.
RmsNorm == \E weighted \in BOOLEAN :
  LET w == IF weighted THEN y ELSE Dense(<<1>>, "BF16", <<<<1>>>>)
  IN  Call("rms_norm", /\ OwnsDense(x) /\ x.dtype = "BF16" /\ Rank(x) > 0
                       /\ weighted => OwnsDense(y) /\ y.dtype = "BF16" /\ y.dims = <<x.dims[Rank(x)]>>,
           Tabulate(x.dims, LAMBDA i : <<i[Rank(x)]>> \o LastRow("x", i)
                              \o (IF weighted THEN Says("y", <<i[Rank(x)]>>) ELSE <<1>>)),
           DispatchRmsNorm(x, w, IF weighted THEN 1 ELSE 0))

Softmax ==
  Call("softmax", /\ OwnsDense(x) /\ x.dtype = "BF16" /\ Rank(x) > 0
                  /\ x.dims[Rank(x)] \in 1..SoftmaxLimit,
       Tabulate(x.dims, LAMBDA i : <<i[Rank(x)]>> \o LastRow("x", i)),
       DispatchSoftmax(x))

MatmulShapes(a, b) ==
  LET lead == Len(a) - 2
  IN  /\ lead >= 0 /\ Len(a) = Len(b)
      /\ SubSeq(a, 1, lead) = SubSeq(b, 1, lead)
      /\ a[lead + 2] = b[lead + 1]
      /\ 0 \notin {a[lead + 1], a[lead + 2], b[lead + 2]}

Matmul ==
  LET lead == Rank(x) - 2
      dims == SubSeq(x.dims, 1, lead + 1) \o <<y.dims[lead + 2]>>
      Cell(i) == InTurn([p \in 1..x.dims[lead + 2] |->
                   Says("x", [i EXCEPT ![lead + 2] = p - 1]) \o Says("y", [i EXCEPT ![lead + 1] = p - 1])])
  IN  Call("matmul", /\ x.dtype = "BF16" /\ y.dtype = "BF16"
                     /\ IsContiguous(x) /\ IsContiguous(y) /\ MatmulShapes(x.dims, y.dims),
           Tabulate(dims, Cell), DispatchMatmul(x, y, dims))

\* The models hand a padded weight an activation that fills its storage.
QuantizedMatmul ==
  LET dims == Lead(x.dims) \o <<QWeight.n>>
      Cell(i) == InTurn([p \in 1..QWeight.kLogical |->
                   Says("x", [i EXCEPT ![Len(i)] = p - 1])
                     \o Weight(QWeight.w, QWeight.scales, QWeight.biases, i[Len(i)] * QWeight.k + p - 1)])
  IN  /\ CallersOnly => Len(x.store) = Product(x.dims)
      /\ Call("quantized_matmul", /\ x.dtype = "BF16" /\ IsContiguous(x) /\ Rank(x) > 0
                                  /\ x.dims[Rank(x)] = QWeight.kLogical,
              Tabulate(dims, Cell), DispatchQuantizedMatmul(QWeight, x, dims))

SdpaAccepts(q, k, gqa) ==
  /\ Rank(q) = 4 /\ Rank(k) = 4 /\ q.dtype = "BF16" /\ k.dtype = "BF16"
  /\ q.dims[4] \in HeadDims /\ k.dims[4] = q.dims[4]
  /\ gqa > 0 /\ q.dims[2] = k.dims[2] * gqa
  /\ q.dims[1] = 1 /\ k.dims[1] = 1
  /\ q.dims[3] > 0
  /\ q.dims[3] > 1 => q.dims[4] = SteelHeadDim

\* x asks, y holds the keys and its twin the values.  The models hand decode a
\* q that is the dense output of rope.
Sdpa == \E gqa \in 1..2, causal \in BOOLEAN :
  LET Seen(i) == IF causal /\ x.dims[3] > 1 THEN i[3] + (y.dims[3] - x.dims[3]) + 1 ELSE y.dims[3]
      Key(i, n) == <<0, i[2] \div gqa, n - 1, 0>>
      Attended(i) == LastRow("x", i)
                       \o InTurn([n \in 1..Seen(i) |->
                            LastRow("y", Key(i, n)) \o Plus50(Says("y", [Key(i, n) EXCEPT ![4] = i[4]]))])
  IN  /\ CallersOnly /\ Rank(x) = 4 => x.dims[3] > 1 \/ IsContiguousIgnoringUnits(x)
      /\ Call("sdpa", SdpaAccepts(x, y, gqa), Tabulate(x.dims, Attended),
              DispatchSdpa(x, y, Third(y), gqa, causal))

ConcatAccepts(a, b, axis) ==
  /\ axis \in 1..Rank(a) /\ Rank(a) = Rank(b) /\ a.dtype = b.dtype
  /\ \A c \in (1..Rank(a)) \ {axis} : a.dims[c] = b.dims[c]
  /\ Product(SubSeq(a.dims, 1, axis - 1)) = 1

Concat == \E axis \in 1..4 :
  LET dims == [x.dims EXCEPT ![axis] = @ + y.dims[axis]]
      Part(i) == IF i[axis] < x.dims[axis] THEN Says("x", i)
                 ELSE Says("y", [i EXCEPT ![axis] = @ - x.dims[axis]])
  IN  Call("concat", ConcatAccepts(x, y, axis), Tabulate(dims, Part),
           DispatchConcat(<<x, y>>, dims, x.dtype))

SliceUpdateAccepts(slab, src, offset) ==
  /\ slab.leaf /\ slab.dtype = "BF16" /\ src.dtype = "BF16"
  /\ Rank(slab) = 3 /\ (Rank(src) = 3 \/ (Rank(src) = 4 /\ src.dims[4] = 1))
  /\ Tail(slab.dims) = SubSeq(src.dims, 2, 3)
  /\ src.strides[3] = 1
  /\ offset + src.dims[1] <= slab.dims[1]

\* Writes the rows of y into x in place: the slab itself changes.
SliceUpdate == \E offset \in 0..2 :
  LET Row0(i) == <<i[1] - offset>> \o Tail(i) \o [j \in 1..(Rank(y) - 3) |-> 0]
      updated == Tabulate(x.dims, LAMBDA i :
                   IF i[1] \in offset..(offset + y.dims[1] - 1) THEN Says("y", Row0(i))
                   ELSE Says("x", i))
      buffer == DispatchSliceUpdate(x, y, offset)
  IN  /\ Open
      /\ SliceUpdateAccepts(x, y, offset)
      /\ buffer # Refused
      /\ steps < MaxSteps
      /\ arg' = [arg EXCEPT !["x"].store = buffer]
      /\ says' = [says EXCEPT !["x"] = updated]
      /\ steps' = steps + 1
      /\ last' = [op |-> "slice_update", denoted |-> updated, got |-> buffer]

Next ==
  \/ \E a \in Arg : \/ ReshapeArg(a) \/ PermuteArg(a) \/ SliceArg(a) \/ BroadcastArg(a)
                    \/ CopyArg(a) \/ CastArg(a)
  \/ Copy \/ Cast \/ Binary \/ Unary \/ Reduce \/ Mean \/ Argmax \/ Gather \/ DequantizeAffine
  \/ Rope \/ RmsNorm \/ Softmax \/ Matmul \/ QuantizedMatmul \/ Sdpa \/ Concat \/ SliceUpdate

Spec == Init /\ [][Next]_vars

----------------------------------------------------------------------------
\* Every element of an operand lies in its storage, whatever views were
\* stacked; only views are strided or offset.
TypeOK ==
  /\ steps \in 0..MaxSteps
  /\ \A a \in Arg : /\ Len(arg[a].dims) = Len(arg[a].strides)
                    /\ LET addresses == CpuIter(arg[a])
                       IN  \A k \in DOMAIN addresses : addresses[k] \in 0..(Len(arg[a].store) - 1)
                    /\ ~arg[a].view => arg[a].off = 0 /\ IsContiguous(arg[a])

\* However an operand came about, cpu_iter yields its values in row-major
\* order, and cpu_bytes lends those same bytes or nothing.
HostReadsTensor ==
  \A a \in Arg : LET addresses == CpuIter(arg[a])
                 IN  /\ Fetch(arg[a], addresses) = says[a]
                     /\ CpuBytes(arg[a]) \in {Refused, addresses}

\* An op the builder accepts is computed right or refused: no chain of views
\* makes a kernel read other elements than the ones its operands denote.
DispatchComputes == last.got \in {last.denoted, Refused}

\* What eval refuses although the builder accepted it, op by op.
Gap ==
  CASE last.op \in {"copy", "cast"} -> x.view /\ Rank(x) \notin 1..(IF last.op = "copy" THEN 4 ELSE 3)
    [] last.op \in {"binary", "mean"} -> \/ Rank(x) \notin 1..3 \/ Rank(y) \notin 1..3
                                         \/ x.off # 0 \/ y.off # 0 \/ x.dtype = "U32"
    [] last.op = "argmax" -> Product(Lead(x.dims)) # 1
    [] last.op \in {"gather", "dequantize"} -> x.view \/ y.view
    [] last.op = "matmul" -> x.off # 0 \/ y.off # 0
    [] last.op = "quantized_matmul" -> x.off # 0 \/ (QWeight.kLogical < QWeight.k /\ Rank(x) > 1)
    [] last.op = "sdpa" -> \/ x.off # 0 \/ y.off # 0 \/ x.strides[4] # 1 \/ y.strides[4] # 1
                           \/ y.dims[3] < x.dims[3] \/ Len(x.store) < Product(x.dims)
    [] last.op = "rope" -> Len(x.store) < Product(x.dims)
    [] last.op = "concat" -> x.dtype \notin {"BF16", "F32"}
    [] OTHER -> FALSE

\* Outside those gaps an op that was built runs.
RefusalsKnown == last.got = Refused => Gap

\* sdpa's decode path reads q as a dense [1, H, 1, D] (eval.rs: "Q is dense").
DecodeReadsDenseQ ==
  last.op = "sdpa" /\ last.got # Refused /\ x.dims[3] = 1 => IsContiguousIgnoringUnits(x)
=============================================================================
