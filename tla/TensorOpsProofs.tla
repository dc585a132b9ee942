--------------------------- MODULE TensorOpsProofs ---------------------------
(***************************************************************************)
(* Theorems about ops (TensorOps): on operands that hold what they say,    *)
(* every op a dispatcher accepts computes what the op denotes, whatever    *)
(* views its operands are.  One group of lemmas per op; the last section   *)
(* joins them.                                                             *)
(***************************************************************************)
EXTENDS TensorViewsProofs

----------------------------------------------------------------------------
\* What the ops compute.

\* A call is right if its buffer is what the op denotes, whenever it accepts.
LEMMA CallComputes ==
  ASSUME NEW op, NEW accepted, NEW denoted, NEW got, Call(op, accepted, denoted, got),
         accepted => got \in {denoted, Refused}
  PROVE  DispatchComputes'
<1>1. accepted /\ last' = [op |-> op, denoted |-> denoted, got |-> got]
  BY DEF Call
<1>2. got \in {denoted, Refused}
  BY <1>1
<1>3. last'.denoted = denoted /\ last'.got = got
  BY <1>1
<1>4. QED
  BY <1>2, <1>3, Zenon DEF DispatchComputes

\* What an encoder that needs owned inputs makes of one.
LEMMA UnlessRefused ==
  ASSUME NEW t, NEW result, Unless({DenseInput(t)}, result) # Refused
  PROVE  ~t.view /\ Unless({DenseInput(t)}, result) = result
BY DEF Unless, DenseInput

\* copy.
LEMMA CopyCall ==
  ASSUME IInv, Copy
  PROVE  DispatchComputes'
<1>1. PICK t, v : t = x /\ v = says["x"]
  OBVIOUS
<1>2. Holds(t, v)
  BY <1>1, OperandFacts DEF x, Arg
<1>3. PICK got : got = IF CopyElides(t) THEN Fetch(Elided(t), CpuIter(Elided(t))) ELSE DispatchCopy(t)
  OBVIOUS
<1>4. Call("copy", TRUE, v, got)
  BY <1>1, <1>3 DEF Copy
<1>5. got \in {v, Refused}
  <2>1. CASE CopyElides(t)
    <3>1. Holds(Elided(t), v)
      BY <1>2, <2>1, ElidedHolds
    <3>2. Fetch(Elided(t), CpuIter(Elided(t))) = v
      BY <3>1, HostReads
    <3>3. QED
      BY <1>3, <2>1, <3>2
  <2>2. CASE ~CopyElides(t)
    <3>1. DispatchCopy(t) = v \/ DispatchCopy(t) = Refused
      BY <1>2, CopyComputes
    <3>2. QED
      BY <1>3, <2>2, <3>1
  <2>3. QED
    BY <2>1, <2>2
<1>6. QED
  BY <1>4, <1>5, CallComputes

\* cast.
LEMMA CastCall ==
  ASSUME IInv, Cast
  PROVE  DispatchComputes'
<1>1. PICK t, v : t = x /\ v = says["x"]
  OBVIOUS
<1>2. Holds(t, v)
  BY <1>1, OperandFacts DEF x, Arg
<1>3. PICK dtype : Call("cast", <<t.dtype, dtype>> \in Casts, v, DispatchCast(t))
  BY <1>1 DEF Cast
<1>4. DispatchCast(t) \in {v, Refused}
  BY <1>2, CastComputes
<1>5. QED
  BY <1>3, <1>4, CallComputes

\* The unary ops.
LEMMA UnaryCall ==
  ASSUME IInv, Unary
  PROVE  DispatchComputes'
<1>1. PICK t, v : t = x /\ v = says["x"]
  OBVIOUS
<1>2. Holds(t, v)
  BY <1>1, OperandFacts DEF x, Arg
<1>3. PICK got : got = DispatchUnary(t)
  OBVIOUS
<1>4. PICK accepted : Call("unary", accepted, v, got)
  BY <1>1, <1>3 DEF Unary
<1>5. ASSUME got # Refused PROVE got = v
  <2>1. ~t.view /\ got = EncodeV(t.store, Out(t.dims))
    BY <1>3, <1>5, UnlessRefused DEF DispatchUnary
  <2>2. t.store = v
    BY <1>2, <2>1, OwnerFlat
  <2>3. QED
    BY <1>5, <2>1, <2>2 DEF EncodeV
<1>6. got \in {v, Refused}
  BY <1>5
<1>7. QED
  BY <1>4, <1>6, CallComputes

\* The row of an operand that LastRow names.
LEMMA LastRowIs ==
  ASSUME IInv, NEW a \in Arg, Flat(arg[a], says[a]),
         NEW idx, NEW u, NEW head, NEW n, InRow(idx, u, head, arg[a].dims, n), Len(idx) = n
  PROVE  LastRow(a, idx) = Row(arg[a].store, Flatten(head, u) * arg[a].dims[n], arg[a].dims[n])
<1>1. PICK t, v : t = arg[a] /\ v = says[a]
  OBVIOUS
<1>2. PICK start : start = Flatten(head, u) * t.dims[n]
  OBVIOUS
<1>3. Row(t.store, start, t.dims[n]) = RowOf(v, t.dims, idx, n)
  <2>1. Flat(t, v) /\ InRow(idx, u, head, t.dims, n)
    BY <1>1, Zenon
  <2>2. QED
    BY ONLY <1>2, <2>1, FlatRow
<1>4. \A i : Says(a, i) = ValueAt(v, t.dims, i)
  BY <1>1, OperandFacts
<1>5. LastRow(a, idx) = InTurn([j \in 1..Dims(a)[n] |-> Says(a, [idx EXCEPT ![n] = j - 1])])
  BY DEF LastRow
<1>6. Dims(a) = t.dims
  BY <1>1 DEF Dims
<1>7. [j \in 1..t.dims[n] |-> Says(a, [idx EXCEPT ![n] = j - 1])]
        = [j \in 1..t.dims[n] |-> ValueAt(v, t.dims, [idx EXCEPT ![n] = j - 1])]
  BY <1>4, Zenon
<1>8. QED
  BY <1>1, <1>2, <1>3, <1>5, <1>6, <1>7, Zenon DEF RowOf

\* dims and out differ in their last axis only.
SameRows(head, dims, out, n) == AllButLast(head, dims, n) /\ AllButLast(head, out, n)

\* k is the position of an index of out.
Within(k, out) == k \in Nat /\ k < Product(out)

\* The row of an operand at the k-th index of a shape with the same rows.
LEMMA RowAt ==
  ASSUME IInv, NEW a \in Arg, Flat(arg[a], says[a]),
         NEW head, NEW out, NEW n, SameRows(head, arg[a].dims, out, n),
         NEW k, Within(k, out)
  PROVE  LastRow(a, Unflatten(out, k))
           = Row(arg[a].store, (k \div out[n]) * arg[a].dims[n], arg[a].dims[n])
<1>0. PICK idx : idx = Unflatten(out, k) /\ k \in Nat /\ k < Product(out)
  BY DEF Within
<1>1. AllButLast(head, out, n) /\ AllButLast(head, arg[a].dims, n)
  BY DEF SameRows
<1>2. Len(idx) = n
  BY <1>0, <1>1, IndexRow
<1>3. PICK u \in Indices(head) : Starts(u, idx, n - 1, n) /\ Flatten(head, u) = k \div out[n]
  BY <1>0, <1>1, IndexRow
<1>4. InRow(idx, u, head, arg[a].dims, n)
  BY <1>1, <1>3 DEF InRow
<1>5. LastRow(a, idx) = Row(arg[a].store, Flatten(head, u) * arg[a].dims[n], arg[a].dims[n])
  BY <1>2, <1>4, LastRowIs
<1>6. QED
  BY <1>0, <1>3, <1>5, Zenon

\* out is dims with another last axis.
WithLast(out, dims, n, d) == d \in Nat /\ out = [dims EXCEPT ![n] = d]

\* It has the same rows.
LEMMA LastAxisIs ==
  ASSUME NEW head, NEW dims, NEW n, AllButLast(head, dims, n),
         NEW d, NEW out, WithLast(out, dims, n, d)
  PROVE  SameRows(head, dims, out, n) /\ out[n] = d
<1>0. d \in Nat /\ out = [dims EXCEPT ![n] = d]
  BY DEF WithLast
<1>1. PICK m \in Nat : m = n /\ m >= 1 /\ m - 1 \in Nat
  BY RowFacts
<1>2. dims \in [1..m -> Nat]
  BY <1>1, RowFacts
<1>3. PICK l \in Nat : l = m - 1
  BY <1>1
<1>4. /\ head \in [1..l -> Nat]
      /\ \A a \in 1..l : head[a] = dims[a]
  BY <1>1, <1>3, RowFacts
<1>5. m \in 1..m /\ \A a \in 1..l : a \in 1..m /\ a # m
  BY <1>1, <1>3
<1>6. out = [dims EXCEPT ![m] = d]
  BY <1>0, <1>1
<1>7. out \in [1..m -> Nat] /\ out[m] = d /\ \A a \in 1..l : out[a] = dims[a]
  BY <1>0, <1>2, <1>5, <1>6
<1>8. out \in Seq(Nat) /\ Len(out) = m
  BY ONLY m \in Nat, <1>7
<1>9. SubSeq(out, 1, l) = [a \in 1..l |-> out[a]]
  BY ONLY m \in Nat, l \in Nat, <1>3, <1>8
<1>10. head = [a \in 1..l |-> out[a]]
  BY <1>4, <1>7
<1>11. head = SubSeq(out, 1, n - 1)
  BY <1>1, <1>3, <1>9, <1>10
<1>12. QED
  BY <1>1, <1>7, <1>8, <1>11 DEF SameRows, AllButLast

\* The leading axes of a shape.
LEMMA LeadIs ==
  ASSUME NEW dims \in Seq(Nat), dims # <<>>
  PROVE  AllButLast(Lead(dims), dims, Len(dims))
<1>1. Len(dims) \in Nat /\ Len(dims) # 0
  OBVIOUS
<1>2. QED
  BY <1>1 DEF AllButLast, Lead

\* The shape of a reduction.
LEMMA KeptType ==
  ASSUME NEW dims \in Seq(Nat), dims # <<>>, NEW keep \in BOOLEAN
  PROVE  Kept(dims, keep) \in Seq(Nat) /\ Product(Kept(dims, keep)) = Product(Lead(dims))
<1>1. PICK n \in Nat : n = Len(dims)
  OBVIOUS
<1>2. PICK head : head = Lead(dims)
  OBVIOUS
<1>3. AllButLast(head, dims, n)
  BY <1>1, <1>2, LeadIs
<1>4. CASE keep
  <2>1. PICK out : out = [dims EXCEPT ![n] = 1] /\ WithLast(out, dims, n, 1)
    BY DEF WithLast
  <2>2. SameRows(head, dims, out, n)
    BY <1>3, <2>1, LastAxisIs
  <2>3. out \in Seq(Nat)
    BY <2>2 DEF SameRows, AllButLast
  <2>4. AllButLast(head, out, n)
    BY <2>2 DEF SameRows
  <2>5. PICK rows \in Nat : rows = Product(head) /\ Product(out) = rows * out[n]
    BY <2>4, RowFacts, ZenonT(60)
  <2>6. out[n] = 1
    <3>1. PICK m \in Nat : m = n /\ m >= 1
      BY <1>3, RowFacts
    <3>2. dims \in [1..n -> Nat]
      BY <1>3, RowFacts
    <3>3. dims \in [1..m -> Nat] /\ m \in 1..m
      BY <3>1, <3>2
    <3>4. QED
      BY ONLY <2>1, <3>1, <3>3
  <2>7. Product(out) = Product(head)
    BY ONLY <2>5, <2>6
  <2>8. QED
    BY <1>1, <1>2, <1>4, <2>1, <2>3, <2>7, Zenon DEF Kept
<1>5. CASE ~keep
  <2>1. head \in Seq(Nat)
    BY <1>3, RowFacts
  <2>2. QED
    BY <1>2, <1>5, <2>1, Zenon DEF Kept
<1>6. QED
  BY <1>4, <1>5

\* The rows a reduction of the last axis takes one by one.
LEMMA KeptRows ==
  ASSUME IInv, NEW a \in Arg, Flat(arg[a], says[a]), arg[a].dims # <<>>,
         NEW out, out = Kept(arg[a].dims, TRUE)
  PROVE  /\ Product(out) = Product(Lead(arg[a].dims)) /\ Product(out) \in Nat
         /\ \A k \in 1..Product(out) :
              LastRow(a, Unflatten(out, k - 1))
                = Row(arg[a].store, (k - 1) * Dim0(arg[a].dims), Dim0(arg[a].dims))
<1>1. PICK dims \in Seq(Nat), n \in Nat : dims = arg[a].dims /\ n = Len(dims)
  BY OperandFacts
<1>2. PICK head : head = Lead(dims)
  OBVIOUS
<1>3. AllButLast(head, dims, n)
  BY <1>1, <1>2, LeadIs
<1>4. out = [dims EXCEPT ![n] = 1]
  BY <1>1 DEF Kept
<1>5. SameRows(head, dims, out, n) /\ out[n] = 1
  <2>1. WithLast(out, dims, n, 1)
    BY <1>4 DEF WithLast
  <2>2. SameRows(head, dims, out, n)
    BY <1>3, <2>1, LastAxisIs
  <2>3. out[n] = 1
    <3>1. PICK m \in Nat : m = n /\ m >= 1
      BY <1>3, RowFacts
    <3>2. dims \in [1..m -> Nat] /\ m \in 1..m
      BY <1>3, <3>1, RowFacts, SMTT(40)
    <3>3. QED
      BY ONLY <1>4, <3>1, <3>2
  <2>4. QED
    BY <2>2, <2>3
<1>6. AllButLast(head, out, n)
  BY <1>5 DEF SameRows
<1>7. PICK rows \in Nat : rows = Product(head) /\ Product(out) = rows * out[n]
  BY <1>6, RowFacts, ZenonT(60)
<1>8. Product(out) = Product(head)
  BY ONLY <1>5, <1>7
<1>9. PICK p \in Nat : p = Product(out)
  BY <1>7, <1>8
<1>10. ASSUME NEW k \in 1..p
       PROVE  LastRow(a, Unflatten(out, k - 1)) = Row(arg[a].store, (k - 1) * dims[n], dims[n])
  <2>1. PICK j \in Nat : j = k - 1 /\ j < p
    BY ONLY p \in Nat, k \in 1..p
  <2>2. Within(j, out)
    BY <1>9, <2>1 DEF Within
  <2>3. SameRows(head, arg[a].dims, out, n)
    BY <1>1, <1>5
  <2>4. LastRow(a, Unflatten(out, j))
          = Row(arg[a].store, (j \div out[n]) * arg[a].dims[n], arg[a].dims[n])
    BY <2>2, <2>3, RowAt
  <2>5. j \div 1 = j
    BY <2>1
  <2>6. QED
    BY <1>1, <1>5, <2>1, <2>4, <2>5, Zenon
<1>11. QED
  BY <1>1, <1>2, <1>8, <1>9, <1>10 DEF Dim0

\* got holds what LastRow says at each index of out.
Rowwise(got, a, out) == got = [k \in 1..Product(out) |-> LastRow(a, Unflatten(out, k - 1))]

\* An axis that resolves is one of the axes.
LEMMA AxisResolves ==
  ASSUME NEW t, t.dims \in Seq(Nat), NEW axis \in Int, ResolveAxis(t, axis) = Rank(t)
  PROVE  t.dims # <<>>
<1>1. SUFFICES ASSUME t.dims = <<>> PROVE FALSE
  OBVIOUS
<1>2. Rank(t) = 0
  BY <1>1 DEF Rank
<1>3. ResolveAxis(t, axis) = Refused
  BY <1>2 DEF ResolveAxis
<1>4. QED
  BY <1>2, <1>3, RefusedAssumption

\* The sums, minima and maxima of the last axis of a tensor that owns its storage.
LEMMA ReduceComputes ==
  ASSUME IInv, ~x.view, x.dims # <<>>,
         NEW dims \in Seq(Nat), Product(dims) = Product(Lead(x.dims)),
         NEW got, got = DispatchReduce(x, dims), NEW out, out = Kept(x.dims, TRUE)
  PROVE  /\ Product(dims) = Product(out) /\ Rowwise(got, "x", out)
         /\ got \in [1..Product(dims) -> Value]
<1>1. "x" \in Arg /\ x = arg["x"]
  BY DEF Arg, x
<1>2. PICK t, v : t = x /\ v = says["x"]
  OBVIOUS
<1>3. Holds(t, v) /\ t.dims \in Seq(Nat) /\ ~t.view
  BY <1>1, <1>2, OperandFacts
<1>4. got = EncodeRowReduce(t.store, t.dims, Out(dims))
  <2>1. Refused # t.store
    BY <1>3, RefusedAssumption DEF Holds, WellFormed, Value
  <2>2. QED
    BY <1>2, <1>3, <2>1, Zenon DEF DispatchReduce, Unless, DenseInput
<1>5. Flat(arg["x"], says["x"]) /\ Len(t.store) = Product(t.dims)
  BY <1>1, <1>2, <1>3, OwnerFlat
<1>6. PICK p \in Nat : p = Product(dims) /\ DOMAIN Out(dims) = 1..p /\ Len(Out(dims)) = p
  BY OutFacts
<1>7. got = [r \in 1..p |-> Row(t.store, (r - 1) * Dim0(t.dims), Dim0(t.dims))]
  <2>1. PICK head, n : head = Lead(t.dims) /\ n = Len(t.dims)
    OBVIOUS
  <2>2. AllButLast(head, t.dims, n)
    BY <1>2, <1>3, <2>1, LeadIs
  <2>3. Product(t.dims) = Product(head) * t.dims[n]
    BY <2>2, RowFacts
  <2>4. Len(t.store) = Product(Lead(t.dims)) * t.dims[Len(t.dims)]
    BY <1>5, <2>1, <2>3, Zenon
  <2>5. Len(Out(dims)) = Product(Lead(t.dims)) /\ t.dims # <<>>
    BY <1>2, <1>6
  <2>6. QED
    BY <1>4, <1>6, <2>4, <2>5, Zenon DEF EncodeRowReduce, Lead, Dim0
<1>8. t.dims = arg["x"].dims /\ t.store = arg["x"].store
  BY <1>1, <1>2
<1>9. /\ Product(out) = p
      /\ \A k \in 1..p : LastRow("x", Unflatten(out, k - 1))
                           = Row(t.store, (k - 1) * Dim0(t.dims), Dim0(t.dims))
  <2>1. arg["x"].dims # <<>> /\ out = Kept(arg["x"].dims, TRUE)
    BY <1>1, <1>8, Zenon
  <2>2. Product(out) = Product(Lead(arg["x"].dims))
    BY ONLY IInv, <1>1, <1>5, <2>1, KeptRows
  <2>3. \A k \in 1..Product(out) : LastRow("x", Unflatten(out, k - 1))
           = Row(arg["x"].store, (k - 1) * Dim0(arg["x"].dims), Dim0(arg["x"].dims))
    BY ONLY IInv, <1>1, <1>5, <2>1, KeptRows
  <2>4. QED
    BY <1>1, <1>6, <1>8, <2>2, <2>3, Zenon
<1>10. ASSUME NEW r \in 1..p PROVE Row(t.store, (r - 1) * Dim0(t.dims), Dim0(t.dims)) \in Value
  <2>1. PICK d \in Nat : d = Dim0(t.dims)
    <3>1. PICK m \in Nat : m = Len(t.dims) /\ m # 0
      BY <1>2, <1>3
    <3>2. t.dims[m] \in Nat
      BY <1>3, <3>1
    <3>3. QED
      BY <3>1, <3>2 DEF Dim0
  <2>2. t.store \in Seq(Value)
    BY <1>3 DEF Holds, WellFormed
  <2>3. PICK start : start = (r - 1) * Dim0(t.dims)
    OBVIOUS
  <2>4. Row(t.store, start, d) \in Value
    BY <2>1, <2>2, RowType
  <2>5. QED
    BY <2>1, <2>3, <2>4, Zenon
<1>11. got \in [1..p -> Value]
  BY <1>7, <1>10
<1>12. QED
  BY <1>6, <1>7, <1>9, <1>11, Zenon DEF Rowwise

\* The reductions.
LEMMA ReduceCall ==
  ASSUME IInv, Reduce
  PROVE  DispatchComputes'
<1>1. PICK axis \in -1..3, keep \in BOOLEAN :
        Call("reduce", x.dtype \in Floats /\ OwnsDense(x) /\ ResolveAxis(x, axis) = Rank(x),
             [k \in 1..Product(Kept(x.dims, TRUE)) |->
                LastRow("x", Unflatten(Kept(x.dims, TRUE), k - 1))],
             DispatchReduce(x, Kept(x.dims, keep)))
  BY DEF Reduce, Tabulate
<1>2. PICK out : out = Kept(x.dims, TRUE)
  OBVIOUS
<1>3. PICK denoted : denoted = [k \in 1..Product(out) |-> LastRow("x", Unflatten(out, k - 1))]
  OBVIOUS
<1>4. PICK dims : dims = Kept(x.dims, keep)
  OBVIOUS
<1>5. PICK got : got = DispatchReduce(x, dims)
  OBVIOUS
<1>6. PICK accepted : /\ accepted => ResolveAxis(x, axis) = Rank(x) /\ OwnsDense(x)
                      /\ Call("reduce", accepted, denoted, got)
  BY <1>1, <1>2, <1>3, <1>4, <1>5, Zenon
<1>7. ASSUME accepted PROVE got = denoted
  <2>1. PICK t : t = x /\ t.dims \in Seq(Nat)
    BY OperandFacts DEF x, Arg
  <2>2. t.dims # <<>> /\ ~x.view
    BY <1>6, <1>7, <2>1, AxisResolves DEF OwnsDense
  <2>3. dims \in Seq(Nat) /\ Product(dims) = Product(Lead(x.dims))
    BY <1>4, <2>1, <2>2, KeptType
  <2>4. Rowwise(got, "x", out)
    BY <1>2, <1>5, <2>1, <2>2, <2>3, ReduceComputes
  <2>5. QED
    BY <1>3, <2>4 DEF Rowwise
<1>8. QED
  BY <1>6, <1>7, CallComputes

\* The index of the largest item of the last axis, of a single row.
LEMMA ArgmaxComputes ==
  ASSUME IInv, x.dims # <<>>, NEW got, got = DispatchArgReduce(x, Lead(x.dims)), got # Refused,
         NEW out, out = Kept(x.dims, TRUE)
  PROVE  Rowwise(got, "x", out)
<1>1. "x" \in Arg /\ x = arg["x"]
  BY DEF Arg, x
<1>2. PICK t, v : t = x /\ v = says["x"]
  OBVIOUS
<1>3. Holds(t, v) /\ t.dims \in Seq(Nat)
  BY <1>1, <1>2, OperandFacts
<1>4. ~t.view /\ got = EncodeArgmax(t.store, Out(Lead(t.dims)), t.dims[Rank(t)])
  BY <1>2, UnlessRefused DEF DispatchArgReduce
<1>5. Flat(arg["x"], says["x"])
  BY <1>1, <1>2, <1>3, <1>4, OwnerFlat
<1>6. Len(Out(Lead(t.dims))) = 1 /\ got = <<Row(t.store, 0, Dim0(t.dims))>>
  BY <1>4, Zenon DEF EncodeArgmax, Dim0, Rank
<1>7. t.dims = arg["x"].dims /\ t.store = arg["x"].store
  BY <1>1, <1>2
<1>8. arg["x"].dims # <<>> /\ out = Kept(arg["x"].dims, TRUE)
  BY <1>1
<1>9. Product(out) = Product(Lead(t.dims))
  BY ONLY IInv, <1>1, <1>5, <1>7, <1>8, KeptRows
<1>10. \A k \in 1..Product(out) : LastRow("x", Unflatten(out, k - 1))
         = Row(t.store, (k - 1) * Dim0(t.dims), Dim0(t.dims))
  BY ONLY IInv, <1>1, <1>5, <1>7, <1>8, KeptRows
<1>11. Lead(t.dims) \in Seq(Nat)
  <2>1. PICK head, n : head = Lead(t.dims) /\ n = Len(t.dims)
    OBVIOUS
  <2>2. AllButLast(head, t.dims, n)
    BY <1>3, <1>7, <1>8, <2>1, LeadIs
  <2>3. QED
    BY <2>1, <2>2, RowFacts
<1>12. Product(out) = 1
  BY <1>6, <1>9, <1>11, OutFacts
<1>13. PICK d \in Nat : d = Dim0(t.dims)
  <2>1. PICK m \in Nat : m = Len(t.dims) /\ m # 0
    BY <1>3, <1>7, <1>8
  <2>2. t.dims[m] \in Nat
    BY <1>3, <2>1
  <2>3. QED
    BY <2>1, <2>2 DEF Dim0
<1>14. ASSUME NEW k \in 1..1 PROVE LastRow("x", Unflatten(out, k - 1)) = Row(t.store, 0, d)
  <2>1. k = 1 /\ k - 1 = 0 /\ 0 * d = 0
    BY ONLY k \in 1..1, d \in Nat
  <2>2. k \in 1..Product(out)
    BY <1>12
  <2>3. QED
    BY <1>10, <1>13, <2>1, <2>2, Zenon
<1>15. [k \in 1..1 |-> LastRow("x", Unflatten(out, k - 1))] = [k \in 1..1 |-> Row(t.store, 0, d)]
  BY <1>14, Zenon
<1>16. <<Row(t.store, 0, d)>> = [k \in 1..1 |-> Row(t.store, 0, d)]
  <2>1. PICK r : r = Row(t.store, 0, d)
    OBVIOUS
  <2>2. <<r>> = [k \in 1..1 |-> r]
    OBVIOUS
  <2>3. QED
    BY <2>1, <2>2, Zenon
<1>17. QED
  BY <1>6, <1>12, <1>13, <1>15, <1>16, Zenon DEF Rowwise

\* argmax.
LEMMA ArgmaxCall ==
  ASSUME IInv, Argmax
  PROVE  DispatchComputes'
<1>1. PICK axis \in -1..3 :
        Call("argmax", x.dtype = "BF16" /\ OwnsDense(x) /\ ResolveAxis(x, axis) = Rank(x),
             [k \in 1..Product(Kept(x.dims, TRUE)) |->
                LastRow("x", Unflatten(Kept(x.dims, TRUE), k - 1))],
             DispatchArgReduce(x, Lead(x.dims)))
  BY DEF Argmax, Tabulate
<1>2. PICK out : out = Kept(x.dims, TRUE)
  OBVIOUS
<1>3. PICK denoted : denoted = [k \in 1..Product(out) |-> LastRow("x", Unflatten(out, k - 1))]
  OBVIOUS
<1>4. PICK got : got = DispatchArgReduce(x, Lead(x.dims))
  OBVIOUS
<1>5. PICK accepted : /\ accepted => ResolveAxis(x, axis) = Rank(x)
                      /\ Call("argmax", accepted, denoted, got)
  BY <1>1, <1>2, <1>3, <1>4, Zenon
<1>6. ASSUME accepted, got # Refused PROVE got = denoted
  <2>1. PICK t : t = x /\ t.dims \in Seq(Nat)
    BY OperandFacts DEF x, Arg
  <2>2. x.dims # <<>>
    BY <1>5, <1>6, <2>1, AxisResolves
  <2>3. Rowwise(got, "x", out)
    BY <1>2, <1>4, <1>6, <2>2, ArgmaxComputes
  <2>4. QED
    BY <1>3, <2>3 DEF Rowwise
<1>7. QED
  BY <1>5, <1>6, CallComputes

\* Column and row of the k-th index of an operand.
LEMMA RowHere ==
  ASSUME IInv, NEW a \in Arg, Flat(arg[a], says[a]), arg[a].dims # <<>>,
         NEW k, Within(k, arg[a].dims), NEW d, d = arg[a].dims[Rank(arg[a])]
  PROVE  /\ d \in Nat /\ d > 0 /\ k \in Nat
         /\ Unflatten(arg[a].dims, k)[Rank(arg[a])] = k % d
         /\ LastRow(a, Unflatten(arg[a].dims, k)) = Row(arg[a].store, k - (k % d), d)
<1>1. PICK dims \in Seq(Nat), n \in Nat : dims = arg[a].dims /\ n = Rank(arg[a]) /\ n = Len(dims)
  BY OperandFacts DEF Rank
<1>2. PICK head : head = Lead(dims)
  OBVIOUS
<1>3. AllButLast(head, dims, n)
  BY <1>1, <1>2, LeadIs
<1>4. k \in Nat /\ k < Product(dims)
  BY <1>1 DEF Within
<1>5. PICK e \in Nat : e = d /\ d = dims[n]
  BY <1>1, <1>3, RowFacts
<1>6. PICK idx : idx = Unflatten(dims, k)
  OBVIOUS
<1>7. dims[n] > 0 /\ idx[n] = k % dims[n]
  BY <1>3, <1>4, <1>6, IndexRow
<1>8. LastRow(a, Unflatten(arg[a].dims, k))
        = Row(arg[a].store, (k \div arg[a].dims[n]) * arg[a].dims[n], arg[a].dims[n])
  <2>1. SameRows(head, arg[a].dims, arg[a].dims, n)
    BY <1>1, <1>3 DEF SameRows
  <2>2. QED
    BY <2>1, RowAt
<1>9. (k \div e) * e = k - (k % e)
  <2>1. e > 0
    BY <1>5, <1>7
  <2>2. PICK q \in Nat, r \in Nat : q = k \div e /\ r = k % e /\ k = q * e + r
    BY <1>4, <2>1, DivMod
  <2>3. PICK z \in Nat : z = q * e
    OBVIOUS
  <2>4. QED
    BY <2>2, <2>3
<1>10. Unflatten(arg[a].dims, k)[Rank(arg[a])] = k % d
  BY <1>1, <1>5, <1>6, <1>7, Zenon
<1>11. LastRow(a, Unflatten(arg[a].dims, k)) = Row(arg[a].store, k - (k % d), d)
  BY <1>1, <1>5, <1>8, <1>9, Zenon
<1>12. d \in Nat /\ d > 0
  BY <1>5, <1>7
<1>13. QED
  BY <1>4, <1>10, <1>11, <1>12

\* The rows a kernel runs over are all of them.
LEMMA RowsCounted ==
  ASSUME NEW dims \in Seq(Nat), dims # <<>>, NEW d, d = dims[Len(dims)], d # 0
  PROVE  /\ d \in Nat /\ Product(dims) \in Nat /\ Product(dims) \div d \in Nat
         /\ (Product(dims) \div d) * d = Product(dims)
<1>1. PICK n, head : n = Len(dims) /\ head = Lead(dims)
  OBVIOUS
<1>2. AllButLast(head, dims, n)
  BY <1>1, LeadIs
<1>3. PICK e \in Nat : e = d /\ e = dims[n]
  BY <1>1, <1>2, RowFacts
<1>4. PICK r \in Nat : r = Product(head)
  BY <1>2, RowFacts
<1>5. PICK p \in Nat : p = Product(dims) /\ p = r * e
  BY <1>2, <1>3, <1>4, RowFacts
<1>6. p \div e = r
  <2>1. p = r * e + 0 /\ 0 < e
    BY <1>3, <1>5, SMTT(40)
  <2>2. QED
    BY ONLY p \in Nat, e \in Nat, r \in Nat, 0 \in Nat, <2>1, DivUnique
<1>7. QED
  BY <1>3, <1>5, <1>6

\* softmax.
LEMMA SoftmaxCall ==
  ASSUME IInv, Softmax
  PROVE  DispatchComputes'
<1>1. Call("softmax", /\ OwnsDense(x) /\ x.dtype = "BF16" /\ Rank(x) > 0
                      /\ x.dims[Rank(x)] \in 1..SoftmaxLimit,
           [k \in 1..Product(x.dims) |->
              <<Unflatten(x.dims, k - 1)[Rank(x)]>> \o LastRow("x", Unflatten(x.dims, k - 1))],
           DispatchSoftmax(x))
  BY DEF Softmax, Tabulate
<1>2. PICK t, v : t = x /\ t = arg["x"] /\ v = says["x"]
  BY DEF x
<1>3. Holds(t, v) /\ t.dims \in Seq(Nat) /\ "x" \in Arg
  BY <1>2, OperandFacts DEF Arg
<1>4. PICK denoted : denoted = [k \in 1..Product(t.dims) |->
        <<Unflatten(t.dims, k - 1)[Rank(t)]>> \o LastRow("x", Unflatten(t.dims, k - 1))]
  OBVIOUS
<1>5. PICK got : got = DispatchSoftmax(t)
  OBVIOUS
<1>6. PICK accepted : /\ accepted => Rank(t) > 0 /\ t.dims[Rank(t)] \in 1..SoftmaxLimit
                      /\ Call("softmax", accepted, denoted, got)
  BY <1>1, <1>2, <1>4, <1>5, Zenon
<1>7. ASSUME accepted, got # Refused PROVE got = denoted
  <2>1. PICK p, out : p \in Nat /\ p = Product(t.dims) /\ out = Out(t.dims) /\ DOMAIN out = 1..p /\ Len(out) = p
    BY <1>3, OutFacts
  <2>2. PICK d : d = t.dims[Rank(t)]
    OBVIOUS
  <2>3. /\ ~t.view
        /\ got = EncodeSoftmax(t.store, out, d, Product(t.dims) \div d)
    BY <1>5, <1>7, <2>1, <2>2, UnlessRefused DEF DispatchSoftmax
  <2>4. t.dims # <<>> /\ d # 0
    <3>1. Rank(t) > 0 /\ d # 0
      BY <1>6, <1>7, <2>2
    <3>2. QED
      BY <1>3, <3>1 DEF Rank
  <2>5. PICK rows \in Nat, e \in Nat : rows = Product(t.dims) \div d /\ e = d /\ rows * e = p
    <3>1. d = t.dims[Len(t.dims)]
      BY <2>2 DEF Rank
    <3>2. QED
      BY <1>3, <2>1, <2>4, <3>1, RowsCounted
  <2>6. CASE rows = 0
    <3>1. p = 0
      BY <2>5, <2>6
    <3>2. got = out
      BY <2>3, <2>5, <2>6 DEF EncodeSoftmax
    <3>3. out = << >>
      BY <2>1, <3>1 DEF Out, Fresh
    <3>4. denoted = << >>
      BY <1>4, <2>1, <3>1
    <3>5. QED
      BY <3>2, <3>3, <3>4
  <2>7. CASE rows # 0
    <3>1. got = [i \in DOMAIN out |->
                   <<(i - 1) % d>> \o Row(t.store, (i - 1) - ((i - 1) % d), d)]
      BY <1>7, <2>3, <2>4, <2>5, <2>7, Zenon DEF EncodeSoftmax
    <3>2. Flat(arg["x"], says["x"])
      BY <1>2, <1>3, <2>3, OwnerFlat
    <3>3. ASSUME NEW i \in 1..p
          PROVE  <<(i - 1) % d>> \o Row(t.store, (i - 1) - ((i - 1) % d), d)
                   = <<Unflatten(t.dims, i - 1)[Rank(t)]>> \o LastRow("x", Unflatten(t.dims, i - 1))
      <4>1. PICK k \in Nat : k = i - 1 /\ k < p
        BY ONLY <2>1, i \in 1..p
      <4>2. Within(k, arg["x"].dims) /\ d = arg["x"].dims[Rank(arg["x"])] /\ arg["x"].dims # <<>>
        BY <1>2, <2>1, <2>2, <2>4, <4>1 DEF Within
      <4>3. Unflatten(arg["x"].dims, k)[Rank(arg["x"])] = k % d
        BY <1>3, <3>2, <4>2, RowHere
      <4>4. LastRow("x", Unflatten(arg["x"].dims, k)) = Row(arg["x"].store, k - (k % d), d)
        BY <1>3, <3>2, <4>2, RowHere
      <4>5. QED
        BY <1>2, <4>1, <4>3, <4>4, Zenon
    <3>4. QED
      BY <1>4, <2>1, <3>1, <3>3, Zenon
  <2>8. QED
    BY <2>6, <2>7
<1>8. QED
  BY <1>6, <1>7, CallComputes

\* Element j of an operand with a single axis.
LEMMA OnlyAxis ==
  ASSUME IInv, NEW a \in Arg, Flat(arg[a], says[a]),
         NEW d \in Nat, arg[a].dims = <<d>>, NEW j \in Nat, j < d
  PROVE  Read(arg[a].store, j) = Says(a, <<j>>) /\ Product(arg[a].dims) = d
<1>1. PICK dims \in Seq(Nat) : dims = arg[a].dims /\ dims = <<d>>
  BY OperandFacts
<1>2. Product(dims) = d
  <2>1. DOMAIN dims = 1..1 /\ dims[1] = d
    BY <1>1
  <2>2. QED
    BY <2>1, SingleItem
<1>3. Flatten(dims, <<j>>) = j
  BY <1>1, ThreadsOfOne
<1>4. Read(arg[a].store, j) = says[a][j + 1]
  BY <1>1, <1>2, FlatRead
<1>5. Says(a, <<j>>) = says[a][Flatten(dims, <<j>>) + 1]
  BY <1>1, OperandFacts DEF ValueAt
<1>6. QED
  BY <1>1, <1>2, <1>3, <1>4, <1>5, Zenon

\* rms_norm.
LEMMA RmsNormCall ==
  ASSUME IInv, RmsNorm
  PROVE  DispatchComputes'
<1>1. PICK weighted \in BOOLEAN :
        Call("rms_norm", /\ OwnsDense(x) /\ x.dtype = "BF16" /\ Rank(x) > 0
                         /\ weighted => OwnsDense(y) /\ y.dtype = "BF16"
                                        /\ y.dims = <<x.dims[Rank(x)]>>,
             [k \in 1..Product(x.dims) |->
                <<Unflatten(x.dims, k - 1)[Rank(x)]>> \o LastRow("x", Unflatten(x.dims, k - 1))
                  \o (IF weighted THEN Says("y", <<Unflatten(x.dims, k - 1)[Rank(x)]>>) ELSE <<1>>)],
             DispatchRmsNorm(x, IF weighted THEN y ELSE Dense(<<1>>, "BF16", <<<<1>>>>),
                             IF weighted THEN 1 ELSE 0))
  BY DEF RmsNorm, Tabulate
<1>2. PICK t, v : t = x /\ t = arg["x"] /\ v = says["x"]
  BY DEF x
<1>3. Holds(t, v) /\ t.dims \in Seq(Nat) /\ "x" \in Arg
  BY <1>2, OperandFacts DEF Arg
<1>4. PICK denoted : denoted = [k \in 1..Product(t.dims) |->
        <<Unflatten(t.dims, k - 1)[Rank(t)]>> \o LastRow("x", Unflatten(t.dims, k - 1))
          \o (IF weighted THEN Says("y", <<Unflatten(t.dims, k - 1)[Rank(t)]>>) ELSE <<1>>)]
  OBVIOUS
<1>5. PICK w, step : /\ w = (IF weighted THEN y ELSE Dense(<<1>>, "BF16", <<<<1>>>>))
                     /\ step = (IF weighted THEN 1 ELSE 0)
  OBVIOUS
<1>6. PICK got : got = DispatchRmsNorm(t, w, step)
  OBVIOUS
<1>7. PICK accepted : /\ accepted => Rank(t) > 0
                      /\ accepted /\ weighted => OwnsDense(y) /\ y.dims = <<t.dims[Rank(t)]>>
                      /\ Call("rms_norm", accepted, denoted, got)
  BY <1>1, <1>2, <1>4, <1>5, <1>6, Zenon
<1>8. ASSUME accepted, got # Refused PROVE got = denoted
  <2>1. PICK p, out : p \in Nat /\ p = Product(t.dims) /\ out = Out(t.dims) /\ DOMAIN out = 1..p /\ Len(out) = p
    BY <1>3, OutFacts
  <2>2. PICK d : d = t.dims[Rank(t)]
    OBVIOUS
  <2>3. /\ ~t.view
        /\ got = EncodeRmsNorm(t.store, w.store, out, d, Product(t.dims) \div d, step)
    BY <1>6, <1>8, <2>1, <2>2 DEF DispatchRmsNorm, Unless, DenseInput
  <2>4. t.dims # <<>> /\ d # 0
    <3>1. Rank(t) > 0 /\ d # 0
      BY <1>7, <1>8, <2>2, <2>3, Zenon DEF EncodeRmsNorm
    <3>2. QED
      BY <1>3, <3>1 DEF Rank
  <2>5. got = [i \in 1..p |-> <<(i - 1) % d>> \o Row(t.store, (i - 1) - ((i - 1) % d), d)
                                \o Read(w.store, ((i - 1) % d) * step)]
    BY <1>8, <2>1, <2>3, Zenon DEF EncodeRmsNorm
  <2>6. Flat(arg["x"], says["x"])
    BY <1>2, <1>3, <2>3, OwnerFlat
  <2>7. ASSUME NEW i \in 1..p
        PROVE  <<(i - 1) % d>> \o Row(t.store, (i - 1) - ((i - 1) % d), d)
                   \o Read(w.store, ((i - 1) % d) * step)
                 = <<Unflatten(t.dims, i - 1)[Rank(t)]>> \o LastRow("x", Unflatten(t.dims, i - 1))
                     \o (IF weighted THEN Says("y", <<Unflatten(t.dims, i - 1)[Rank(t)]>>) ELSE <<1>>)
    <3>1. PICK k \in Nat : k = i - 1 /\ k < p
      BY ONLY <2>1, i \in 1..p
    <3>2. Within(k, arg["x"].dims) /\ d = arg["x"].dims[Rank(arg["x"])] /\ arg["x"].dims # <<>>
      BY <1>2, <2>1, <2>2, <2>4, <3>1 DEF Within
    <3>3. Unflatten(arg["x"].dims, k)[Rank(arg["x"])] = k % d
      BY <1>3, <2>6, <3>2, RowHere
    <3>4. LastRow("x", Unflatten(arg["x"].dims, k)) = Row(arg["x"].store, k - (k % d), d)
      BY <1>3, <2>6, <3>2, RowHere
    <3>5. d \in Nat /\ d > 0
      BY <1>3, <2>6, <3>2, RowHere
    <3>6. PICK j \in Nat : j = k % d /\ j < d
      BY <3>1, <3>5
    <3>7. Read(w.store, j * step) = IF weighted THEN Says("y", <<j>>) ELSE <<1>>
      <4>1. CASE weighted
        <5>1. w = arg["y"] /\ j * step = j /\ "y" \in Arg
          BY <1>5, <4>1 DEF y, Arg
        <5>2. ~arg["y"].view /\ arg["y"].dims = <<d>>
          BY <1>7, <1>8, <2>2, <4>1 DEF OwnsDense, y
        <5>3. Flat(arg["y"], says["y"])
          BY <5>1, <5>2, OperandFacts, OwnerFlat
        <5>4. Read(arg["y"].store, j) = Says("y", <<j>>)
          BY <3>5, <3>6, <5>1, <5>2, <5>3, OnlyAxis
        <5>5. QED
          BY <4>1, <5>1, <5>4, Zenon
      <4>2. CASE ~weighted
        <5>1. w = Dense(<<1>>, "BF16", <<<<1>>>>) /\ j * step = 0
          BY <1>5, <4>2
        <5>2. w.store = <<<<1>>>>
          BY <5>1 DEF Dense
        <5>3. Read(<<<<1>>>>, 0) = <<1>>
          BY DEF Read
        <5>4. QED
          BY <4>2, <5>1, <5>2, <5>3, Zenon
      <4>3. QED
        BY <4>1, <4>2
    <3>8. QED
      BY <1>2, <3>1, <3>3, <3>4, <3>6, <3>7, Zenon
  <2>8. QED
    BY <1>4, <2>1, <2>5, <2>7, Zenon
<1>9. QED
  BY <1>7, <1>8, CallComputes

\* A view, a copy or a cast has no output.
LEMMA NothingComputed ==
  ASSUME NEW a, NEW t, NEW values, Become(a, t, values)
  PROVE  DispatchComputes'
<1>1. last' = None
  BY DEF Become
<1>2. last'.got = last'.denoted
  BY <1>1 DEF None
<1>3. QED
  BY <1>2 DEF DispatchComputes

----------------------------------------------------------------------------
\* Elementwise ops of two operands.

\* Both operands stretch to their common shape.
LEMMA CommonShape ==
  ASSUME NEW a \in Seq(Nat), NEW b \in Seq(Nat), NEW dims, dims = BroadcastShape(a, b), dims # Refused
  PROVE  dims \in Seq(Nat) /\ Stretches(a, dims) /\ Stretches(b, dims)
<1>1. PICK m \in Nat, n \in Nat : m = Len(a) /\ n = Len(b)
  OBVIOUS
<1>2. PICK r \in Nat : r = (IF m > n THEN m ELSE n) /\ m <= r /\ n <= r
  BY <1>1
<1>3. PICK f : f = [i \in 1..r |-> IF i <= r - m THEN 1 ELSE a[i - (r - m)]]
  OBVIOUS
<1>4. PICK g : g = [i \in 1..r |-> IF i <= r - n THEN 1 ELSE b[i - (r - n)]]
  OBVIOUS
<1>5. /\ \A i \in 1..r : f[i] = g[i] \/ f[i] = 1 \/ g[i] = 1
      /\ dims = [i \in 1..r |-> IF f[i] = 1 THEN g[i] ELSE f[i]]
  <2>1. dims = IF \A i \in 1..r : \/ (IF i <= r - m THEN 1 ELSE a[i - (r - m)])
                                       = (IF i <= r - n THEN 1 ELSE b[i - (r - n)])
                                  \/ (IF i <= r - m THEN 1 ELSE a[i - (r - m)]) = 1
                                  \/ (IF i <= r - n THEN 1 ELSE b[i - (r - n)]) = 1
               THEN [i \in 1..r |-> IF (IF i <= r - m THEN 1 ELSE a[i - (r - m)]) = 1
                                    THEN (IF i <= r - n THEN 1 ELSE b[i - (r - n)])
                                    ELSE (IF i <= r - m THEN 1 ELSE a[i - (r - m)])]
               ELSE Refused
    BY <1>1, <1>2, Zenon DEF BroadcastShape
  <2>2. QED
    BY <1>3, <1>4, <2>1
<1>6. a \in [1..m -> Nat] /\ b \in [1..n -> Nat]
  BY <1>1
<1>7. f \in [1..r -> Nat] /\ g \in [1..r -> Nat]
  <2>1. \A i \in 1..r : ~(i <= r - m) => i - (r - m) \in 1..m
    BY <1>2
  <2>2. \A i \in 1..r : ~(i <= r - n) => i - (r - n) \in 1..n
    BY <1>2
  <2>3. QED
    BY <1>3, <1>4, <1>6, <2>1, <2>2
<1>8. dims \in [1..r -> Nat] /\ \A i \in 1..r : dims[i] = IF f[i] = 1 THEN g[i] ELSE f[i]
  BY <1>5, <1>7
<1>9. dims \in Seq(Nat) /\ Len(dims) = r
  BY ONLY r \in Nat, <1>8
<1>10. Stretches(a, dims)
  <2>1. r - m >= 0 /\ \A i \in (r - m + 1)..r : i \in 1..r /\ ~(i <= r - m)
    BY <1>2
  <2>2. \A i \in (r - m + 1)..r : a[i - (r - m)] # dims[i] => a[i - (r - m)] = 1
    BY <1>3, <1>8, <2>1
  <2>3. QED
    BY <1>1, <1>9, <2>1, <2>2 DEF Stretches
<1>11. Stretches(b, dims)
  <2>1. r - n >= 0 /\ \A i \in (r - n + 1)..r : i \in 1..r /\ ~(i <= r - n)
    BY <1>2
  <2>2. \A i \in (r - n + 1)..r : b[i - (r - n)] # dims[i] => b[i - (r - n)] = 1
    BY <1>4, <1>5, <1>8, <2>1
  <2>3. QED
    BY <1>1, <1>9, <2>1, <2>2 DEF Stretches
<1>12. QED
  BY <1>9, <1>10, <1>11

\* A tensor stretched to dims, unless it has that shape already.
Sided(t, dims) == IF t.dims = dims THEN t ELSE BroadcastTo(t, dims)

\* It holds the broadcast values.
LEMMA SideHolds ==
  ASSUME NEW t, NEW v, Holds(t, v), NEW dims \in Seq(Nat), Stretches(t.dims, dims),
         NEW w, w = Broadcasted(v, t.dims, dims)
  PROVE  /\ Holds(Sided(t, dims), w) /\ Sided(t, dims).dims = dims
         /\ t.dims = dims => w = v
<1>1. Stretched(w, dims, v, t)
  BY BroadcastedIs
<1>2. CASE t.dims # dims
  BY <1>1, <1>2, BroadcastHolds DEF Sided
<1>3. CASE t.dims = dims
  <2>1. PICK n \in Nat, p \in Nat : n = Len(dims) /\ p = Product(dims)
    BY BlockFacts
  <2>2. ASSUME NEW k \in 1..p PROVE w[k] = v[k]
    <3>1. PICK j \in 0..(p - 1) : j + 1 = k
      <4>1. k - 1 \in 0..(p - 1) /\ (k - 1) + 1 = k
        BY <2>1
      <4>2. QED
        BY <4>1
    <3>2. PICK idx \in Indices(dims) : Flatten(dims, idx) = j
      BY <2>1, UnflattenType, FlattenUnflatten
    <3>3. idx \in [1..n -> Nat] /\ \A b \in 1..n : idx[b] < dims[b]
      BY <2>1 DEF Indices
    <3>4. dims \in [1..n -> Nat] /\ DOMAIN dims = 1..n
      BY <2>1
    <3>5. \A b \in 1..n : b + n - n = b /\ (dims[b] = 1 => idx[b] = 0)
      BY <3>3, <3>4
    <3>6. Squeezed(dims, dims, idx) = [b \in 1..n |-> idx[b]]
      <4>1. Squeezed(dims, dims, idx) = [b \in 1..n |-> IF dims[b] = 1 THEN 0 ELSE idx[b + n - n]]
        BY <2>1, <3>4 DEF Squeezed
      <4>2. \A b \in 1..n : (IF dims[b] = 1 THEN 0 ELSE idx[b + n - n]) = idx[b]
        BY <3>5
      <4>3. QED
        BY <4>1, <4>2
    <3>7. Squeezed(dims, dims, idx) = idx
      BY <3>3, <3>6
    <3>8. w[Flatten(dims, idx) + 1] = ValueAt(v, t.dims, Squeezed(t.dims, dims, idx))
      BY <1>1 DEF Stretched
    <3>9. QED
      BY <1>3, <3>1, <3>2, <3>7, <3>8, Zenon DEF ValueAt
  <2>3. w = [k \in 1..p |-> w[k]]
    BY <1>1, <2>1 DEF Stretched, Lists
  <2>4. v \in [1..p -> Value]
    BY <1>3, <2>1 DEF Holds
  <2>5. w = v
    BY <2>2, <2>3, <2>4
  <2>6. QED
    BY <1>3, <2>5 DEF Sided
<1>4. QED
  BY <1>2, <1>3

\* w lists the items of va and vb in pairs.
Paired(w, va, vb, p) == w = [k \in 1..p |-> va[k] \o vb[k]]

\* Two operands of the output shape, each read through its strides or whole.
LEMMA BinaryComputes ==
  ASSUME NEW a, NEW va, Holds(a, va), NEW b, NEW vb, Holds(b, vb),
         NEW dims \in Seq(Nat), a.dims = dims, b.dims = dims, NEW dtype,
         NEW got, got = DispatchBinary(a, b, dims, dtype), got # Refused
  PROVE  Paired(got, va, vb, Product(dims))
<1>1. PICK p \in Nat : p = Product(dims)
  BY BlockFacts
<1>2. va \in [1..p -> Value] /\ vb \in [1..p -> Value]
  BY <1>1 DEF Holds
<1>3. PICK v : v = [k \in 1..p |-> va[k] \o vb[k]]
  OBVIOUS
<1>4. v \in [1..p -> Value]
  <2>1. ASSUME NEW k \in 1..p PROVE va[k] \o vb[k] \in Value
    <3>1. PICK g, h : g = va[k] /\ h = vb[k]
      OBVIOUS
    <3>2. g \in Seq(Int) /\ h \in Seq(Int)
      BY <1>2, <3>1 DEF Value
    <3>3. g \o h \in Seq(Int)
      BY ONLY <3>2
    <3>4. QED
      BY <3>1, <3>3 DEF Value
  <2>2. QED
    BY <1>3, <2>1
<1>5. CASE a.view \/ b.view
  <2>1. /\ Len(dims) \in 1..3 /\ a.off = 0 /\ b.off = 0
        /\ got = EncodeG(a.store, a.strides, b.store, b.strides, Out(dims), dims)
    BY <1>5, Zenon DEF DispatchBinary, DispatchBinaryStrided, Storage
  <2>2. dims # <<>>
    <3>1. PICK m \in 1..3 : m = Len(dims)
      BY <2>1, Zenon
    <3>2. m # 0 /\ Len(<<>>) = 0
      OBVIOUS
    <3>3. QED
      BY <3>1, <3>2, Zenon
  <2>3. PICK writes : writes = {<<GridPosition(dims, th),
                                  Read(a.store, Along(a.strides, IndexOf(dims, th)))
                                    \o Read(b.store, Along(b.strides, IndexOf(dims, th)))>> :
                                  th \in Threads(dims)}
    OBVIOUS
  <2>4. got = Written(Out(dims), writes)
    BY <2>1, <2>3 DEF EncodeG
  <2>5. ASSUME NEW th \in Threads(dims)
        PROVE  /\ GridPosition(dims, th) = Flatten(dims, IndexOf(dims, th))
               /\ Read(a.store, Along(a.strides, IndexOf(dims, th)))
                    \o Read(b.store, Along(b.strides, IndexOf(dims, th)))
                      = ValueAt(v, dims, IndexOf(dims, th))
    <3>1. PICK idx \in Indices(dims) : idx = IndexOf(dims, th)
      BY <2>2, ThreadIndex
    <3>2. GridPosition(dims, th) = Flatten(dims, idx)
      BY <2>1, <2>2, <3>1, ThreadIndex
    <3>3. Read(a.store, 0 + Along(a.strides, idx)) = ValueAt(va, dims, idx)
      BY <2>1, <3>1, StridedRead
    <3>4. Read(b.store, 0 + Along(b.strides, idx)) = ValueAt(vb, dims, idx)
      BY <2>1, <3>1, StridedRead
    <3>5. Along(a.strides, idx) \in Int /\ Along(b.strides, idx) \in Int
      <4>1. PICK n \in Nat : n = Len(dims)
        OBVIOUS
      <4>2. idx \in [1..n -> Nat] /\ a.strides \in [1..n -> Nat] /\ b.strides \in [1..n -> Nat]
        BY <3>1, <4>1 DEF Indices, Holds, WellFormed
      <4>3. Along(a.strides, idx) = Total(Steps(idx, a.strides))
        BY DEF Along, Steps
      <4>4. Along(b.strides, idx) = Total(Steps(idx, b.strides))
        BY DEF Along, Steps
      <4>5. Total(Steps(idx, a.strides)) \in Nat
        BY <4>2, StepsFacts
      <4>6. Total(Steps(idx, b.strides)) \in Nat
        BY <4>2, StepsFacts
      <4>7. QED
        BY <4>3, <4>4, <4>5, <4>6
    <3>6. 0 + Along(a.strides, idx) = Along(a.strides, idx) /\ 0 + Along(b.strides, idx) = Along(b.strides, idx)
      BY <3>5
    <3>7. PICK k \in 1..p : Flatten(dims, idx) + 1 = k
      BY <1>1, <3>1, TabulatedAt
    <3>8. ValueAt(v, dims, idx) = ValueAt(va, dims, idx) \o ValueAt(vb, dims, idx)
      BY <1>3, <3>7, Zenon DEF ValueAt
    <3>9. QED
      BY <3>1, <3>2, <3>3, <3>4, <3>6, <3>8, Zenon
  <2>6. Copies(dims, writes, v)
    <3>1. ASSUME NEW w \in writes
          PROVE  \E th \in Threads(dims) : /\ w[1] = Flatten(dims, IndexOf(dims, th))
                                           /\ w[2] = ValueAt(v, dims, IndexOf(dims, th))
      <4>1. PICK th \in Threads(dims) :
              w = <<GridPosition(dims, th),
                    Read(a.store, Along(a.strides, IndexOf(dims, th)))
                      \o Read(b.store, Along(b.strides, IndexOf(dims, th)))>>
        BY <2>3
      <4>2. PICK g, h : /\ g = GridPosition(dims, th)
                        /\ h = Read(a.store, Along(a.strides, IndexOf(dims, th)))
                                 \o Read(b.store, Along(b.strides, IndexOf(dims, th)))
        OBVIOUS
      <4>3. w = <<g, h>>
        BY <4>1, <4>2, Zenon
      <4>4. w[1] = g /\ w[2] = h
        BY <4>3
      <4>5. QED
        BY <2>5, <4>2, <4>4, Zenon
    <3>2. ASSUME NEW th \in Threads(dims)
          PROVE  \E w \in writes : w[1] = Flatten(dims, IndexOf(dims, th))
      <4>1. PICK g, h : /\ g = GridPosition(dims, th)
                        /\ h = Read(a.store, Along(a.strides, IndexOf(dims, th)))
                                 \o Read(b.store, Along(b.strides, IndexOf(dims, th)))
        OBVIOUS
      <4>2. <<g, h>> \in writes
        BY <2>3, <4>1
      <4>3. PICK w \in writes : w = <<g, h>>
        BY <4>2
      <4>4. w[1] = g
        BY <4>3
      <4>5. QED
        BY <2>5, <4>1, <4>4, Zenon
    <3>3. QED
      BY <3>1, <3>2 DEF Copies
  <2>7. Written(Out(dims), writes) = v
    BY <1>1, <1>4, <2>2, <2>6, GridWrites
  <2>8. QED
    BY <1>1, <1>3, <2>4, <2>7 DEF Paired
<1>6. CASE ~(a.view \/ b.view)
  <2>1. got = EncodeVV(a.store, b.store, Out(dims))
    BY <1>6 DEF DispatchBinary, DispatchBinaryVV, Unless, DenseInput
  <2>2. DOMAIN Out(dims) = 1..p
    BY <1>1, OutFacts
  <2>3. got = [i \in 1..p |-> a.store[i] \o b.store[i]]
    BY <2>1, <2>2, Zenon DEF EncodeVV
  <2>4. a.store = va
    BY <1>6, OwnerFlat
  <2>5. b.store = vb
    BY <1>6, OwnerFlat
  <2>6. QED
    BY <1>1, <2>3, <2>4, <2>5 DEF Paired
<1>7. QED
  BY <1>5, <1>6

\* The elementwise ops.
LEMMA BinaryCall ==
  ASSUME IInv, Binary
  PROVE  DispatchComputes'
<1>1. PICK s, t, vs, vt : /\ s = x /\ t = y /\ s = arg["x"] /\ t = arg["y"]
                          /\ vs = says["x"] /\ vt = says["y"]
  BY DEF x, y
<1>2. PICK dims : dims = BroadcastShape(s.dims, t.dims)
  OBVIOUS
<1>3. PICK ws, wt : ws = Broadcasted(vs, s.dims, dims) /\ wt = Broadcasted(vt, t.dims, dims)
  OBVIOUS
<1>4. PICK denoted : denoted = [k \in 1..Product(dims) |->
                       ws[Flatten(dims, Unflatten(dims, k - 1)) + 1]
                         \o wt[Flatten(dims, Unflatten(dims, k - 1)) + 1]]
  OBVIOUS
<1>5. PICK got : got = DispatchBinary(Sided(s, dims), Sided(t, dims), dims, s.dtype)
  OBVIOUS
<1>6. PICK accepted : (accepted => dims # Refused) /\ Call("binary", accepted, denoted, got)
  <2>1. Call("binary", s.dtype = t.dtype /\ dims # Refused, denoted, got)
    BY <1>1, <1>2, <1>3, <1>4, <1>5, Zenon DEF Binary, Tabulate, Sided
  <2>2. QED
    BY <2>1
<1>7. ASSUME accepted, got # Refused PROVE got = denoted
  <2>1. "x" \in Arg /\ "y" \in Arg
    BY DEF Arg
  <2>2. Holds(s, vs) /\ Holds(t, vt) /\ s.dims \in Seq(Nat) /\ t.dims \in Seq(Nat)
    BY <1>1, <2>1, OperandFacts
  <2>3. dims \in Seq(Nat) /\ Stretches(s.dims, dims) /\ Stretches(t.dims, dims)
    BY <1>2, <1>6, <1>7, <2>2, CommonShape
  <2>4. Holds(Sided(s, dims), ws) /\ Sided(s, dims).dims = dims
    BY <1>3, <2>2, <2>3, SideHolds
  <2>5. Holds(Sided(t, dims), wt) /\ Sided(t, dims).dims = dims
    BY <1>3, <2>2, <2>3, SideHolds
  <2>6. Paired(got, ws, wt, Product(dims))
    BY <1>5, <1>7, <2>3, <2>4, <2>5, BinaryComputes
  <2>7. PICK p \in Nat : p = Product(dims)
    BY <2>3, BlockFacts
  <2>8. ASSUME NEW k \in 1..p PROVE Flatten(dims, Unflatten(dims, k - 1)) + 1 = k
    <3>1. PICK j \in 0..(p - 1) : j = k - 1
      OBVIOUS
    <3>2. Flatten(dims, Unflatten(dims, j)) = j
      BY <2>3, <2>7, FlattenUnflatten
    <3>3. QED
      BY <3>1, <3>2
  <2>9. QED
    BY <1>4, <2>6, <2>7, <2>8, Zenon DEF Paired
<1>8. QED
  BY <1>6, <1>7, CallComputes

\* Both stretch to a shape of which the second is a single 1.
LEMMA UnitShape ==
  ASSUME NEW a \in Seq(Nat), NEW dims, dims = BroadcastShape(a, << 1 >>)
  PROVE  dims \in Seq(Nat) /\ Stretches(a, dims) /\ Stretches(<<1>>, dims)
         /\ (IF a = <<>> THEN dims = <<1>> ELSE dims = a)
<1>1. PICK m \in Nat : m = Len(a)
  OBVIOUS
<1>2. a \in [1..m -> Nat] /\ (m = 0 => a = <<>>) /\ (a = <<>> => m = 0)
  BY <1>1
<1>3. Len(<<1>>) = 1
  OBVIOUS
<1>4. PICK r \in Nat : r = (IF m > 1 THEN m ELSE 1)
  OBVIOUS
<1>5. PICK f : f = [i \in 1..r |-> IF i <= r - m THEN 1 ELSE a[i - (r - m)]]
  OBVIOUS
<1>6. PICK g : g = [i \in 1..r |-> IF i <= r - 1 THEN 1 ELSE <<1>>[i - (r - 1)]]
  OBVIOUS
<1>7. \A i \in 1..r : g[i] = 1
  <2>1. \A i \in 1..r : ~(i <= r - 1) => i - (r - 1) = 1
    OBVIOUS
  <2>2. <<1>>[1] = 1
    OBVIOUS
  <2>3. QED
    BY <1>6, <2>1, <2>2, Zenon
<1>8. dims = [i \in 1..r |-> IF f[i] = 1 THEN g[i] ELSE f[i]]
  <2>1. dims = IF \A i \in 1..r : \/ (IF i <= r - m THEN 1 ELSE a[i - (r - m)])
                                       = (IF i <= r - 1 THEN 1 ELSE <<1>>[i - (r - 1)])
                                  \/ (IF i <= r - m THEN 1 ELSE a[i - (r - m)]) = 1
                                  \/ (IF i <= r - 1 THEN 1 ELSE <<1>>[i - (r - 1)]) = 1
               THEN [i \in 1..r |-> IF (IF i <= r - m THEN 1 ELSE a[i - (r - m)]) = 1
                                    THEN (IF i <= r - 1 THEN 1 ELSE <<1>>[i - (r - 1)])
                                    ELSE (IF i <= r - m THEN 1 ELSE a[i - (r - m)])]
               ELSE Refused
    BY <1>1, <1>3, <1>4, Zenon DEF BroadcastShape
  <2>2. \A i \in 1..r : (IF i <= r - 1 THEN 1 ELSE <<1>>[i - (r - 1)]) = 1
    BY <1>6, <1>7
  <2>3. dims = [i \in 1..r |-> IF (IF i <= r - m THEN 1 ELSE a[i - (r - m)]) = 1
                               THEN (IF i <= r - 1 THEN 1 ELSE <<1>>[i - (r - 1)])
                               ELSE (IF i <= r - m THEN 1 ELSE a[i - (r - m)])]
    BY <2>1, <2>2, Zenon
  <2>4. QED
    BY <1>5, <1>6, <2>3
<1>9. dims = f /\ f \in [1..r -> Nat]
  <2>1. \A i \in 1..r : ~(i <= r - m) => i - (r - m) \in 1..m
    BY <1>4
  <2>2. f \in [1..r -> Nat]
    BY <1>2, <1>5, <2>1
  <2>3. \A i \in 1..r : (IF f[i] = 1 THEN g[i] ELSE f[i]) = f[i]
    BY <1>7
  <2>4. dims = [i \in 1..r |-> f[i]]
    BY <1>8, <2>3
  <2>5. QED
    BY <2>2, <2>4
<1>10. dims \in Seq(Nat) /\ Len(dims) = r
  BY ONLY r \in Nat, <1>9
<1>11. Stretches(a, dims)
  <2>1. r - m >= 0 /\ \A i \in (r - m + 1)..r : i \in 1..r /\ ~(i <= r - m)
    BY <1>4
  <2>2. \A i \in (r - m + 1)..r : a[i - (r - m)] = dims[i]
    BY <1>5, <1>9, <2>1
  <2>3. QED
    BY <1>1, <1>10, <2>1, <2>2 DEF Stretches
<1>12. Stretches(<<1>>, dims)
  <2>1. r - 1 >= 0 /\ \A i \in (r - 1 + 1)..r : i - (r - 1) = 1
    BY <1>4
  <2>2. <<1>>[1] = 1
    OBVIOUS
  <2>3. \A i \in (r - 1 + 1)..r : <<1>>[i - (r - 1)] = 1
    BY <2>1, <2>2, Zenon
  <2>4. QED
    BY <1>3, <1>10, <2>1, <2>3 DEF Stretches
<1>13. CASE a = <<>>
  <2>1. m = 0 /\ r = 1
    BY <1>2, <1>4, <1>13
  <2>2. f = [i \in 1..1 |-> 1]
    BY <1>5, <2>1
  <2>3. <<1>> = [i \in 1..1 |-> 1]
    OBVIOUS
  <2>4. QED
    BY <1>9, <1>10, <1>11, <1>12, <1>13, <2>2, <2>3
<1>14. CASE a # <<>>
  <2>1. m # 0 /\ r = m
    BY <1>2, <1>4, <1>14
  <2>2. \A i \in 1..m : ~(i <= r - m) /\ i - (r - m) = i
    BY <2>1
  <2>3. f = [i \in 1..m |-> a[i]]
    BY <1>5, <2>1, <2>2
  <2>4. f = a
    BY <1>2, <2>3
  <2>5. QED
    BY <1>9, <1>10, <1>11, <1>12, <1>14, <2>4
<1>15. QED
  BY <1>13, <1>14

\* Stretched from a single value, it is that value everywhere.
LEMMA StretchedUnit ==
  ASSUME NEW dims \in Seq(Nat), NEW w, NEW v, NEW t, Stretched(w, dims, v, t),
         t.dims = << 1 >> \/ t.dims = <<>>
  PROVE  \A k \in 1..Product(dims) : w[k] = v[1]
<1>1. PICK p \in Nat : p = Product(dims)
  BY BlockFacts
<1>2. ASSUME NEW k \in 1..p PROVE w[k] = v[1]
  <2>1. PICK j \in 0..(p - 1) : j + 1 = k
    <3>1. k - 1 \in 0..(p - 1) /\ (k - 1) + 1 = k
      BY <1>1
    <3>2. QED
      BY <3>1
  <2>2. PICK idx \in Indices(dims) : Flatten(dims, idx) = j
    BY <1>1, <2>1, UnflattenType, FlattenUnflatten
  <2>3. PICK old : old = Squeezed(t.dims, dims, idx)
    OBVIOUS
  <2>4. w[k] = v[Flatten(t.dims, old) + 1]
    <3>1. w[Flatten(dims, idx) + 1] = ValueAt(v, t.dims, Squeezed(t.dims, dims, idx))
      BY DEF Stretched
    <3>2. QED
      BY <2>1, <2>2, <2>3, <3>1, Zenon DEF ValueAt
  <2>5. Flatten(t.dims, old) = 0
    <3>1. CASE t.dims = <<1>>
      <4>0. <<1>> \in Seq(Nat) /\ Len(<<1>>) = 1
        OBVIOUS
      <4>1. PICK d \in Seq(Nat) : d = t.dims /\ d = <<1>> /\ Len(d) = 1
        BY <3>1, <4>0, Zenon
      <4>2. DOMAIN d = 1..1 /\ d[1] = 1
        BY <4>1
      <4>3. old = [b \in 1..1 |-> 0]
        <5>1. \A b \in 1..1 : d[b] = 1
          BY <4>2
        <5>2. QED
          BY <2>3, <4>1, <4>2, <5>1, Zenon DEF Squeezed
      <4>4. <<0>> = [b \in 1..1 |-> 0]
        OBVIOUS
      <4>5. Flatten(d, <<0>>) = 0
        BY <4>1, ThreadsOfOne
      <4>6. QED
        BY <4>1, <4>3, <4>4, <4>5, Zenon
    <3>2. CASE t.dims = <<>>
      <4>1. DOMAIN t.dims = {}
        BY <3>2
      <4>2. DOMAIN [a \in DOMAIN t.dims |-> old[a] * Contiguous(t.dims)[a]] = {}
        BY <4>1, Zenon
      <4>3. PICK s : s = [a \in DOMAIN t.dims |-> old[a] * Contiguous(t.dims)[a]]
        OBVIOUS
      <4>4. Total(s) = 0
        BY <4>2, <4>3, TotalNone
      <4>5. QED
        BY <4>3, <4>4, Zenon DEF Flatten
    <3>3. QED
      BY <3>1, <3>2
  <2>6. QED
    BY <2>4, <2>5
<1>3. QED
  BY <1>1, <1>2

\* mean.
LEMMA MeanCall ==
  ASSUME IInv, Mean
  PROVE  DispatchComputes'
<1>1. PICK t : t = x /\ t.dims \in Seq(Nat)
  BY OperandFacts DEF x, Arg
<1>2. PICK out : out = Kept(t.dims, TRUE)
  OBVIOUS
<1>3. PICK denoted : denoted = [k \in 1..Product(out) |-> LastRow("x", Unflatten(out, k - 1)) \o <<500>>]
  OBVIOUS
<1>4. PICK keep \in BOOLEAN :
        Call("mean", Rank(x) > 0 /\ x.dtype \in Floats /\ OwnsDense(x),
             [k \in 1..Product(Kept(x.dims, TRUE)) |->
                LastRow("x", Unflatten(Kept(x.dims, TRUE), k - 1)) \o <<500>>],
             DispatchBinary(
               Sided(Dense(Kept(x.dims, keep), x.dtype, DispatchReduce(x, Kept(x.dims, keep))),
                     BroadcastShape(Dense(Kept(x.dims, keep), x.dtype,
                                          DispatchReduce(x, Kept(x.dims, keep))).dims, <<1>>)),
               Sided(Dense(<<1>>, x.dtype, <<<<500>>>>),
                     BroadcastShape(Dense(Kept(x.dims, keep), x.dtype,
                                          DispatchReduce(x, Kept(x.dims, keep))).dims, <<1>>)),
               BroadcastShape(Dense(Kept(x.dims, keep), x.dtype,
                                    DispatchReduce(x, Kept(x.dims, keep))).dims, <<1>>),
               x.dtype))
  BY DEF Mean, Tabulate, Sided
<1>5. PICK kept : kept = Kept(t.dims, keep)
  OBVIOUS
<1>6. PICK sums : sums = DispatchReduce(x, kept)
  OBVIOUS
<1>7. PICK a, b : a = Dense(kept, t.dtype, sums) /\ b = Dense(<<1>>, t.dtype, <<<<500>>>>)
  OBVIOUS
<1>8. a.dims = kept /\ b.dims = <<1>>
  BY <1>7 DEF Dense
<1>9. PICK dims : dims = BroadcastShape(kept, <<1>>)
  OBVIOUS
<1>10. PICK got : got = DispatchBinary(Sided(a, dims), Sided(b, dims), dims, t.dtype)
  OBVIOUS
<1>11. PICK accepted : (accepted => Rank(t) > 0 /\ OwnsDense(t)) /\ Call("mean", accepted, denoted, got)
  <2>1. a = Dense(Kept(x.dims, keep), x.dtype, DispatchReduce(x, Kept(x.dims, keep)))
    BY <1>1, <1>5, <1>6, <1>7, Zenon
  <2>2. dims = BroadcastShape(Dense(Kept(x.dims, keep), x.dtype,
                                    DispatchReduce(x, Kept(x.dims, keep))).dims, <<1>>)
    BY <1>8, <1>9, <2>1, Zenon
  <2>3. denoted = [k \in 1..Product(Kept(x.dims, TRUE)) |->
                     LastRow("x", Unflatten(Kept(x.dims, TRUE), k - 1)) \o <<500>>]
    BY <1>1, <1>2, <1>3, Zenon
  <2>4. b = Dense(<<1>>, x.dtype, <<<<500>>>>)
    BY <1>1, <1>7, Zenon
  <2>5. got = DispatchBinary(Sided(a, dims), Sided(b, dims), dims, x.dtype)
    BY <1>1, <1>10, Zenon
  <2>6. Call("mean", Rank(x) > 0 /\ x.dtype \in Floats /\ OwnsDense(x), denoted, got)
    BY <1>4, <2>1, <2>2, <2>3, <2>4, <2>5, ZenonT(60)
  <2>7. PICK accepted : accepted = (Rank(x) > 0 /\ x.dtype \in Floats /\ OwnsDense(x))
    OBVIOUS
  <2>8. Call("mean", accepted, denoted, got)
    BY <2>6, <2>7, Zenon
  <2>9. accepted => Rank(t) > 0 /\ OwnsDense(t)
    BY <1>1, <2>7, Zenon
  <2>10. QED
    BY <2>8, <2>9, Zenon
<1>12. ASSUME accepted, got # Refused PROVE got = denoted
  <2>1. t.dims # <<>> /\ ~t.view
    <3>1. Rank(t) > 0 /\ ~t.view
      BY <1>11, <1>12 DEF OwnsDense
    <3>2. QED
      BY <1>1, <3>1 DEF Rank
  <2>2. kept \in Seq(Nat) /\ Product(kept) = Product(Lead(t.dims))
    BY <1>1, <1>5, <2>1, KeptType
  <2>3. ~x.view /\ x.dims # <<>> /\ Product(kept) = Product(Lead(x.dims)) /\ out = Kept(x.dims, TRUE)
    BY <1>1, <1>2, <2>1, <2>2, Zenon
  <2>4. Product(kept) = Product(out)
    BY <1>6, <2>2, <2>3, ReduceComputes
  <2>5. Rowwise(sums, "x", out)
    BY <1>6, <2>2, <2>3, ReduceComputes
  <2>6. sums \in [1..Product(kept) -> Value]
    BY <1>6, <2>2, <2>3, ReduceComputes
  <2>7. Holds(a, sums)
    BY <1>7, <2>2, <2>6, DenseHolds
  <2>8. PICK unit, five : unit = <<1>> /\ five = <<<<500>>>>
    BY ZenonT(60)
  <2>9. unit \in Seq(Nat) /\ five \in [1..1 -> Value] /\ five[1] = <<500>>
    <3>1. unit \in Seq(Nat)
      BY <2>8
    <3>2. PICK value : value = <<500>>
      OBVIOUS
    <3>3. value \in Value
      BY <3>2 DEF Value
    <3>4. five = <<value>>
      BY <2>8, <3>2, Zenon
    <3>5. five \in [1..1 -> Value] /\ five[1] = value
      BY ONLY <3>3, <3>4
    <3>6. QED
      BY <3>1, <3>2, <3>5
  <2>10. Product(unit) = 1
    <3>1. DOMAIN unit = 1..1 /\ unit[1] = 1
      BY <2>8
    <3>2. QED
      BY <3>1, SingleItem
  <2>11. Holds(b, five)
    <3>1. five \in [1..Product(unit) -> Value]
      BY <2>9, <2>10
    <3>2. b = Dense(unit, t.dtype, five)
      BY <1>7, <2>8
    <3>3. QED
      BY <2>9, <3>1, <3>2, DenseHolds
  <2>12. dims \in Seq(Nat) /\ Stretches(kept, dims) /\ Stretches(<<1>>, dims)
    BY <1>9, <2>2, UnitShape
  <2>13. IF kept = <<>> THEN dims = <<1>> ELSE dims = kept
    BY <1>9, <2>2, UnitShape
  <2>14. PICK wa, wb : wa = Broadcasted(sums, a.dims, dims) /\ wb = Broadcasted(five, b.dims, dims)
    OBVIOUS
  <2>15. Stretches(a.dims, dims) /\ Stretches(b.dims, dims)
    BY <1>8, <2>12
  <2>16. /\ Holds(Sided(a, dims), wa) /\ Sided(a, dims).dims = dims
         /\ a.dims = dims => wa = sums
    BY <2>7, <2>12, <2>14, <2>15, SideHolds
  <2>17. Holds(Sided(b, dims), wb) /\ Sided(b, dims).dims = dims
    BY <2>11, <2>12, <2>14, <2>15, SideHolds
  <2>18. Paired(got, wa, wb, Product(dims))
    BY <1>10, <1>12, <2>12, <2>16, <2>17, BinaryComputes
  <2>19. \A k \in 1..Product(dims) : wb[k] = <<500>>
    <3>1. Stretched(wb, dims, five, b)
      BY <2>12, <2>14, BroadcastedIs
    <3>2. QED
      BY <1>8, <2>9, <2>12, <3>1, StretchedUnit
  <2>20. Product(dims) = Product(kept) /\ \A k \in 1..Product(dims) : wa[k] = sums[k]
    <3>1. CASE kept # <<>>
      BY <1>8, <2>13, <2>16, <3>1
    <3>2. CASE kept = <<>>
      <4>1. Product(dims) = 1
        BY <2>8, <2>10, <2>13, <3>2
      <4>2. Product(kept) = 1
        <5>1. DOMAIN kept = {}
          BY <3>2
        <5>2. QED
          BY <5>1, ProductNone
      <4>3. Stretched(wa, dims, sums, a)
        BY <2>12, <2>14, BroadcastedIs
      <4>4. \A k \in 1..Product(dims) : wa[k] = sums[1]
        BY <1>8, <2>12, <3>2, <4>3, StretchedUnit
      <4>5. \A k \in 1..1 : k = 1
        OBVIOUS
      <4>6. QED
        BY <4>1, <4>2, <4>4, <4>5
    <3>3. QED
      BY <3>1, <3>2
  <2>21. \A k \in 1..Product(out) : sums[k] = LastRow("x", Unflatten(out, k - 1))
    BY <2>5, Zenon DEF Rowwise
  <2>22. \A k \in 1..Product(out) : wa[k] \o wb[k] = LastRow("x", Unflatten(out, k - 1)) \o <<500>>
    BY <2>4, <2>19, <2>20, <2>21, ZenonT(40)
  <2>23. QED
    BY <1>3, <2>4, <2>18, <2>20, <2>22, ZenonT(40) DEF Paired
<1>13. QED
  BY <1>11, <1>12, CallComputes

----------------------------------------------------------------------------
\* dequantize.

\* Row-major counting in units of b.
LEMMA RowDivides ==
  ASSUME NEW f \in Nat, NEW d \in Nat, NEW b \in Nat, b > 0, NEW c \in Nat,
         NEW k, k = f * (d * b) + c
  PROVE  /\ c \div b \in Nat /\ c % b \in Nat /\ k \in Nat
         /\ k \div b = f * d + (c \div b) /\ k % b = c % b
         /\ c < d * b => c \div b < d
<1>1. PICK q \in Nat, r \in Nat : q = c \div b /\ r = c % b /\ r < b /\ c = q * b + r
  BY DivMod
<1>2. PICK m \in Nat : m = f * d + q
  OBVIOUS
<1>3. k = m * b + r /\ k \in Nat
  BY <1>1, <1>2
<1>4. k \div b = f * d + q /\ k % b = r
  <2>1. r < b
    BY <1>1
  <2>2. k \div b = m /\ k % b = r
    BY ONLY <1>3, <2>1, m \in Nat, r \in Nat, b \in Nat, DivUnique
  <2>3. QED
    BY <1>2, <2>2, Zenon
<1>5. ASSUME c < d * b, q >= d PROVE FALSE
  <2>1. q * b >= d * b
    BY ONLY <1>5, q \in Nat, d \in Nat, b \in Nat
  <2>2. QED
    BY <1>1, <1>5, <2>1
<1>6. QED
  BY <1>1, <1>2, <1>4, <1>5

\* Column j of the row of idx has index w and position at.
Column(at, w, j, idx, u, head, dims, n) ==
  /\ InRow(idx, u, head, dims, n) /\ j \in Nat /\ j < dims[n]
  /\ w = [idx EXCEPT ![n] = j] /\ at = Flatten(head, u) * dims[n] + j

\* What an operand says along the row of an index.
LEMMA SaysInRow ==
  ASSUME IInv, NEW a \in Arg, Flat(arg[a], says[a]),
         NEW at, NEW w, NEW j, NEW idx, NEW u, NEW head, NEW n,
         Column(at, w, j, idx, u, head, arg[a].dims, n)
  PROVE  /\ at \in Nat /\ at < Product(arg[a].dims)
         /\ Read(arg[a].store, at) = Says(a, w)
<1>1. InRow(idx, u, head, arg[a].dims, n) /\ j \in Nat /\ j < arg[a].dims[n]
  BY Zenon DEF Column
<1>2. PICK t, v : t = arg[a] /\ v = says[a]
  OBVIOUS
<1>3. PICK d \in Nat : d = t.dims[n]
  BY <1>1, <1>2, RowFacts DEF InRow
<1>4. PICK f \in Nat : f = Flatten(head, u)
  BY <1>1, ColumnFacts
<1>5. PICK k \in Nat : k = f * d + j
  BY <1>1, <1>3, <1>4
<1>6. at = k
  BY <1>2, <1>3, <1>4, <1>5, Zenon DEF Column
<1>7. Flatten(t.dims, [idx EXCEPT ![n] = j]) = k
  <2>1. Flatten(t.dims, [idx EXCEPT ![n] = j]) = Flatten(head, u) * t.dims[n] + j
    BY <1>1, <1>2, ColumnFacts
  <2>2. QED
    BY <1>3, <1>4, <1>5, <2>1, Zenon
<1>8. k < Product(t.dims)
  <2>1. Flatten(head, u) * t.dims[n] + j < Product(t.dims)
    BY <1>1, <1>2, ColumnFacts
  <2>2. Flatten(head, u) * t.dims[n] + j = k
    BY <1>3, <1>4, <1>5, Zenon
  <2>3. QED
    BY <2>1, <2>2, Zenon
<1>9. Read(t.store, k) = v[k + 1]
  BY <1>2, <1>8, FlatRead
<1>10. w = [idx EXCEPT ![n] = j]
  BY Zenon DEF Column
<1>11. Says(a, w) = v[Flatten(t.dims, w) + 1]
  BY <1>2, OperandFacts DEF ValueAt
<1>12. QED
  BY <1>2, <1>5, <1>6, <1>7, <1>8, <1>9, <1>10, <1>11, Zenon

\* The twin of an operand holds the values 50 above its own.
Above(w, v, p) == w = [k \in 1..p |-> Plus50(v[k])]

\* The third operand of a quantized op, 50 above the second, is laid out as it is.
LEMMA TwinHolds ==
  ASSUME NEW t, NEW v, Holds(t, v), NEW w, Above(w, v, Product(t.dims))
  PROVE  /\ Holds(Third(t), w)
         /\ Third(t).dims = t.dims /\ Third(t).strides = t.strides /\ Third(t).off = t.off
         /\ Third(t).view = t.view /\ Len(Third(t).store) = Len(t.store)
<1>1. /\ WellFormed(t) /\ DenseUnlessView(t) /\ v \in [1..Product(t.dims) -> Value]
      /\ \A idx \in Indices(t.dims) : /\ Address(t, idx) \in 0..(Len(t.store) - 1)
                                      /\ t.store[Address(t, idx) + 1] = v[Flatten(t.dims, idx) + 1]
  BY DEF Holds
<1>2. PICK d, s, o, view, ty, l, b : t = Strided(d, s, o, view, ty, l, b)
  BY <1>1 DEF WellFormed
<1>3. t.dims = d /\ t.strides = s /\ t.off = o /\ t.view = view /\ t.dtype = ty /\ t.leaf = l /\ t.store = b
  BY <1>2, StridedFields
<1>4. PICK c : c = [i \in DOMAIN b |-> Plus50(b[i])]
  OBVIOUS
<1>5. PICK u : u = Strided(d, s, o, view, ty, l, c)
  OBVIOUS
<1>6. Third(t) = u
  <2>1. Third(t) = [t EXCEPT !.store = c]
    BY <1>3, <1>4, Zenon DEF Third, Plus50
  <2>2. [Strided(d, s, o, view, ty, l, b) EXCEPT !.store = c] = Strided(d, s, o, view, ty, l, c)
    BY DEF Strided
  <2>3. QED
    BY <1>2, <1>5, <2>1, <2>2, Zenon
<1>7. u.dims = d /\ u.strides = s /\ u.off = o /\ u.view = view /\ u.dtype = ty /\ u.leaf = l /\ u.store = c
  BY <1>5, StridedFields
<1>8. \A value \in Value : Plus50(value) \in Value
  <2>1. ASSUME NEW value \in Seq(Int) PROVE [j \in DOMAIN value |-> value[j] + 50] \in Seq(Int)
    <3>1. PICK n \in Nat : n = Len(value) /\ DOMAIN value = 1..n /\ \A j \in 1..n : value[j] \in Int
      OBVIOUS
    <3>2. [j \in 1..n |-> value[j] + 50] \in [1..n -> Int]
      BY <3>1
    <3>3. \A f \in [1..n -> Int] : f \in Seq(Int)
      BY ONLY n \in Nat
    <3>4. QED
      BY <3>1, <3>2, <3>3, Zenon
  <2>2. QED
    BY <2>1 DEF Plus50, Value
<1>9. PICK z \in Nat : z = Len(b) /\ DOMAIN b = 1..z /\ \A i \in 1..z : b[i] \in Value
  <2>1. b \in Seq(Value)
    BY <1>1, <1>3 DEF WellFormed
  <2>2. QED
    BY <2>1
<1>10. c \in [1..z -> Value] /\ \A i \in 1..z : c[i] = Plus50(b[i])
  BY <1>4, <1>8, <1>9
<1>11. c \in Seq(Value) /\ Len(c) = z
  BY ONLY <1>10, z \in Nat
<1>12. PICK p : p = Product(d)
  OBVIOUS
<1>13. w \in [1..p -> Value] /\ \A k \in 1..p : w[k] = Plus50(v[k])
  <2>1. w = [k \in 1..p |-> Plus50(v[k])]
    BY <1>3, <1>12, Zenon DEF Above
  <2>2. \A k \in 1..p : v[k] \in Value
    BY <1>1, <1>3, <1>12, Zenon
  <2>3. QED
    BY <1>8, <2>1, <2>2
<1>14. ASSUME NEW idx \in Indices(d)
       PROVE  /\ Address(u, idx) \in 0..(Len(u.store) - 1)
              /\ u.store[Address(u, idx) + 1] = w[Flatten(d, idx) + 1]
  <2>1. Address(u, idx) = Address(t, idx)
    BY <1>3, <1>7, Zenon DEF Address
  <2>2. PICK at \in Nat : at = Address(t, idx) /\ at + 1 \in 1..z /\ at \in 0..(z - 1)
    BY <1>1, <1>3, <1>9
  <2>3. PICK f \in Nat : f = Flatten(d, idx) /\ f + 1 \in 1..p
    <3>1. d \in Seq(Nat)
      BY <1>1, <1>3 DEF WellFormed
    <3>2. Flatten(d, idx) \in Nat /\ Flatten(d, idx) < Product(d)
      BY <3>1, FlattenBelow
    <3>3. Product(d) \in Nat
      BY <3>1, BlockFacts
    <3>4. QED
      BY <1>12, <3>2, <3>3
  <2>4. b[at + 1] = v[f + 1]
    BY <1>1, <1>3, <2>2, <2>3, Zenon
  <2>5. c[at + 1] = Plus50(b[at + 1]) /\ w[f + 1] = Plus50(v[f + 1])
    BY <1>10, <1>13, <2>2, <2>3, Zenon
  <2>6. c[at + 1] = w[f + 1]
    BY <2>4, <2>5, Zenon
  <2>7. QED
    BY <1>7, <1>11, <2>1, <2>2, <2>3, <2>6, Zenon
<1>15. WellFormed(u)
  <2>1. /\ d \in Seq(Nat) /\ s \in [1..Len(d) -> Nat] /\ o \in Nat
        /\ view \in BOOLEAN /\ l \in BOOLEAN
    BY <1>1, <1>3, Zenon DEF WellFormed
  <2>2. QED
    BY <1>5, <1>7, <1>11, <2>1, Zenon DEF WellFormed
<1>16. DenseUnlessView(u)
  <2>1. Len(u.store) = Len(t.store)
    BY <1>3, <1>7, <1>9, <1>11, Zenon
  <2>2. QED
    BY <1>1, <1>3, <1>7, <2>1, Zenon DEF DenseUnlessView
<1>17. Holds(u, w)
  BY <1>7, <1>12, <1>13, <1>14, <1>15, <1>16, Zenon DEF Holds
<1>18. QED
  BY <1>3, <1>6, <1>7, <1>9, <1>11, <1>17, Zenon

\* So it is read 50 above, too.
LEMMA TwinRead ==
  ASSUME NEW t, NEW v, Flat(t, v), NEW k \in Nat, k < Product(t.dims)
  PROVE  Read(Third(t).store, k) = Plus50(Read(t.store, k))
<1>1. Holds(t, v) /\ t.strides = Contiguous(t.dims) /\ t.off = 0
  BY DEF Flat
<1>2. PICK w : Above(w, v, Product(t.dims))
  BY DEF Above
<1>3. /\ Holds(Third(t), w)
      /\ Third(t).dims = t.dims /\ Third(t).strides = t.strides /\ Third(t).off = t.off
  BY <1>1, <1>2, TwinHolds
<1>4. Flat(Third(t), w)
  BY <1>1, <1>3, Zenon DEF Flat
<1>5. Read(Third(t).store, k) = w[k + 1]
  BY <1>3, <1>4, FlatRead
<1>6. Read(t.store, k) = v[k + 1]
  BY FlatRead
<1>7. k + 1 \in 1..Product(t.dims)
  <2>1. Product(t.dims) \in Nat
    BY <1>1, OwnedStore
  <2>2. QED
    BY <2>1
<1>8. w[k + 1] = Plus50(v[k + 1])
  BY <1>2, <1>7, Zenon DEF Above
<1>9. QED
  BY <1>5, <1>6, <1>8

\* dequantize.
LEMMA DequantizeCall ==
  ASSUME IInv, DequantizeAffine
  PROVE  DispatchComputes'
<1>1. PICK dims :
        /\ dims = [x.dims EXCEPT ![Rank(x)] = @ * Lanes]
        /\ Rank(x) > 0 /\ dims = [y.dims EXCEPT ![Rank(y)] = @ * GroupSize]
        /\ Call("dequantize", /\ x.dtype = "U32" /\ y.dtype = "BF16"
                              /\ IsContiguous(x) /\ IsContiguous(y),
                [k \in 1..Product(dims) |->
                   Says("x", [Unflatten(dims, k - 1) EXCEPT ![Rank(x)] = @ \div Lanes])
                     \o <<Unflatten(dims, k - 1)[Rank(x)] % Lanes>>
                     \o Says("y", [Unflatten(dims, k - 1) EXCEPT ![Rank(x)] = @ \div GroupSize])
                     \o Plus50(Says("y", [Unflatten(dims, k - 1) EXCEPT ![Rank(x)] = @ \div GroupSize]))],
                DispatchDequantize(x, y, Third(y), dims))
  BY Zenon DEF DequantizeAffine, Tabulate
<1>2. PICK t, s : t = x /\ s = y /\ t = arg["x"] /\ s = arg["y"] /\ t.dims \in Seq(Nat) /\ s.dims \in Seq(Nat)
  BY OperandFacts DEF x, y, Arg
<1>21. /\ dims = [t.dims EXCEPT ![Rank(t)] = t.dims[Rank(t)] * Lanes]
       /\ Rank(t) > 0 /\ dims = [s.dims EXCEPT ![Rank(s)] = s.dims[Rank(s)] * GroupSize]
  BY <1>1, <1>2, Zenon
<1>3. PICK n \in Nat : n = Rank(t) /\ n > 0 /\ n = Len(t.dims)
  <2>1. Len(t.dims) \in Nat /\ Len(t.dims) = Rank(t)
    BY <1>2 DEF Rank
  <2>2. QED
    BY <1>21, <2>1
<1>4. PICK head : head = Lead(t.dims)
  OBVIOUS
<1>5. AllButLast(head, t.dims, n)
  BY <1>2, <1>3, <1>4, LeadIs
<1>6. PICK d \in Nat : d = t.dims[n]
  BY <1>5, RowFacts
<1>7. PICK lanes \in Nat : lanes = Lanes
  BY QuantizationAssumption DEF Lanes
<1>8. WithLast(dims, t.dims, n, d * lanes)
  <2>1. d * lanes \in Nat
    BY <1>6, <1>7
  <2>2. dims = [t.dims EXCEPT ![n] = d * lanes]
    BY <1>3, <1>6, <1>7, <1>21, Zenon
  <2>3. QED
    BY <2>1, <2>2, Zenon DEF WithLast
<1>9. AllButLast(head, dims, n) /\ dims[n] = d * lanes
  <2>1. SameRows(head, t.dims, dims, n) /\ dims[n] = d * lanes
    BY <1>5, <1>8, LastAxisIs
  <2>2. QED
    BY <2>1, Zenon DEF SameRows
<1>10. Rank(s) = n
  <2>0. \A q, a, b : DOMAIN [q EXCEPT ![a] = b] = DOMAIN q
    OBVIOUS
  <2>5. DOMAIN dims = DOMAIN s.dims
    BY <1>21, <2>0, Zenon
  <2>1. DOMAIN dims = DOMAIN s.dims /\ DOMAIN s.dims = 1..Len(s.dims) /\ Len(s.dims) \in Nat
    BY <1>2, <2>5
  <2>2. dims \in [1..n -> Nat]
    BY <1>9, RowFacts
  <2>3. 1..n = 1..Len(s.dims)
    BY <2>1, <2>2
  <2>4. QED
    BY <2>1, <2>3 DEF Rank
<1>11. AllButLast(Lead(s.dims), s.dims, n)
  <2>1. s.dims # <<>> /\ n = Len(s.dims)
    BY <1>2, <1>3, <1>10 DEF Rank
  <2>2. QED
    BY <1>2, <2>1, LeadIs
<1>12. PICK e \in Nat : e = s.dims[n]
  BY <1>11, RowFacts
<1>13. PICK g \in Nat : g = GroupSize
  BY QuantizationAssumption
<1>14. WithLast(dims, s.dims, n, e * g)
  <2>1. e * g \in Nat
    BY <1>12, <1>13
  <2>2. dims = [s.dims EXCEPT ![n] = e * g]
    BY <1>10, <1>12, <1>13, <1>21, Zenon
  <2>3. QED
    BY <2>1, <2>2, Zenon DEF WithLast
<1>15. AllButLast(Lead(s.dims), dims, n) /\ dims[n] = e * g
  <2>1. SameRows(Lead(s.dims), s.dims, dims, n) /\ dims[n] = e * g
    BY <1>11, <1>14, LastAxisIs
  <2>2. QED
    BY <2>1, Zenon DEF SameRows
<1>16. AllButLast(head, s.dims, n)
  BY <1>9, <1>11, <1>15, Zenon DEF AllButLast
<1>17. PICK denoted :
         denoted = [k \in 1..Product(dims) |->
                      Says("x", [Unflatten(dims, k - 1) EXCEPT ![n] = @ \div lanes])
                        \o <<Unflatten(dims, k - 1)[n] % lanes>>
                        \o Says("y", [Unflatten(dims, k - 1) EXCEPT ![n] = @ \div g])
                        \o Plus50(Says("y", [Unflatten(dims, k - 1) EXCEPT ![n] = @ \div g]))]
  OBVIOUS
<1>18. PICK got : got = DispatchDequantize(t, s, Third(s), dims)
  OBVIOUS
<1>19. PICK accepted : Call("dequantize", accepted, denoted, got)
  BY <1>1, <1>2, <1>3, <1>7, <1>13, <1>17, <1>18, Zenon
<1>20. ASSUME got # Refused PROVE got = denoted
  <2>1. PICK p, out : p \in Nat /\ p = Product(dims) /\ out = Out(dims) /\ DOMAIN out = 1..p /\ Len(out) = p
    <3>1. dims \in Seq(Nat)
      BY <1>9, RowFacts
    <3>2. QED
      BY <3>1, OutFacts
  <2>2. /\ ~t.view /\ ~s.view
        /\ got = EncodeDequantize(t.store, s.store, Third(s).store, out)
    BY <1>18, <1>20, <2>1 DEF DispatchDequantize, Unless, DenseInput
  <2>3. Flat(arg["x"], says["x"]) /\ Flat(arg["y"], says["y"])
    BY <1>2, <2>2, OperandFacts, OwnerFlat DEF Arg
  <2>4. CASE p = 0
    <3>1. got = out
      BY <2>1, <2>2, <2>4 DEF EncodeDequantize
    <3>2. out \in [1..0 -> Value]
      <4>1. dims \in Seq(Nat)
        BY <1>9, RowFacts
      <4>2. QED
        BY <2>1, <2>4, <4>1, OutFacts
    <3>3. \A a, b : a = [k \in 1..0 |-> b[k]] => DOMAIN a = {}
      OBVIOUS
    <3>4. DOMAIN denoted = {} /\ denoted = [k \in {} |-> denoted[k]]
      BY <1>17, <2>1, <2>4
    <3>5. DOMAIN out = {} /\ out = [k \in {} |-> out[k]]
      BY <3>2
    <3>6. QED
      BY <3>1, <3>4, <3>5
  <2>5. CASE p # 0
    <3>1. got = [i \in 1..p |-> Weight(t.store, s.store, Third(s).store, i - 1)]
      BY <1>20, <2>1, <2>2, <2>5, Zenon DEF EncodeDequantize
    <3>2. ASSUME NEW i \in 1..p
          PROVE  Weight(t.store, s.store, Third(s).store, i - 1)
                   = Says("x", [Unflatten(dims, i - 1) EXCEPT ![n] = @ \div lanes])
                       \o <<Unflatten(dims, i - 1)[n] % lanes>>
                       \o Says("y", [Unflatten(dims, i - 1) EXCEPT ![n] = @ \div g])
                       \o Plus50(Says("y", [Unflatten(dims, i - 1) EXCEPT ![n] = @ \div g]))
      <4>1. PICK k \in Nat : k = i - 1 /\ k < p
        BY ONLY <2>1, i \in 1..p
      <4>2. PICK idx : idx = Unflatten(dims, k)
        OBVIOUS
      <4>3. PICK u \in Indices(head) : Starts(u, idx, n - 1, n) /\ Flatten(head, u) = k \div dims[n]
        BY <1>9, <2>1, <4>1, <4>2, IndexRow
      <4>4. dims[n] > 0 /\ idx[n] = k % dims[n]
        BY <1>9, <2>1, <4>1, <4>2, IndexRow
      <4>5. PICK w \in Nat : w = dims[n] /\ w > 0 /\ w = d * lanes /\ w = e * g
        BY <1>9, <1>15, <4>4
      <4>6. PICK f \in Nat, c \in Nat : f = k \div w /\ c = k % w /\ c < w /\ k = f * w + c
        BY <4>1, <4>5, DivMod
      <4>7. Flatten(head, u) = f /\ idx[n] = c
        BY <4>3, <4>4, <4>5, <4>6
      <4>8. lanes > 0 /\ g > 0
        BY <4>5
      <4>9. PICK a \in Nat : a = c \div lanes /\ a < d /\ k \div lanes = f * d + a /\ k % lanes = c % lanes
        <5>1. k = f * (d * lanes) + c /\ c < d * lanes
          BY <4>5, <4>6
        <5>2. /\ c \div lanes \in Nat
              /\ k \div lanes = f * d + (c \div lanes) /\ k % lanes = c % lanes
              /\ c \div lanes < d
          BY ONLY <4>8, <5>1, f \in Nat, d \in Nat, lanes \in Nat, c \in Nat, RowDivides
        <5>3. QED
          BY <5>2
      <4>10. PICK b \in Nat : b = c \div g /\ b < e /\ k \div g = f * e + b
        <5>1. k = f * (e * g) + c /\ c < e * g
          BY <4>5, <4>6
        <5>2. c \div g \in Nat /\ k \div g = f * e + (c \div g) /\ c \div g < e
          BY ONLY <4>8, <5>1, f \in Nat, e \in Nat, g \in Nat, c \in Nat, RowDivides
        <5>3. QED
          BY <5>2
      <4>11. InRow(idx, u, head, t.dims, n) /\ InRow(idx, u, head, s.dims, n)
        BY <1>5, <1>16, <4>3, Zenon DEF InRow
      <4>12. Read(t.store, f * d + a) = Says("x", [idx EXCEPT ![n] = a])
        <5>1. PICK at, z : at = f * d + a /\ z = [idx EXCEPT ![n] = a]
          OBVIOUS
        <5>5. Column(at, z, a, idx, u, head, arg["x"].dims, n)
          BY <1>2, <1>6, <4>7, <4>9, <4>11, <5>1, Zenon DEF Column
        <5>6. "x" \in Arg
          BY DEF Arg
        <5>7. Read(arg["x"].store, at) = Says("x", z) /\ at \in Nat /\ at < Product(arg["x"].dims)
          BY <2>3, <5>5, <5>6, SaysInRow
        <5>2. Read(arg["x"].store, f * d + a) = Says("x", [idx EXCEPT ![n] = a])
          BY <5>1, <5>7, Zenon
        <5>3. QED
          BY <1>2, <5>2, Zenon
      <4>13. /\ Read(s.store, f * e + b) = Says("y", [idx EXCEPT ![n] = b])
             /\ f * e + b \in Nat /\ f * e + b < Product(s.dims)
        <5>1. PICK at, z : at = f * e + b /\ z = [idx EXCEPT ![n] = b]
          OBVIOUS
        <5>5. Column(at, z, b, idx, u, head, arg["y"].dims, n)
          BY <1>2, <1>12, <4>7, <4>10, <4>11, <5>1, Zenon DEF Column
        <5>6. "y" \in Arg
          BY DEF Arg
        <5>7. Read(arg["y"].store, at) = Says("y", z) /\ at \in Nat /\ at < Product(arg["y"].dims)
          BY <2>3, <5>5, <5>6, SaysInRow
        <5>2. Read(arg["y"].store, f * e + b) = Says("y", [idx EXCEPT ![n] = b])
          BY <5>1, <5>7, Zenon
        <5>3. f * e + b \in Nat /\ f * e + b < Product(arg["y"].dims)
          BY <5>1, <5>7, Zenon
        <5>4. QED
          BY <1>2, <5>2, <5>3, Zenon
      <4>14. Read(Third(s).store, f * e + b) = Plus50(Says("y", [idx EXCEPT ![n] = b]))
        <5>1. Flat(s, says["y"])
          BY <1>2, <2>3, Zenon
        <5>2. Read(Third(s).store, f * e + b) = Plus50(Read(s.store, f * e + b))
          BY <4>13, <5>1, TwinRead
        <5>3. QED
          BY <4>13, <5>2, Zenon
      <4>15. /\ [idx EXCEPT ![n] = @ \div lanes] = [idx EXCEPT ![n] = a]
             /\ [idx EXCEPT ![n] = @ \div g] = [idx EXCEPT ![n] = b]
        BY <4>7, <4>9, <4>10, Zenon
      <4>16. idx[n] % lanes = k % lanes
        BY <4>7, <4>9, Zenon
      <4>17. Weight(t.store, s.store, Third(s).store, k)
               = Read(t.store, k \div lanes) \o <<k % lanes>> \o Read(s.store, k \div g)
                   \o Read(Third(s).store, k \div g)
        BY <1>7, <1>13, Zenon DEF Weight, Lanes
      <4>18. QED
        BY <4>1, <4>2, <4>9, <4>10, <4>12, <4>13, <4>14, <4>15, <4>16, <4>17, Zenon
    <3>3. QED
      BY <1>17, <2>1, <3>1, <3>2, Zenon
  <2>6. QED
    BY <2>4, <2>5
<1>22. QED
  BY <1>19, <1>20, CallComputes

----------------------------------------------------------------------------
\* matmul.

\* w is row r, column c of matrix u of a shape, at position at.
Plane(at, w, u, r, c, head, dims, n) ==
  /\ HeadOf(head, dims, n) /\ u \in Indices(head) /\ TwoAppended(w, u, r, c, n)
  /\ r < dims[n - 1] /\ c < dims[n] /\ at = c + dims[n] * (r + dims[n - 1] * Flatten(head, u))

\* That index is one of the shape's.
LEMMA PlaneFacts ==
  ASSUME NEW at, NEW w, NEW u, NEW r, NEW c, NEW head, NEW dims, NEW n,
         Plane(at, w, u, r, c, head, dims, n)
  PROVE  w \in Indices(dims) /\ Flatten(dims, w) = at /\ at \in Nat /\ at < Product(dims)
<1>1. /\ HeadOf(head, dims, n) /\ u \in Indices(head) /\ TwoAppended(w, u, r, c, n)
      /\ r < dims[n - 1] /\ c < dims[n] /\ at = c + dims[n] * (r + dims[n - 1] * Flatten(head, u))
  BY DEF Plane
<1>2. /\ n \in Nat /\ n - 2 \in Nat /\ n = Len(dims) /\ dims \in Seq(Nat) /\ head \in Seq(Nat)
      /\ Len(head) = n - 2 /\ \A a \in 1..(n - 2) : head[a] = dims[a]
  BY <1>1, HeadFacts
<1>3. /\ w \in [1..n -> Nat] /\ \A a \in 1..(n - 2) : w[a] = u[a]
      /\ w[n - 1] = r /\ w[n] = c
  BY <1>1, TwoMore
<1>4. Flatten(dims, w) = at
  BY <1>1, FlattenTwoMore
<1>5. \A a \in 1..(n - 2) : u[a] < head[a]
  BY <1>1, <1>2 DEF Indices
<1>11. n \in Nat
  BY <1>2
<1>6. \A a \in 1..n : a \in 1..(n - 2) \/ a = n - 1 \/ a = n
  BY ONLY <1>11
<1>7. \A a \in 1..n : w[a] < dims[a]
  <2>1. ASSUME NEW a \in 1..(n - 2) PROVE w[a] < dims[a]
    BY <1>2, <1>3, <1>5, Zenon
  <2>2. w[n - 1] < dims[n - 1] /\ w[n] < dims[n]
    BY <1>1, <1>3, Zenon
  <2>3. QED
    BY <1>6, <2>1, <2>2, Zenon
<1>8. w \in Indices(dims)
  BY <1>2, <1>3, <1>7 DEF Indices
<1>9. Flatten(dims, w) \in Nat /\ Flatten(dims, w) < Product(dims)
  BY <1>2, <1>8, FlattenBelow
<1>10. QED
  BY <1>4, <1>8, <1>9

\* What a dense operand says there is what its storage has at that position.
LEMMA PlaneRead ==
  ASSUME IInv, NEW a \in Arg, Flat(arg[a], says[a]),
         NEW at, NEW w, NEW u, NEW r, NEW c, NEW head, NEW n, Plane(at, w, u, r, c, head, arg[a].dims, n)
  PROVE  Read(arg[a].store, at) = Says(a, w)
<1>1. PICK t, v : t = arg[a] /\ v = says[a]
  OBVIOUS
<1>2. Flatten(t.dims, w) = at /\ at \in Nat /\ at < Product(t.dims)
  BY <1>1, PlaneFacts
<1>3. Read(t.store, at) = v[at + 1]
  BY <1>1, <1>2, FlatRead
<1>4. Says(a, w) = v[Flatten(t.dims, w) + 1]
  BY <1>1, OperandFacts DEF ValueAt
<1>5. QED
  BY <1>1, <1>2, <1>3, <1>4, Zenon

\* Every position is one of a matrix.
LEMMA PlaneOf ==
  ASSUME NEW head, NEW dims, NEW n, HeadOf(head, dims, n), NEW k, Within(k, dims)
  PROVE  \E u \in Indices(head), r \in Nat, c \in Nat :
           Plane(k, Unflatten(dims, k), u, r, c, head, dims, n)
<1>1. k \in Nat /\ k < Product(dims)
  BY DEF Within
<1>2. /\ n \in Nat /\ n - 2 \in Nat /\ n >= 2 /\ n = Len(dims) /\ dims \in Seq(Nat) /\ head \in Seq(Nat)
      /\ Len(head) = n - 2
  BY HeadFacts
<1>3. dims # <<>> /\ Product(dims) \in Nat
  BY <1>2, BlockFacts
<1>4. PICK idx : idx = Unflatten(dims, k)
  OBVIOUS
<1>5. k \in 0..(Product(dims) - 1)
  BY <1>1, <1>3
<1>6. idx \in Indices(dims)
  BY <1>2, <1>3, <1>4, <1>5, UnflattenType
<1>7. Flatten(dims, idx) = k
  BY <1>2, <1>3, <1>4, <1>5, FlattenUnflatten
<1>8. PICK t \in Threads(dims) : IndexOf(dims, t) = idx
  BY <1>2, <1>3, <1>6, IndexThread
<1>9. /\ Dim0(dims) = dims[n] /\ Dim1(dims) = dims[n - 1] /\ Rest(dims) = Product(head)
      /\ Product(head) \in Nat /\ dims[n - 1] \in Nat /\ dims[n] \in Nat
      /\ IndexOf(dims, t) = Unflatten(head, t[3]) \o <<t[2], t[1]>>
  BY ThreadsOfMore DEF Layered
<1>10. t[1] \in 0..(Dim0(dims) - 1) /\ t[2] \in 0..(Dim1(dims) - 1) /\ t[3] \in 0..(Rest(dims) - 1)
  BY <1>2, <1>3, <1>8, ThreadColumns, SMTT(40)
<1>11. PICK c \in Nat, r \in Nat : c = t[1] /\ r = t[2] /\ c < dims[n] /\ r < dims[n - 1]
  <2>1. PICK e \in Nat, f \in Nat : e = dims[n] /\ f = dims[n - 1]
    BY <1>9
  <2>2. t[1] \in 0..(e - 1) /\ t[2] \in 0..(f - 1)
    BY <1>9, <1>10, <2>1, Zenon
  <2>3. t[1] \in Nat /\ t[1] < e /\ t[2] \in Nat /\ t[2] < f
    BY ONLY <2>2, e \in Nat, f \in Nat
  <2>4. QED
    BY <2>1, <2>3, Zenon
<1>12. PICK u : u = Unflatten(head, t[3])
  OBVIOUS
<1>13. t[3] \in 0..(Product(head) - 1)
  BY <1>9, <1>10
<1>14. u \in Indices(head)
  BY <1>2, <1>9, <1>12, <1>13, UnflattenType
<1>15. u \in [1..(n - 2) -> Nat]
  BY <1>2, <1>14 DEF Indices
<1>16. TwoAppended(idx, u, r, c, n)
  BY <1>2, <1>8, <1>9, <1>11, <1>12, <1>15 DEF TwoAppended
<1>17. Flatten(dims, idx) = c + dims[n] * (r + dims[n - 1] * Flatten(head, u))
  BY <1>16, FlattenTwoMore
<1>18. Plane(k, idx, u, r, c, head, dims, n)
  BY <1>7, <1>11, <1>14, <1>16, <1>17 DEF Plane
<1>19. QED
  BY <1>4, <1>11, <1>14, <1>18, Zenon

\* The shapes of a product: x is [.., m, k], y is [.., k, w], dims [.., m, w].
Gemm(dims, head, n, m, k, w) ==
  /\ HeadOf(head, x.dims, n) /\ HeadOf(head, y.dims, n) /\ HeadOf(head, dims, n)
  /\ x.dims[n - 1] = m /\ x.dims[n] = k /\ y.dims[n - 1] = k /\ y.dims[n] = w
  /\ dims[n - 1] = m /\ dims[n] = w
  /\ m \in Nat /\ k \in Nat /\ w \in Nat

\* The product at an index, and what a thread of the kernel takes for it.
Product2(i, n, k) ==
  InTurn([p \in 1..k |-> Says("x", [i EXCEPT ![n] = p - 1]) \o Says("y", [i EXCEPT ![n - 1] = p - 1])])
Dot(b, r, c, m, k, w) ==
  InTurn([p \in 1..k |-> Read(x.store, b * (m * k) + r * k + p - 1)
                           \o Read(y.store, b * (k * w) + (p - 1) * w + c)])

\* They agree.
LEMMA DotIs ==
  ASSUME IInv, Flat(arg["x"], says["x"]), Flat(arg["y"], says["y"]),
         NEW dims, NEW head, NEW n, NEW m, NEW k, NEW w, Gemm(dims, head, n, m, k, w),
         NEW at, NEW i, NEW u, NEW r, NEW c, Plane(at, i, u, r, c, head, dims, n),
         NEW b, b = Flatten(head, u)
  PROVE  /\ Dot(b, r, c, m, k, w) = Product2(i, n, k)
         /\ b * (m * w) + r * w + c = at
<1>1. /\ HeadOf(head, x.dims, n) /\ HeadOf(head, y.dims, n) /\ HeadOf(head, dims, n)
      /\ x.dims[n - 1] = m /\ x.dims[n] = k /\ y.dims[n - 1] = k /\ y.dims[n] = w
      /\ dims[n - 1] = m /\ dims[n] = w
      /\ m \in Nat /\ k \in Nat /\ w \in Nat
  BY DEF Gemm
<1>2. /\ u \in Indices(head) /\ TwoAppended(i, u, r, c, n)
      /\ r < dims[n - 1] /\ c < dims[n] /\ at = c + dims[n] * (r + dims[n - 1] * Flatten(head, u))
  BY DEF Plane
<1>3. /\ n \in Nat /\ n >= 2 /\ n - 2 \in Nat /\ head \in Seq(Nat)
  BY <1>1, HeadFacts
<1>4. b \in Nat
  BY <1>2, <1>3, FlattenBelow
<1>5. r \in Nat /\ c \in Nat /\ r < m /\ c < w /\ u \in [1..(n - 2) -> Nat] /\ i = u \o <<r, c>>
  BY <1>1, <1>2 DEF TwoAppended
<1>6. i \in [1..n -> Nat] /\ i[n - 1] = r /\ i[n] = c /\ \A a \in 1..(n - 2) : i[a] = u[a]
  BY <1>2, TwoMore
<1>7. at = c + w * (r + m * b)
  BY <1>1, <1>2, Zenon
<1>8. b * (m * w) + r * w + c = c + w * (r + m * b)
  <2>1. m \in Nat /\ w \in Nat /\ r \in Nat /\ c \in Nat
    BY <1>1, <1>5, Zenon
  <2>2. QED
    BY ONLY <1>4, <2>1
<1>9. ASSUME NEW p \in 1..k
      PROVE  /\ Read(x.store, b * (m * k) + r * k + p - 1) = Says("x", [i EXCEPT ![n] = p - 1])
             /\ Read(y.store, b * (k * w) + (p - 1) * w + c) = Says("y", [i EXCEPT ![n - 1] = p - 1])
  <2>12. k \in Nat /\ m \in Nat /\ w \in Nat /\ r \in Nat /\ c \in Nat /\ b \in Nat
    BY <1>1, <1>4, <1>5, Zenon
  <2>1. PICK j \in Nat : j = p - 1 /\ j < k
    BY ONLY <2>12, p \in 1..k
  <2>2. PICK wx, wy : wx = u \o <<r, j>> /\ wy = u \o <<j, c>>
    OBVIOUS
  <2>3. TwoAppended(wx, u, r, j, n) /\ TwoAppended(wy, u, j, c, n)
    BY <1>3, <1>5, <2>1, <2>2 DEF TwoAppended
  <2>4. wx = [i EXCEPT ![n] = j]
    <3>1. wx \in [1..n -> Nat] /\ wx[n - 1] = r /\ wx[n] = j /\ \A a \in 1..(n - 2) : wx[a] = u[a]
      BY <2>3, TwoMore
    <3>2. \A a \in 1..n : a # n => a = n - 1 \/ a \in 1..(n - 2)
      BY <1>3
    <3>3. QED
      BY <1>6, <3>1, <3>2
  <2>5. wy = [i EXCEPT ![n - 1] = j]
    <3>1. wy \in [1..n -> Nat] /\ wy[n - 1] = j /\ wy[n] = c /\ \A a \in 1..(n - 2) : wy[a] = u[a]
      BY <2>3, TwoMore
    <3>2. \A a \in 1..n : a # n - 1 => a = n \/ a \in 1..(n - 2)
      BY <1>3
    <3>3. QED
      BY <1>6, <3>1, <3>2
  <2>6. PICK ax \in Nat, ay \in Nat : ax = j + k * (r + m * b) /\ ay = c + w * (j + k * b)
    BY ONLY <2>12, j \in Nat
  <2>7. b * (m * k) + r * k + p - 1 = ax /\ b * (k * w) + (p - 1) * w + c = ay
    BY ONLY <2>1, <2>6, <2>12, j \in Nat, p \in 1..k
  <2>8. /\ Plane(ax, wx, u, r, j, head, x.dims, n)
        /\ Plane(ay, wy, u, j, c, head, y.dims, n)
    BY <1>1, <1>2, <1>5, <2>1, <2>3, <2>6, Zenon DEF Plane
  <2>9. Read(x.store, ax) = Says("x", wx)
    BY <2>8, PlaneRead DEF x, Arg
  <2>10. Read(y.store, ay) = Says("y", wy)
    BY <2>8, PlaneRead DEF y, Arg
  <2>11. QED
    BY <2>1, <2>4, <2>5, <2>7, <2>9, <2>10, Zenon
<1>10. QED
  BY <1>7, <1>8, <1>9, Zenon DEF Dot, Product2

\* What the threads of the product kernel write.
GemmWrites(m, k, w, batch) ==
  {<<t[3] * (m * w) + t[1] * w + t[2], Dot(t[3], t[1], t[2], m, k, w)>> :
     t \in (0..(m - 1)) \X (0..(w - 1)) \X (0..(batch - 1))}

\* Each element is the product at its index.
Products(v, dims, n, k) == v = [i \in 1..Product(dims) |-> Product2(Unflatten(dims, i - 1), n, k)]

\* A thread of matmul lands inside the output and computes the product of its index.
LEMMA GemmAgrees ==
  ASSUME IInv, Flat(arg["x"], says["x"]), Flat(arg["y"], says["y"]),
         NEW dims, NEW head, NEW n, NEW m, NEW k, NEW w, Gemm(dims, head, n, m, k, w),
         NEW v, Products(v, dims, n, k),
         NEW r \in Nat, NEW c \in Nat, NEW b \in Nat, r < m, c < w, b < Product(head)
  PROVE  /\ b * (m * w) + r * w + c \in 0..(Product(dims) - 1)
         /\ Dot(b, r, c, m, k, w) = v[b * (m * w) + r * w + c + 1]
<1>1. HeadOf(head, dims, n) /\ dims[n - 1] = m /\ dims[n] = w /\ m \in Nat /\ w \in Nat
  BY DEF Gemm
<1>2. n \in Nat /\ n >= 2 /\ n - 2 \in Nat /\ head \in Seq(Nat) /\ Len(head) = n - 2 /\ dims \in Seq(Nat)
  BY <1>1, HeadFacts
<1>3. PICK u : u = Unflatten(head, b)
  OBVIOUS
<1>4. Product(head) \in Nat /\ b \in 0..(Product(head) - 1)
  BY <1>2, BlockFacts, SMTT(40)
<1>5. u \in Indices(head)
  BY <1>2, <1>3, <1>4, UnflattenType
<1>6. Flatten(head, u) = b
  BY <1>2, <1>3, <1>4, FlattenUnflatten
<1>7. PICK i : i = u \o <<r, c>>
  OBVIOUS
<1>8. TwoAppended(i, u, r, c, n)
  <2>1. u \in [1..(n - 2) -> Nat]
    BY <1>2, <1>5 DEF Indices
  <2>2. QED
    BY <1>2, <1>7, <2>1 DEF TwoAppended
<1>9. PICK at : at = c + dims[n] * (r + dims[n - 1] * Flatten(head, u))
  OBVIOUS
<1>10. Plane(at, i, u, r, c, head, dims, n)
  BY <1>1, <1>5, <1>8, <1>9, Zenon DEF Plane
<1>11. i \in Indices(dims) /\ Flatten(dims, i) = at /\ at \in Nat /\ at < Product(dims)
  BY <1>10, PlaneFacts
<1>12. PICK q : q = Product2(i, n, k)
  OBVIOUS
<1>13. Dot(b, r, c, m, k, w) = q
  BY <1>6, <1>10, <1>12, DotIs
<1>14. b * (m * w) + r * w + c = at
  BY <1>6, <1>10, DotIs
<1>15. Unflatten(dims, at) = i
  BY <1>2, <1>11, UnflattenFlatten
<1>16. PICK p \in Nat : p = Product(dims) /\ at < p
  <2>1. Product(dims) \in Nat
    BY <1>2, BlockFacts
  <2>2. QED
    BY <1>11, <2>1
<1>17. at + 1 \in 1..p /\ (at + 1) - 1 = at /\ at \in 0..(p - 1)
  BY <1>11, <1>16
<1>18. v[at + 1] = Product2(Unflatten(dims, (at + 1) - 1), n, k)
  BY <1>16, <1>17, Zenon DEF Products
<1>19. v[at + 1] = q
  BY <1>12, <1>15, <1>17, <1>18, Zenon
<1>20. QED
  BY <1>13, <1>14, <1>16, <1>17, <1>19, Zenon

\* So the kernel leaves the product.
LEMMA GemmComputes ==
  ASSUME IInv, Flat(arg["x"], says["x"]), Flat(arg["y"], says["y"]),
         NEW dims, NEW head, NEW n, NEW m, NEW k, NEW w, Gemm(dims, head, n, m, k, w),
         NEW v, Products(v, dims, n, k)
  PROVE  Written(Out(dims), GemmWrites(m, k, w, Product(head))) = v
<1>1. HeadOf(head, dims, n) /\ dims[n - 1] = m /\ dims[n] = w /\ m \in Nat /\ w \in Nat /\ k \in Nat
  BY DEF Gemm
<1>2. head \in Seq(Nat) /\ dims \in Seq(Nat)
  BY <1>1, HeadFacts
<1>3. PICK p \in Nat : p = Product(dims)
  BY <1>2, BlockFacts
<1>4. PICK rows \in Nat : rows = Product(head)
  BY <1>2, BlockFacts
<1>5. PICK S : S = Value \cup {v[i] : i \in 1..p}
  OBVIOUS
<1>6. Out(dims) \in [1..p -> S]
  <2>1. Out(dims) \in [1..p -> Value]
    BY <1>2, <1>3, OutFacts
  <2>2. QED
    BY <1>5, <2>1
<1>7. v \in [1..p -> S]
  <2>1. DOMAIN v = 1..p /\ v = [i \in 1..p |-> v[i]]
    BY <1>3 DEF Products
  <2>2. \A i \in 1..p : v[i] \in S
    BY <1>5
  <2>3. QED
    BY <2>1, <2>2
<1>8. PICK writes : writes = GemmWrites(m, k, w, rows)
  OBVIOUS
<1>9. Agree(writes, p, v)
  <2>1. ASSUME NEW e \in writes PROVE e[1] \in 0..(p - 1) /\ e[2] = v[e[1] + 1]
    <3>1. PICK t \in (0..(m - 1)) \X (0..(w - 1)) \X (0..(rows - 1)) :
            e = <<t[3] * (m * w) + t[1] * w + t[2], Dot(t[3], t[1], t[2], m, k, w)>>
      BY <1>8 DEF GemmWrites
    <3>2. t[1] \in 0..(m - 1) /\ t[2] \in 0..(w - 1) /\ t[3] \in 0..(rows - 1)
      BY <3>1
    <3>3. PICK r \in Nat, c \in Nat, b \in Nat : r = t[1] /\ c = t[2] /\ b = t[3] /\ r < m /\ c < w /\ b < rows
      BY <1>1, <3>2
    <3>4. e = <<b * (m * w) + r * w + c, Dot(b, r, c, m, k, w)>>
      BY <3>1, <3>3, Zenon
    <3>5. PICK at, got : at = b * (m * w) + r * w + c /\ got = Dot(b, r, c, m, k, w)
      OBVIOUS
    <3>6. b < Product(head)
      BY <1>4, <3>3
    <3>7. b * (m * w) + r * w + c \in 0..(Product(dims) - 1)
      BY <3>3, <3>6, GemmAgrees
    <3>8. Dot(b, r, c, m, k, w) = v[b * (m * w) + r * w + c + 1]
      BY <3>3, <3>6, GemmAgrees
    <3>9. at \in 0..(p - 1) /\ got = v[at + 1]
      BY <1>3, <3>5, <3>7, <3>8, Zenon
    <3>10. e = <<at, got>>
      BY <3>4, <3>5, Zenon
    <3>11. e[1] = at /\ e[2] = got
      BY <3>10
    <3>12. QED
      BY <3>9, <3>11, Zenon
  <2>2. QED
    BY <2>1, Zenon DEF Agree
<1>10. ASSUME NEW at \in 0..(p - 1) PROVE \E e \in writes : e[1] = at
  <2>1. Within(at, dims)
    BY <1>3, <1>10 DEF Within
  <2>2. PICK u \in Indices(head), r \in Nat, c \in Nat :
          Plane(at, Unflatten(dims, at), u, r, c, head, dims, n)
    BY <1>1, <2>1, PlaneOf
  <2>3. PICK b \in Nat : b = Flatten(head, u) /\ b < rows
    BY <1>2, <1>4, <2>2, FlattenBelow
  <2>4. b * (m * w) + r * w + c = at
    BY <2>2, <2>3, DotIs
  <2>5. r < m /\ c < w
    BY <1>1, <2>2 DEF Plane
  <2>6. PICK t : t = <<r, c, b>>
    OBVIOUS
  <2>7. t \in (0..(m - 1)) \X (0..(w - 1)) \X (0..(rows - 1)) /\ t[1] = r /\ t[2] = c /\ t[3] = b
    <3>1. r \in 0..(m - 1) /\ c \in 0..(w - 1) /\ b \in 0..(rows - 1)
      BY <1>1, <2>3, <2>5
    <3>2. QED
      BY <2>6, <3>1
  <2>8. PICK e : e = <<t[3] * (m * w) + t[1] * w + t[2], Dot(t[3], t[1], t[2], m, k, w)>>
    OBVIOUS
  <2>9. e \in writes
    BY <1>8, <2>7, <2>8 DEF GemmWrites
  <2>10. e[1] = t[3] * (m * w) + t[1] * w + t[2]
    BY <2>8
  <2>11. QED
    BY <2>4, <2>7, <2>9, <2>10, Zenon
<1>11. Written(Out(dims), writes) = v
  BY <1>6, <1>7, <1>9, <1>10, WrittenAll
<1>12. QED
  BY <1>4, <1>8, <1>11, Zenon

\* matmul.
LEMMA MatmulCall ==
  ASSUME IInv, Matmul
  PROVE  DispatchComputes'
<1>1. PICK dims :
        /\ dims = SubSeq(x.dims, 1, (Rank(x) - 2) + 1) \o <<y.dims[(Rank(x) - 2) + 2]>>
        /\ Call("matmul", /\ x.dtype = "BF16" /\ y.dtype = "BF16"
                          /\ IsContiguous(x) /\ IsContiguous(y) /\ MatmulShapes(x.dims, y.dims),
                [i \in 1..Product(dims) |->
                   InTurn([p \in 1..x.dims[(Rank(x) - 2) + 2] |->
                     Says("x", [Unflatten(dims, i - 1) EXCEPT ![(Rank(x) - 2) + 2] = p - 1])
                       \o Says("y", [Unflatten(dims, i - 1) EXCEPT ![(Rank(x) - 2) + 1] = p - 1])])],
                DispatchMatmul(x, y, dims))
  BY DEF Matmul, Tabulate
<1>2. IsContiguous(x) /\ IsContiguous(y) /\ MatmulShapes(x.dims, y.dims)
  BY <1>1, Zenon DEF Call
<1>3. x = arg["x"] /\ y = arg["y"] /\ x.dims \in Seq(Nat) /\ y.dims \in Seq(Nat)
  BY OperandFacts DEF x, y, Arg
<1>4. PICK n \in Nat : n = Len(x.dims) /\ n >= 2 /\ n = Len(y.dims) /\ n = Rank(x)
  BY <1>2, <1>3 DEF MatmulShapes, Rank
<1>5. (n - 2) + 1 = n - 1 /\ (n - 2) + 2 = n /\ n - 1 \in 1..n /\ n \in 1..n
  BY <1>4
<1>6. PICK head : head = SubSeq(x.dims, 1, n - 2)
  OBVIOUS
<1>7. HeadOf(head, x.dims, n) /\ HeadOf(head, y.dims, n)
  <2>1. SubSeq(x.dims, 1, n - 2) = SubSeq(y.dims, 1, n - 2)
    BY <1>2, <1>4, Zenon DEF MatmulShapes
  <2>2. QED
    BY <1>3, <1>4, <1>6, <2>1, Zenon DEF HeadOf
<1>8. PICK m \in Nat, k \in Nat, w \in Nat : m = x.dims[n - 1] /\ k = x.dims[n] /\ w = y.dims[n]
  <2>1. x.dims \in [1..n -> Nat] /\ y.dims \in [1..n -> Nat]
    BY <1>7, HeadFacts
  <2>2. QED
    BY <1>5, <2>1
<1>9. y.dims[n - 1] = k /\ m # 0 /\ k # 0 /\ w # 0
  BY <1>2, <1>4, <1>5, <1>8 DEF MatmulShapes
<1>10. dims = SubSeq(x.dims, 1, n - 1) \o <<w>>
  BY <1>1, <1>4, <1>5, <1>8, Zenon
<1>11. dims \in Seq(Nat) /\ Len(dims) = n /\ \A a \in 1..(n - 1) : dims[a] = x.dims[a]
  <2>1. PICK q : q = SubSeq(x.dims, 1, n - 1)
    OBVIOUS
  <2>0. AllButLast(q, x.dims, n)
    BY <1>3, <1>4, <2>1 DEF AllButLast
  <2>2. q \in Seq(Nat) /\ Len(q) = n - 1 /\ \A a \in 1..(n - 1) : q[a] = x.dims[a]
    BY <2>0, RowFacts
  <2>3. dims = q \o <<w>>
    BY <1>10, <2>1, Zenon
  <2>4. dims \in Seq(Nat) /\ Len(dims) = n /\ \A a \in 1..(n - 1) : dims[a] = q[a]
    BY ONLY <2>2, <2>3, n \in Nat, w \in Nat
  <2>5. QED
    BY <2>2, <2>4
<1>12. dims[n - 1] = m /\ dims[n] = w
  <2>1. n - 1 \in 1..(n - 1)
    BY <1>4
  <2>2. dims[n] = w
    <3>1. PICK q : q = SubSeq(x.dims, 1, n - 1)
      OBVIOUS
    <3>0. AllButLast(q, x.dims, n)
      BY <1>3, <1>4, <3>1 DEF AllButLast
    <3>2. q \in Seq(Nat) /\ Len(q) = n - 1
      BY <3>0, RowFacts
    <3>3. dims = q \o <<w>>
      BY <1>10, <3>1, Zenon
    <3>4. QED
      BY ONLY <3>2, <3>3, n \in Nat, w \in Nat
  <2>3. QED
    BY <1>8, <1>11, <2>1, <2>2
<1>13. HeadOf(head, dims, n)
  <2>1. \A a \in 1..(n - 2) : a \in 1..(n - 1)
    BY <1>4
  <2>2. \A a \in 1..(n - 2) : dims[a] = x.dims[a]
    BY <1>11, <2>1, Zenon
  <2>3. SubSeq(dims, 1, n - 2) = SubSeq(x.dims, 1, n - 2)
    BY <1>3, <1>4, <1>11, <2>2, SMTT(40)
  <2>4. QED
    BY <1>4, <1>6, <1>11, <2>3, Zenon DEF HeadOf
<1>14. Gemm(dims, head, n, m, k, w)
  BY <1>7, <1>8, <1>9, <1>12, <1>13, Zenon DEF Gemm
<1>15. PICK denoted : Products(denoted, dims, n, k)
  BY Zenon DEF Products
<1>16. denoted = [i \in 1..Product(dims) |->
                    InTurn([p \in 1..x.dims[(Rank(x) - 2) + 2] |->
                      Says("x", [Unflatten(dims, i - 1) EXCEPT ![(Rank(x) - 2) + 2] = p - 1])
                        \o Says("y", [Unflatten(dims, i - 1) EXCEPT ![(Rank(x) - 2) + 1] = p - 1])])]
  BY <1>4, <1>5, <1>8, <1>15, Zenon DEF Products, Product2
<1>17. PICK got : got = DispatchMatmul(x, y, dims)
  OBVIOUS
<1>18. PICK accepted : Call("matmul", accepted, denoted, got)
  BY <1>1, <1>16, <1>17, Zenon
<1>19. ASSUME got # Refused PROVE got = denoted
  <2>1. PICK batch : batch = (IF Product(head) = 0 THEN 1 ELSE Product(head))
    OBVIOUS
  <2>2. got = Unless({FlatInput(x), FlatInput(y)},
                     EncodeGemm(x.store, y.store, Out(dims), m, w, k, batch, m * k, k * w, m * w))
    BY <1>4, <1>5, <1>6, <1>8, <1>17, <2>1, Zenon DEF DispatchMatmul
  <2>3. x.off = 0 /\ y.off = 0
    BY <1>19, <2>2, Zenon DEF Unless, FlatInput
  <2>4. got = EncodeGemm(x.store, y.store, Out(dims), m, w, k, batch, m * k, k * w, m * w)
    BY <1>19, <2>2, Zenon DEF Unless
  <2>5. Flat(arg["x"], says["x"]) /\ Flat(arg["y"], says["y"])
    <3>1. Holds(arg["x"], says["x"]) /\ Holds(arg["y"], says["y"])
      BY OperandFacts DEF Arg
    <3>2. QED
      BY <1>2, <1>3, <2>3, <3>1, Zenon DEF Flat, IsContiguous
  <2>6. head \in Seq(Nat) /\ Product(head) \in Nat /\ Product(dims) \in Nat /\ Len(Out(dims)) = Product(dims)
    BY <1>11, <1>13, HeadFacts, BlockFacts, OutFacts
  <2>7. batch # 0
    BY <2>1
  <2>8. ~(Len(Out(dims)) < (batch - 1) * (m * w) + m * w)
    BY <1>9, <1>19, <2>4, <2>7, Zenon DEF EncodeGemm
  <2>9. batch = Product(head)
    <3>1. ASSUME Product(head) = 0 PROVE FALSE
      <4>1. batch = 1
        BY <2>1, <3>1
      <4>2. (batch - 1) * (m * w) + m * w = m * w
        BY <4>1
      <4>3. m * w > 0
        BY <1>9
      <4>4. Product(dims) > 0
        BY <2>6, <2>8, <4>2, <4>3
      <4>5. Within(0, dims)
        BY <4>4 DEF Within
      <4>6. PICK u \in Indices(head), r \in Nat, c \in Nat :
              Plane(0, Unflatten(dims, 0), u, r, c, head, dims, n)
        BY <1>13, <4>5, PlaneOf
      <4>7. Flatten(head, u) \in Nat /\ Flatten(head, u) < Product(head)
        BY <2>6, <4>6, FlattenBelow
      <4>8. QED
        BY <3>1, <4>7
    <3>2. QED
      BY <2>1, <3>1
  <2>10. got = Written(Out(dims), GemmWrites(m, k, w, Product(head)))
    <3>1. got = Written(Out(dims),
                  {<<t[3] * (m * w) + t[1] * w + t[2],
                     InTurn([p \in 1..k |->
                        Read(x.store, t[3] * (m * k) + t[1] * k + p - 1)
                          \o Read(y.store, t[3] * (k * w) + (p - 1) * w + t[2])])>> :
                     t \in (0..(m - 1)) \X (0..(w - 1)) \X (0..(batch - 1))})
      BY <1>9, <1>19, <2>4, <2>7, Zenon DEF EncodeGemm
    <3>2. QED
      BY <2>9, <3>1, Zenon DEF GemmWrites, Dot
  <2>11. QED
    BY <1>14, <1>15, <2>5, <2>10, GemmComputes
<1>20. QED
  BY <1>18, <1>19, CallComputes

----------------------------------------------------------------------------
\* quantized_matmul.

\* The product of a row of x with a row of the weight, at an index.
QuantizedProduct(i) ==
  InTurn([p \in 1..QWeight.kLogical |->
            Says("x", [i EXCEPT ![Len(i)] = p - 1])
              \o Weight(QWeight.w, QWeight.scales, QWeight.biases, i[Len(i)] * QWeight.k + p - 1)])

\* An allocation has a size.
LEMMA AllocLenType ==
  ASSUME NEW n \in Nat
  PROVE  AllocLen(n) \in Int
<1>1. PICK q \in Nat : q = SlackQuantum /\ q > 0
  BY QuantizationAssumption
<1>2. PICK r \in Int : r = (n + q - 1) \div q
  BY <1>1
<1>3. r * q \in Int
  OBVIOUS
<1>4. QED
  BY <1>1, <1>2, <1>3, Zenon DEF AllocLen

\* The padding of a row of the weight meets the zeroed slack of the activation.
PaddingIsSlack(start, len) ==
  \A p \in (QWeight.kLogical + 1)..QWeight.k : start + p - 1 \in len..(AllocLen(len) - 1)

\* idx is of a row of x, start where that row is.
RowOfX(idx, u, head, n, start) ==
  /\ InRow(idx, u, head, x.dims, n) /\ Len(idx) = n
  /\ x.dims[n] = QWeight.kLogical /\ start = Flatten(head, u) * x.dims[n]

\* Then the kernel's dot product is that product.
LEMMA DotRowIs ==
  ASSUME IInv, Flat(arg["x"], says["x"]), Len(x.store) = Product(x.dims),
         NEW idx, NEW u, NEW head, NEW n, NEW start, RowOfX(idx, u, head, n, start),
         PaddingIsSlack(start, Len(x.store))
  PROVE  DotRow(x.store, start, QWeight, idx[n]) = QuantizedProduct(idx)
<1>1. /\ InRow(idx, u, head, x.dims, n) /\ Len(idx) = n
      /\ x.dims[n] = QWeight.kLogical /\ start = Flatten(head, u) * x.dims[n]
  BY DEF RowOfX
<1>2. PICK k \in Nat : k = QWeight.kLogical
  BY WeightAssumption
<1>3. PICK len : len = Len(x.store) /\ len = Product(x.dims)
  OBVIOUS
<1>4. \A p \in (k + 1)..QWeight.k : ReadSlack(x.store, start + p - 1) = Zero
  BY <1>2, <1>3, Zenon DEF PaddingIsSlack, ReadSlack
<1>5. PICK r : r = idx[n]
  OBVIOUS
<1>6. DotRow(x.store, start, QWeight, r)
        = InTurn([p \in 1..k |-> ReadSlack(x.store, start + p - 1)
                    \o Weight(QWeight.w, QWeight.scales, QWeight.biases, r * QWeight.k + p - 1)])
  BY <1>2, <1>4, Zenon DEF DotRow
<1>7. ASSUME NEW p \in 1..k
      PROVE  ReadSlack(x.store, start + p - 1) = Says("x", [idx EXCEPT ![n] = p - 1])
  <2>1. PICK j \in Nat : j = p - 1 /\ j < k
    BY ONLY k \in Nat, p \in 1..k
  <2>2. PICK w, at : w = [idx EXCEPT ![n] = j] /\ at = Flatten(head, u) * x.dims[n] + j
    OBVIOUS
  <2>3. Column(at, w, j, idx, u, head, x.dims, n)
    BY <1>1, <1>2, <2>1, <2>2, Zenon DEF Column
  <2>4. Column(at, w, j, idx, u, head, arg["x"].dims, n) /\ "x" \in Arg
    BY <2>3, Zenon DEF x, Arg
  <2>5. at \in Nat /\ at < Product(arg["x"].dims) /\ Read(arg["x"].store, at) = Says("x", w)
    BY <2>4, SaysInRow
  <2>6. start + p - 1 = at
    <3>0. head \in Seq(Nat) /\ u \in Indices(head)
      BY <1>1, RowFacts DEF InRow
    <3>1. PICK f \in Nat : f = Flatten(head, u)
      BY <3>0, FlattenBelow
    <3>2. start = f * k /\ at = f * k + j
      BY <1>1, <1>2, <2>2, <3>1, Zenon
    <3>3. QED
      BY ONLY <2>1, <3>2, f \in Nat, k \in Nat, p \in 1..k
  <2>7. at < len
    BY <1>3, <2>5 DEF x
  <2>8. at \notin len..(AllocLen(len) - 1)
    <3>1. len \in Nat
      <4>1. x.dims \in Seq(Nat)
        BY <1>1, RowFacts DEF InRow
      <4>2. QED
        BY <1>3, <4>1, BlockFacts
    <3>2. AllocLen(len) \in Int
      BY <3>1, AllocLenType
    <3>3. QED
      BY ONLY <2>5, <2>7, <3>1, <3>2
  <2>9. ReadSlack(x.store, at) = Read(x.store, at)
    BY <1>3, <2>8, Zenon DEF ReadSlack
  <2>10. QED
    BY <2>1, <2>2, <2>5, <2>6, <2>9, Zenon DEF x
<1>8. QED
  BY <1>1, <1>2, <1>5, <1>6, <1>7, Zenon DEF QuantizedProduct

\* The output has the rows of x and the columns of the weight.
ProductShape(dims, head, n) ==
  /\ AllButLast(head, x.dims, n) /\ AllButLast(head, dims, n)
  /\ dims[n] = QWeight.n /\ x.dims[n] = QWeight.kLogical

\* The k-th element of the output is in row k \div n, column k % n.
LEMMA RowStarts ==
  ASSUME NEW dims, NEW head, NEW n, ProductShape(dims, head, n), NEW k, Within(k, dims)
  PROVE  /\ Unflatten(dims, k)[n] = k % QWeight.n
         /\ \E u : RowOfX(Unflatten(dims, k), u, head, n, (k \div QWeight.n) * QWeight.kLogical)
<1>1. /\ AllButLast(head, x.dims, n) /\ AllButLast(head, dims, n)
      /\ dims[n] = QWeight.n /\ x.dims[n] = QWeight.kLogical
  BY DEF ProductShape
<1>2. k \in Nat /\ k < Product(dims)
  BY DEF Within
<1>3. PICK idx : idx = Unflatten(dims, k)
  OBVIOUS
<1>4. PICK u \in Indices(head) : Starts(u, idx, n - 1, n) /\ Flatten(head, u) = k \div dims[n]
  BY <1>1, <1>2, <1>3, IndexRow
<1>5. idx[n] = k % dims[n] /\ Len(idx) = n
  BY <1>1, <1>2, <1>3, IndexRow
<1>6. InRow(idx, u, head, x.dims, n)
  BY <1>1, <1>4, Zenon DEF InRow
<1>7. RowOfX(idx, u, head, n, (k \div QWeight.n) * QWeight.kLogical)
  BY <1>1, <1>4, <1>5, <1>6, Zenon DEF RowOfX
<1>8. QED
  BY <1>1, <1>3, <1>5, <1>7, Zenon

\* A product has one cofactor.
LEMMA Cancel ==
  ASSUME NEW a \in Nat, NEW b \in Nat, NEW c \in Nat, c # 0, a * c = b * c
  PROVE  a = b
<1>1. PICK k \in Nat : k = a * c
  OBVIOUS
<1>2. k = a * c + 0 /\ k = b * c + 0 /\ 0 \in Nat /\ 0 < c
  BY <1>1
<1>3. k \div c = a
  BY ONLY <1>2, a \in Nat, c \in Nat, k \in Nat, DivUnique
<1>4. k \div c = b
  BY ONLY <1>2, b \in Nat, c \in Nat, k \in Nat, DivUnique
<1>5. QED
  BY <1>3, <1>4

\* The rows the dispatcher counts: an empty batch counts as one.
RowsOf(t) ==
  IF Rank(t) = 1 THEN 1
  ELSE (IF Product(SubSeq(t.dims, 1, Rank(t) - 2)) = 0 THEN 1
        ELSE Product(SubSeq(t.dims, 1, Rank(t) - 2))) * t.dims[Rank(t) - 1]

\* Where the leading axes are not empty, the rows counted are their elements.
LEMMA RowsOfIs ==
  ASSUME NEW t, NEW n, NEW head, AllButLast(head, t.dims, n), Product(head) # 0
  PROVE  RowsOf(t) = Product(head)
<1>1. /\ n \in Nat /\ n >= 1 /\ n - 1 \in Nat /\ n = Len(t.dims) /\ t.dims \in Seq(Nat)
      /\ head \in Seq(Nat) /\ Len(head) = n - 1
      /\ \A a \in 1..(n - 1) : head[a] = t.dims[a]
  BY RowFacts
<1>2. Rank(t) = n
  BY <1>1 DEF Rank
<1>3. CASE n = 1
  <2>1. DOMAIN head = {}
    BY <1>1, <1>3
  <2>2. QED
    BY <1>2, <1>3, <2>1, ProductNone DEF RowsOf
<1>4. CASE n # 1
  <2>1. PICK l \in Nat : l = n - 1 /\ l >= 1 /\ l - 1 = n - 2
    <3>1. PICK z \in Nat : z = n /\ z >= 1 /\ z # 1
      BY <1>1, <1>4
    <3>2. z - 1 \in Nat /\ z - 1 >= 1 /\ (z - 1) - 1 = z - 2
      BY ONLY <3>1, z \in Nat
    <3>3. QED
      BY <3>1, <3>2
  <2>2. PICK lead : lead = SubSeq(t.dims, 1, n - 2)
    OBVIOUS
  <2>3. SubSeq(head, 1, l - 1) = lead
    <3>1. \A a \in 1..(n - 2) : a \in 1..(n - 1) /\ head[a] = t.dims[a]
      BY <1>1
    <3>2. QED
      BY <1>1, <2>1, <2>2, <3>1
  <2>4. AllButLast(lead, head, l)
    BY <1>1, <2>1, <2>3 DEF AllButLast
  <2>5. Product(head) = Product(lead) * head[l]
    BY <2>4, RowFacts
  <2>6. Product(lead) \in Nat /\ head[l] \in Nat
    BY <2>4, RowFacts
  <2>7. head[l] = t.dims[n - 1]
    BY <1>1, <2>1, SMTT(40)
  <2>8. Product(lead) # 0
    BY <2>5, <2>6
  <2>9. RowsOf(t) = Product(lead) * t.dims[n - 1]
    BY <1>2, <1>4, <2>2, <2>8, Zenon DEF RowsOf
  <2>10. QED
    BY <2>5, <2>7, <2>9, Zenon
<1>5. QED
  BY <1>3, <1>4

\* quantized_matmul, with an activation that fills its storage.
LEMMA QuantizedMatmulCall ==
  ASSUME IInv, CallersOnly, QuantizedMatmul
  PROVE  DispatchComputes'
<1>1. PICK dims :
        /\ dims = Lead(x.dims) \o <<QWeight.n>>
        /\ CallersOnly => Len(x.store) = Product(x.dims)
        /\ Call("quantized_matmul", /\ x.dtype = "BF16" /\ IsContiguous(x) /\ Rank(x) > 0
                                    /\ x.dims[Rank(x)] = QWeight.kLogical,
                [k \in 1..Product(dims) |->
                   InTurn([p \in 1..QWeight.kLogical |->
                     Says("x", [Unflatten(dims, k - 1) EXCEPT ![Len(Unflatten(dims, k - 1))] = p - 1])
                       \o Weight(QWeight.w, QWeight.scales, QWeight.biases,
                                 Unflatten(dims, k - 1)[Len(Unflatten(dims, k - 1))] * QWeight.k + p - 1)])],
                DispatchQuantizedMatmul(QWeight, x, dims))
  BY DEF QuantizedMatmul, Tabulate
<1>2. IsContiguous(x) /\ Rank(x) > 0 /\ x.dims[Rank(x)] = QWeight.kLogical
  BY <1>1, Zenon DEF Call
<1>3. x = arg["x"] /\ x.dims \in Seq(Nat)
  BY OperandFacts DEF x, Arg
<1>4. PICK n \in Nat : n = Len(x.dims) /\ n >= 1 /\ n = Rank(x)
  BY <1>2, <1>3 DEF Rank
<1>5. PICK head : head = Lead(x.dims)
  OBVIOUS
<1>6. AllButLast(head, x.dims, n)
  <2>1. x.dims # <<>>
    <3>1. Len(<<>>) = 0
      OBVIOUS
    <3>2. n # 0
      BY ONLY <1>4, n \in Nat
    <3>3. QED
      BY <1>4, <3>1, <3>2, Zenon
  <2>2. QED
    BY <1>3, <1>4, <1>5, <2>1, LeadIs
<1>7. PICK w \in Nat, k \in Nat, kl \in Nat : w = QWeight.n /\ k = QWeight.k /\ kl = QWeight.kLogical
  BY WeightAssumption
<1>8. AllButLast(head, dims, n) /\ dims[n] = w
  <2>1. head \in Seq(Nat) /\ Len(head) = n - 1
    BY <1>6, RowFacts
  <2>2. dims = head \o <<w>>
    BY <1>1, <1>5, <1>7, Zenon
  <2>3. dims \in Seq(Nat) /\ Len(dims) = n /\ dims[n] = w /\ SubSeq(dims, 1, n - 1) = head
    BY ONLY <2>1, <2>2, n \in Nat, w \in Nat
  <2>4. QED
    BY <1>4, <2>3 DEF AllButLast
<1>9. ProductShape(dims, head, n)
  BY <1>2, <1>4, <1>6, <1>7, <1>8, Zenon DEF ProductShape
<1>10. PICK rows \in Nat, p \in Nat : rows = Product(head) /\ p = Product(dims) /\ p = rows * w
  <2>1. Product(head) \in Nat /\ Product(dims) \in Nat
    BY <1>8, RowFacts
  <2>2. Product(dims) = Product(head) * w
    BY <1>8, RowFacts
  <2>3. QED
    BY <2>1, <2>2
<1>11. Product(x.dims) = rows * kl
  <2>1. Product(x.dims) = Product(head) * x.dims[n]
    BY <1>6, RowFacts
  <2>2. QED
    BY <1>2, <1>4, <1>7, <1>10, <2>1, Zenon
<1>12. PICK denoted : denoted = [i \in 1..Product(dims) |-> QuantizedProduct(Unflatten(dims, i - 1))]
  OBVIOUS
<1>13. PICK got : got = DispatchQuantizedMatmul(QWeight, x, dims)
  OBVIOUS
<1>14. PICK accepted : Call("quantized_matmul", accepted, denoted, got)
  BY <1>1, <1>12, <1>13, Zenon DEF QuantizedProduct
<1>15. ASSUME got # Refused PROVE got = denoted
  <2>1. PICK out : out = Out(dims) /\ DOMAIN out = 1..p /\ Len(out) = p
    <3>1. dims \in Seq(Nat)
      BY <1>8, RowFacts
    <3>2. QED
      BY <1>10, <3>1, OutFacts
  <2>2. PICK m : m = RowsOf(x)
    OBVIOUS
  <2>3. got = Unless({FlatInput(x)}, IF m = 1 THEN EncodeQmv(QWeight, x.store, out)
                                     ELSE EncodeQmm(QWeight, x.store, out, m))
    BY <1>13, <2>1, <2>2, Zenon DEF DispatchQuantizedMatmul, RowsOf
  <2>4. x.off = 0
    BY <1>15, <2>3, Zenon DEF Unless, FlatInput
  <2>5. got = IF m = 1 THEN EncodeQmv(QWeight, x.store, out) ELSE EncodeQmm(QWeight, x.store, out, m)
    BY <1>15, <2>3, Zenon DEF Unless
  <2>6. Flat(arg["x"], says["x"])
    <3>1. Holds(arg["x"], says["x"])
      BY OperandFacts DEF Arg
    <3>2. QED
      BY <1>2, <1>3, <2>4, <3>1, Zenon DEF Flat, IsContiguous
  <2>7. Len(x.store) = Product(x.dims) /\ Len(x.store) = rows * kl
    BY <1>1, <1>11
  <2>8. rows # 0 => m = rows
    BY <1>6, <1>10, <2>2, RowsOfIs
  <2>9. ASSUME NEW i \in 1..p, NEW j \in Nat, j = i - 1, NEW start, start = (j \div w) * kl,
               PaddingIsSlack(start, Len(x.store))
        PROVE  DotRow(x.store, start, QWeight, j % w) = QuantizedProduct(Unflatten(dims, i - 1))
    <3>1. Within(j, dims)
      BY <1>10, <2>9 DEF Within
    <3>2. PICK idx : idx = Unflatten(dims, j)
      OBVIOUS
    <3>3. PICK u : RowOfX(idx, u, head, n, start)
      <4>1. \E u : RowOfX(Unflatten(dims, j), u, head, n, (j \div QWeight.n) * QWeight.kLogical)
        BY <1>9, <3>1, RowStarts
      <4>2. QED
        BY <1>7, <2>9, <3>2, <4>1, Zenon
    <3>4. idx[n] = j % w
      <4>1. Unflatten(dims, j)[n] = j % QWeight.n
        BY <1>9, <3>1, RowStarts
      <4>2. QED
        BY <1>7, <3>2, <4>1, Zenon
    <3>5. DotRow(x.store, start, QWeight, idx[n]) = QuantizedProduct(idx)
      BY <2>6, <2>7, <2>9, <3>3, DotRowIs
    <3>6. QED
      BY <2>9, <3>2, <3>4, <3>5, Zenon
  <2>10. CASE m = 1
    <3>1. got = EncodeQmv(QWeight, x.store, out)
      BY <2>5, <2>10, Zenon
    <3>2. /\ ~(AllocLen(Len(x.store)) < k) /\ p # 0
          /\ got = [i \in 1..p |-> DotRow(x.store, 0, QWeight, i - 1)]
      BY <1>7, <1>15, <2>1, <3>1, Zenon DEF EncodeQmv
    <3>3. rows = 1
      BY <1>10, <2>8, <2>10, <3>2
    <3>4. p = w /\ Len(x.store) = kl
      BY <1>10, <2>7, <3>3
    <3>5. PaddingIsSlack(0, Len(x.store))
      <4>1. PICK all \in Int : all = AllocLen(kl) /\ all >= k
        <5>1. AllocLen(kl) \in Int
          BY AllocLenType
        <5>2. QED
          BY <3>2, <3>4, <5>1
      <4>2. \A q \in (kl + 1)..k : 0 + q - 1 \in kl..(all - 1)
        BY <4>1
      <4>3. QED
        BY <1>7, <3>4, <4>1, <4>2, Zenon DEF PaddingIsSlack
    <3>6. ASSUME NEW i \in 1..p
          PROVE  DotRow(x.store, 0, QWeight, i - 1) = QuantizedProduct(Unflatten(dims, i - 1))
      <4>1. PICK j \in Nat : j = i - 1 /\ j < w
        BY ONLY <3>4, p \in Nat, i \in 1..p
      <4>2. j \div w = 0 /\ j % w = j
        BY <4>1
      <4>3. (j \div w) * kl = 0
        BY <4>2
      <4>4. DotRow(x.store, 0, QWeight, j % w) = QuantizedProduct(Unflatten(dims, i - 1))
        BY <2>9, <3>5, <4>1, <4>3
      <4>5. QED
        BY <4>1, <4>2, <4>4, Zenon
    <3>7. QED
      BY <1>10, <1>12, <3>2, <3>6, Zenon
  <2>11. CASE m # 1
    <3>1. got = EncodeQmm(QWeight, x.store, out, m)
      BY <2>5, <2>11, Zenon
    <3>2. /\ m # 0 /\ w # 0 /\ Len(x.store) = m * k /\ p = m * w
          /\ got = [i \in 1..p |-> DotRow(x.store, ((i - 1) \div w) * k, QWeight, (i - 1) % w)]
      BY <1>7, <1>15, <2>1, <3>1, Zenon DEF EncodeQmm
    <3>3. m = rows
      <4>1. ASSUME rows = 0 PROVE FALSE
        <5>1. p = 0
          BY <1>10, <4>1
        <5>2. got = [i \in 1..p |-> DotRow(x.store, ((i - 1) \div w) * k, QWeight, (i - 1) % w)]
          BY <3>2
        <5>3. m * w = 0
          BY <3>2, <5>1
        <5>4. m \in Nat
          <6>1. CASE n = 1
            BY <1>4, <2>2, <6>1 DEF RowsOf
          <6>2. CASE n # 1
            <7>1. PICK l \in 1..n : l = n - 1
              BY <1>4, <6>2
            <7>2. PICK d \in Nat : d = x.dims[n - 1]
              <8>1. x.dims \in [1..n -> Nat]
                BY <1>6, RowFacts
              <8>2. QED
                BY <7>1, <8>1
            <7>3. PICK lead : lead = SubSeq(x.dims, 1, n - 2)
              OBVIOUS
            <7>4. HeadOf(lead, x.dims, n)
              BY <1>3, <1>4, <6>2, <7>3 DEF HeadOf
            <7>5. PICK b \in Nat : b = Product(lead)
              BY <7>4, HeadFacts, BlockFacts
            <7>6. m = (IF b = 0 THEN 1 ELSE b) * d
              BY <1>4, <2>2, <6>2, <7>2, <7>3, <7>5, Zenon DEF RowsOf
            <7>7. QED
              BY <7>6
          <6>3. QED
            BY <6>1, <6>2
        <5>5. QED
          BY <3>2, <5>3, <5>4
      <4>2. QED
        BY <2>8, <4>1
    <3>4. kl = k
      <4>1. kl * rows = k * rows
        <5>1. rows * kl = m * k
          BY <2>7, <3>2, Zenon
        <5>2. rows * kl = rows * k
          BY <3>3, <5>1, Zenon
        <5>3. QED
          BY ONLY <5>2, rows \in Nat, kl \in Nat, k \in Nat
      <4>2. QED
        BY <3>2, <3>3, <4>1, Cancel
    <3>5. \A start : PaddingIsSlack(start, Len(x.store))
      <4>1. (kl + 1)..k = {}
        BY <3>4
      <4>2. QED
        BY <1>7, <4>1, Zenon DEF PaddingIsSlack
    <3>6. ASSUME NEW i \in 1..p
          PROVE  DotRow(x.store, ((i - 1) \div w) * k, QWeight, (i - 1) % w)
                   = QuantizedProduct(Unflatten(dims, i - 1))
      <4>1. PICK j \in Nat : j = i - 1
        BY ONLY p \in Nat, i \in 1..p
      <4>2. PICK start : start = (j \div w) * kl
        OBVIOUS
      <4>3. DotRow(x.store, start, QWeight, j % w) = QuantizedProduct(Unflatten(dims, i - 1))
        BY <2>9, <3>5, <4>1, <4>2
      <4>4. QED
        BY <3>4, <4>1, <4>2, <4>3, Zenon
    <3>7. QED
      BY <1>10, <1>12, <3>2, <3>6, Zenon
  <2>12. QED
    BY <2>10, <2>11
<1>16. QED
  BY <1>14, <1>15, CallComputes

----------------------------------------------------------------------------
\* concat: its parts, one behind the other.

\* The copy of part t into the output from position o on.
PartWrites(t, o) ==
  {<<o + Along(Contiguous(t.dims), IndexOf(t.dims, th)),
     Read(t.store, t.off + Along(t.strides, IndexOf(t.dims, th)))>> : th \in Threads(t.dims)}

\* In w, of p items, the values of t come behind position o.
PartOf(w, p, t, v, o) ==
  /\ Holds(t, v) /\ t.dims # <<>> /\ o \in Nat /\ p \in Nat /\ o + Product(t.dims) <= p
  /\ \A j \in 1..Product(t.dims) : w[o + j] = v[j]

\* The copy of a part writes what comes there, and nothing elsewhere.
LEMMA PartWritten ==
  ASSUME NEW w, NEW p, NEW t, NEW v, NEW o, PartOf(w, p, t, v, o),
         NEW writes, writes = PartWrites(t, o)
  PROVE  /\ Agree(writes, p, w)
         /\ \A i \in 1..p : Hit(writes, i) <=> i > o /\ i <= o + Product(t.dims)
<1>1. PICK dims \in Seq(Nat) : dims = t.dims
  BY DEF PartOf, Holds, WellFormed
<1>2. PICK q \in Nat : q = Product(dims)
  BY <1>1, BlockFacts
<1>3. Holds(t, v) /\ dims # <<>>
  BY <1>1 DEF PartOf
<1>4. o \in Nat /\ p \in Nat /\ o + q <= p /\ \A j \in 1..q : w[o + j] = v[j]
  BY <1>1, <1>2 DEF PartOf
<1>5. ASSUME NEW th \in Threads(dims)
      PROVE  \E z \in 0..(q - 1) :
               /\ o + Along(Contiguous(dims), IndexOf(dims, th)) = o + z
               /\ Read(t.store, t.off + Along(t.strides, IndexOf(dims, th))) = v[z + 1]
               /\ Flatten(dims, IndexOf(dims, th)) = z
  <2>1. PICK idx \in Indices(dims) : idx = IndexOf(dims, th)
    BY <1>3, ThreadIndex
  <2>2. Along(Contiguous(dims), idx) = Flatten(dims, idx)
    BY <1>1, <1>3, <2>1, StridedRead
  <2>3. Read(t.store, t.off + Along(t.strides, idx)) = ValueAt(v, dims, idx)
    BY <1>1, <1>3, <2>1, StridedRead
  <2>4. PICK z \in Nat : z = Flatten(dims, idx) /\ z < q
    BY <1>2, <2>1, FlattenBelow
  <2>5. z \in 0..(q - 1)
    BY <1>2, <2>4
  <2>6. QED
    BY <2>1, <2>2, <2>3, <2>4, <2>5 DEF ValueAt
<1>6. ASSUME NEW pair \in writes
      PROVE  \E z \in 0..(q - 1) : pair[1] = o + z /\ pair[2] = v[z + 1]
  <2>1. PICK th \in Threads(dims) :
          pair = <<o + Along(Contiguous(dims), IndexOf(dims, th)),
                   Read(t.store, t.off + Along(t.strides, IndexOf(dims, th)))>>
    BY <1>1 DEF PartWrites
  <2>2. PICK a, b : /\ a = o + Along(Contiguous(dims), IndexOf(dims, th))
                    /\ b = Read(t.store, t.off + Along(t.strides, IndexOf(dims, th)))
    OBVIOUS
  <2>3. pair = <<a, b>>
    BY <2>1, <2>2
  <2>4. pair[1] = a /\ pair[2] = b
    BY <2>3
  <2>5. QED
    BY <1>5, <2>2, <2>4, Zenon
<1>7. ASSUME NEW z \in 0..(q - 1)
      PROVE  \E pair \in writes : pair[1] = o + z
  <2>1. PICK idx : idx = Unflatten(dims, z)
    OBVIOUS
  <2>2. idx \in Indices(dims)
    BY <1>2, <2>1, UnflattenType
  <2>3. Flatten(dims, idx) = z
    BY <1>2, <2>1, FlattenUnflatten
  <2>4. PICK th \in Threads(dims) : IndexOf(dims, th) = idx
    BY <1>3, <2>2, IndexThread
  <2>5. PICK a, b : /\ a = o + Along(Contiguous(dims), IndexOf(dims, th))
                    /\ b = Read(t.store, t.off + Along(t.strides, IndexOf(dims, th)))
    OBVIOUS
  <2>6. a = o + z
    BY <1>5, <2>3, <2>4, <2>5, Zenon
  <2>7. <<a, b>> \in writes
    BY <1>1, <2>5 DEF PartWrites
  <2>8. <<a, b>>[1] = a
    OBVIOUS
  <2>9. QED
    BY <2>6, <2>7, <2>8
<1>8. Agree(writes, p, w)
  <2>1. ASSUME NEW pair \in writes
        PROVE  pair[1] \in 0..(p - 1) /\ pair[2] = w[pair[1] + 1]
    <3>1. PICK z \in 0..(q - 1) : pair[1] = o + z /\ pair[2] = v[z + 1]
      BY <1>6
    <3>2. PICK j \in 1..q : j = z + 1
      BY <1>2
    <3>3. w[o + j] = v[j]
      BY <1>4
    <3>4. o + j = pair[1] + 1 /\ pair[1] \in 0..(p - 1)
      BY <1>2, <1>4, <3>1, <3>2
    <3>5. QED
      BY <3>1, <3>2, <3>3, <3>4
  <2>2. QED
    BY <2>1 DEF Agree
<1>9. ASSUME NEW i \in 1..p PROVE Hit(writes, i) <=> i > o /\ i <= o + q
  <2>1. ASSUME Hit(writes, i) PROVE i > o /\ i <= o + q
    <3>1. PICK pair \in writes : pair[1] = i - 1
      BY <2>1 DEF Hit
    <3>2. PICK z \in 0..(q - 1) : pair[1] = o + z
      BY <1>6
    <3>3. QED
      BY <1>2, <1>4, <3>1, <3>2
  <2>2. ASSUME i > o, i <= o + q PROVE Hit(writes, i)
    <3>1. PICK z \in 0..(q - 1) : o + z = i - 1
      <4>1. i - 1 - o \in 0..(q - 1) /\ o + (i - 1 - o) = i - 1
        BY <1>2, <1>4, <2>2
      <4>2. QED
        BY <4>1
    <3>2. QED
      BY <1>7, <3>1 DEF Hit
  <2>3. QED
    BY <2>1, <2>2
<1>10. QED
  BY <1>1, <1>2, <1>8, <1>9

\* w is the values of a, then those of b; buf has room for them.
Parted(w, p, a, va, b, vb, q, buf) ==
  /\ PartOf(w, p, a, va, 0) /\ PartOf(w, p, b, vb, q)
  /\ q = Product(a.dims) /\ p = q + Product(b.dims) /\ w = [i \in 1..p |-> w[i]]
  /\ buf \in [1..p -> Value]

\* Two parts that fill the output, one after the other, leave w in it.
LEMMA TwoParts ==
  ASSUME NEW w, NEW p, NEW a, NEW va, NEW b, NEW vb, NEW q, NEW buf, Parted(w, p, a, va, b, vb, q, buf)
  PROVE  Written(Written(buf, PartWrites(a, 0)), PartWrites(b, q)) = w
<1> /\ PartOf(w, p, a, va, 0) /\ PartOf(w, p, b, vb, q)
    /\ q = Product(a.dims) /\ p = q + Product(b.dims) /\ w = [i \in 1..p |-> w[i]]
    /\ buf \in [1..p -> Value]
  BY DEF Parted
<1>1. q \in Nat /\ p \in Nat
  BY DEF PartOf
<1>2. PICK r \in Nat : r = Product(b.dims)
  <2>1. PICK d \in Seq(Nat) : d = b.dims
    BY Zenon DEF PartOf, Holds, WellFormed
  <2>2. Product(d) \in Nat
    BY <2>1, BlockFacts
  <2>3. QED
    BY <2>1, <2>2, Zenon
<1>3. PICK S : S = Value \cup {w[i] : i \in 1..p}
  OBVIOUS
<1>4. buf \in [1..p -> S] /\ w \in [1..p -> S]
  BY <1>3
<1>5. PICK first, second : first = PartWrites(a, 0) /\ second = PartWrites(b, q)
  OBVIOUS
<1>6. Agree(first, p, w)
  BY <1>5, PartWritten
<1>7. \A i \in 1..p : Hit(first, i) <=> i > 0 /\ i <= 0 + q
  BY <1>5, PartWritten
<1>8. Agree(second, p, w)
  BY <1>5, PartWritten
<1>9. \A i \in 1..p : Hit(second, i) <=> i > q /\ i <= q + r
  BY <1>2, <1>5, PartWritten
<1>10. PICK mid : mid = Written(buf, first)
  OBVIOUS
<1>11. Merge(buf, w, first, p, S)
  BY <1>1, <1>4, <1>6 DEF Merge
<1>12. mid \in [1..p -> S]
  BY <1>10, <1>11, WrittenIs
<1>13. \A i \in 1..p : Hit(first, i) => mid[i] = w[i]
  <2>1. \A i \in 1..p : Hit(first, i) => Written(buf, first)[i] = w[i]
    BY ONLY <1>11, WrittenIs
  <2>2. QED
    BY <1>10, <2>1, Zenon
<1>14. Merge(mid, w, second, p, S)
  BY <1>1, <1>4, <1>8, <1>12 DEF Merge
<1>15. \A i \in 1..p : ~Hit(second, i) => mid[i] = w[i]
  <2>1. \A i \in 1..p : ~(i > q /\ i <= q + r) => i > 0 /\ i <= 0 + q
    BY <1>1, <1>2
  <2>2. QED
    BY <1>7, <1>9, <1>13, <2>1, Zenon
<1>16. Written(mid, second) = w
  BY <1>14, <1>15, WrittenOver
<1>17. QED
  BY <1>5, <1>10, <1>16

\* The recursion of concat: the buffer after the first parts.
Moved(parts, dst, i) ==
  EncodeGCopy(Storage(parts[i]), parts[i].off, parts[i].strides, dst,
              Total([j \in 1..(i - 1) |-> Product(parts[j].dims)]),
              Contiguous(parts[i].dims), parts[i].dims)
AfterParts(parts, dims, g) ==
  g = [i \in 0..Len(parts) |-> IF i = 0 THEN Out(dims)
                               ELSE Unless({g[i - 1]}, Moved(parts, g[i - 1], i))]

\* concat of two parts runs one copy after the other.
LEMMA ConcatRuns ==
  ASSUME NEW a, NEW b, NEW dims, NEW dtype, a.dims # <<>>, b.dims # <<>>,
         NEW q \in Int, q = Product(a.dims),
         DispatchConcat(<<a, b>>, dims, dtype) # Refused
  PROVE  DispatchConcat(<<a, b>>, dims, dtype)
           = Written(Written(Out(dims), PartWrites(a, 0)), PartWrites(b, q))
<1>1. PICK parts : parts = <<a, b>>
  OBVIOUS
<1>2. parts[1] = a /\ parts[2] = b /\ Len(parts) = 2
  BY <1>1
<1>3. PICK got : got = DispatchConcat(parts, dims, dtype)
  OBVIOUS
<1>4. got # Refused /\ got = DispatchConcat(<<a, b>>, dims, dtype)
  BY <1>1, <1>3
<1>5. got = (CHOOSE g : AfterParts(parts, dims, g))[Len(parts)]
  BY <1>3, <1>4, Zenon DEF DispatchConcat, AfterParts, Moved
<1>6. PICK w0, w1, w2 : /\ w0 = Out(dims)
                        /\ w1 = Unless({w0}, Moved(parts, w0, 1))
                        /\ w2 = Unless({w1}, Moved(parts, w1, 2))
  OBVIOUS
<1>7. PICK f : f = [i \in 0..2 |-> IF i = 0 THEN w0 ELSE IF i = 1 THEN w1 ELSE w2]
  OBVIOUS
<1>8. AfterParts(parts, dims, f)
  <2>1. f[0] = w0 /\ f[1] = w1 /\ f[2] = w2
    BY <1>7
  <2>2. 1 - 1 = 0 /\ 2 - 1 = 1 /\ \A i \in 0..2 : i = 0 \/ i = 1 \/ i = 2
    OBVIOUS
  <2>3. \A i \in 0..2 : f[i] = IF i = 0 THEN w0 ELSE Unless({f[i - 1]}, Moved(parts, f[i - 1], i))
    <3>1. f[1] = Unless({f[1 - 1]}, Moved(parts, f[1 - 1], 1))
      BY <1>6, <2>1, <2>2, Zenon
    <3>2. f[2] = Unless({f[2 - 1]}, Moved(parts, f[2 - 1], 2))
      BY <1>6, <2>1, <2>2, Zenon
    <3>3. 1 # 0 /\ 2 # 0
      OBVIOUS
    <3>4. QED
      BY <2>1, <2>2, <3>1, <3>2, <3>3, Zenon
  <2>4. f = [i \in 0..2 |-> f[i]]
    BY <1>7
  <2>5. f = [i \in 0..2 |-> IF i = 0 THEN w0 ELSE Unless({f[i - 1]}, Moved(parts, f[i - 1], i))]
    BY <2>3, <2>4
  <2>6. QED
    BY <1>2, <1>6, <2>5, Zenon DEF AfterParts
<1>9. PICK g : AfterParts(parts, dims, g) /\ got = g[2]
  BY <1>2, <1>5, <1>8, Zenon
<1>10. g[0] = Out(dims) /\ g[1] = Unless({g[0]}, Moved(parts, g[0], 1))
       /\ g[2] = Unless({g[1]}, Moved(parts, g[1], 2))
  <2>1. \A i \in 0..2 : g[i] = IF i = 0 THEN Out(dims)
                               ELSE Unless({g[i - 1]}, Moved(parts, g[i - 1], i))
    BY <1>2, <1>9, Zenon DEF AfterParts
  <2>2. 0 \in 0..2 /\ 1 \in 0..2 /\ 2 \in 0..2 /\ 1 - 1 = 0 /\ 2 - 1 = 1 /\ 1 # 0 /\ 2 # 0
    OBVIOUS
  <2>3. g[0] = Out(dims)
    BY <2>1, <2>2, Zenon
  <2>4. g[1] = Unless({g[1 - 1]}, Moved(parts, g[1 - 1], 1))
    BY <2>1, <2>2, Zenon
  <2>5. g[2] = Unless({g[2 - 1]}, Moved(parts, g[2 - 1], 2))
    BY <2>1, <2>2, Zenon
  <2>6. QED
    BY <2>2, <2>3, <2>4, <2>5, Zenon
<1>11. g[2] = Moved(parts, g[1], 2) /\ g[1] # Refused
  BY <1>4, <1>9, <1>10 DEF Unless
<1>12. g[1] = Moved(parts, g[0], 1)
  BY <1>10, <1>11 DEF Unless
<1>13. Total([j \in 1..(1 - 1) |-> Product(parts[j].dims)]) = 0
  <2>1. DOMAIN [j \in 1..(1 - 1) |-> Product(parts[j].dims)] = {}
    OBVIOUS
  <2>2. QED
    BY <2>1, TotalNone
<1>14. Total([j \in 1..(2 - 1) |-> Product(parts[j].dims)]) = q
  <2>1. PICK s : s = [j \in 1..(2 - 1) |-> Product(parts[j].dims)]
    OBVIOUS
  <2>2. DOMAIN s = 1..1 /\ s[1] = q
    BY <1>2, <2>1
  <2>3. Total(s) = q
    BY <2>2, SingleItem
  <2>4. QED
    BY <2>1, <2>3
<1>15. Moved(parts, g[0], 1) = Written(g[0], PartWrites(a, 0))
  BY <1>2, <1>13 DEF Moved, EncodeGCopy, Storage, PartWrites
<1>16. Moved(parts, g[1], 2) = Written(g[1], PartWrites(b, q))
  BY <1>2, <1>14 DEF Moved, EncodeGCopy, Storage, PartWrites
<1>17. QED
  BY <1>4, <1>9, <1>10, <1>11, <1>12, <1>15, <1>16

\* The axes of dims before axis m are of size 1.
LeadingOnes(dims, m) ==
  dims \in Seq(Nat) /\ m \in 1..Len(dims) /\ Product(SubSeq(dims, 1, m - 1)) = 1

\* What the axes of an index behind axis m add to its position.
Remainder(dims, idx, m) == Total(Post(Steps(idx, Contiguous(dims)), m, Len(dims)))

\* A position is then a row of axis m and what is left.
LEMMA LeadingOnesFlatten ==
  ASSUME NEW dims, NEW m, LeadingOnes(dims, m), NEW idx \in Indices(dims)
  PROVE  /\ Remainder(dims, idx, m) \in Nat /\ Remainder(dims, idx, m) < Block(dims, m)
         /\ Flatten(dims, idx) = idx[m] * Block(dims, m) + Remainder(dims, idx, m)
<1>1. PICK n \in Nat : n = Len(dims)
  BY DEF LeadingOnes
<1>2. dims \in Seq(Nat) /\ m \in 1..n /\ Product(SubSeq(dims, 1, m - 1)) = 1
  BY <1>1 DEF LeadingOnes
<1>3. idx \in [1..n -> Nat] /\ \A i \in 1..n : idx[i] < dims[i]
  BY <1>1 DEF Indices
<1>4. PICK s : s = Steps(idx, Contiguous(dims))
  OBVIOUS
<1>5. s \in [1..n -> Int] /\ s[m] = idx[m] * Block(dims, m)
  BY <1>1, <1>2, <1>3, <1>4, DenseSteps
<1>6. PICK r \in Nat : r = Total(Post(s, m, n)) /\ r < Block(dims, m)
  <2>1. m \in 0..n
    BY <1>2
  <2>2. QED
    BY <1>1, <1>2, <1>4, <2>1, TailBelow
<1>7. Total(Pre(s, m - 1)) = 0
  <2>1. PICK head : head = SubSeq(dims, 1, m - 1)
    OBVIOUS
  <2>2. HeadAxes(head, dims, m - 1)
    <3>1. m - 1 \in 0..n
      BY <1>2
    <3>2. QED
      BY <1>1, <1>2, <2>1, <3>1, Zenon DEF HeadAxes
  <2>3. head \in Seq(Nat) /\ Len(head) = m - 1 /\ \A i \in 1..(m - 1) : head[i] = dims[i]
    BY <2>2, HeadAxesFacts
  <2>4. PICK u : u = [i \in 1..(m - 1) |-> idx[i]]
    OBVIOUS
  <2>5. \A i \in 1..(m - 1) : i \in 1..n
    BY <1>2
  <2>6. u \in [1..(m - 1) -> Nat] /\ \A i \in 1..(m - 1) : u[i] = idx[i]
    BY <1>3, <2>4, <2>5
  <2>7. u \in Indices(head)
    BY <1>3, <2>3, <2>5, <2>6 DEF Indices
  <2>8. Starts(u, idx, m - 1, Len(dims))
    BY <1>1, <1>3, <2>6 DEF Starts
  <2>9. Flatten(head, u) \in Nat /\ Flatten(head, u) < 1
    BY <1>2, <2>1, <2>3, <2>7, FlattenBelow
  <2>10. Total(Pre(s, m - 1)) = Flatten(head, u) * Block(dims, m - 1)
    BY <1>4, <2>2, <2>8, HeadAxesTotal
  <2>11. Block(dims, m - 1) \in Nat
    BY <2>2, HeadAxesBlocks
  <2>12. Flatten(head, u) = 0
    BY <2>9
  <2>13. QED
    BY <2>10, <2>11, <2>12
<1>8. Flatten(dims, idx) = Total(s)
  BY <1>1, <1>2, <1>3, <1>4, FlattenIs
<1>9. Total(s) = Total(Pre(s, m)) + r
  <2>1. m \in 0..n
    BY <1>2
  <2>2. QED
    BY <1>5, <1>6, <2>1, CutFacts
<1>10. Total(Pre(s, m)) = Total(Pre(s, m - 1)) + s[m]
  BY <1>2, <1>5, CutFacts
<1>11. s[m] \in Int
  BY <1>2, <1>5
<1>12. Flatten(dims, idx) = s[m] + r
  BY <1>6, <1>7, <1>8, <1>9, <1>10, <1>11
<1>13. QED
  BY <1>1, <1>4, <1>5, <1>6, <1>12, Zenon DEF Remainder

\* d, e and the shape of their concat: sizes differ on axis m only.
Alike(d, e, m) ==
  /\ d \in Seq(Nat) /\ e \in Seq(Nat) /\ Len(e) = Len(d) /\ m \in 1..Len(d)
  /\ \A c \in 1..Len(d) : c # m => e[c] = d[c]

\* Two indices that agree behind axis m.
AgreeBehind(idx, old, m, n) ==
  idx \in [1..n -> Nat] /\ old \in [1..n -> Nat] /\ \A c \in (m + 1)..n : old[c] = idx[c]

\* They leave the same steps, and the same remainder behind axis m.
LEMMA AlikeFacts ==
  ASSUME NEW d, NEW e, NEW m, Alike(d, e, m)
  PROVE  /\ Block(e, m) = Block(d, m)
         /\ LeadingOnes(d, m) => LeadingOnes(e, m)
         /\ \A idx, old : AgreeBehind(idx, old, m, Len(d)) => Remainder(e, old, m) = Remainder(d, idx, m)
<1>1. PICK n \in Nat : n = Len(d)
  BY DEF Alike
<1>2. /\ d \in Seq(Nat) /\ e \in Seq(Nat) /\ Len(e) = n /\ m \in 1..n
      /\ \A c \in 1..n : c # m => e[c] = d[c]
  BY <1>1 DEF Alike
<1>3. ASSUME NEW c \in m..n PROVE Block(e, c) = Block(d, c)
  <2>1. SubSeq(d, c + 1, n) = [i \in 1..(n - c) |-> d[c + i]]
    <3>1. d \in Seq(Nat) /\ Len(d) = n /\ c \in Nat
      BY <1>1, <1>2
    <3>2. QED
      BY ONLY <3>1, n \in Nat
  <2>2. SubSeq(e, c + 1, n) = [i \in 1..(n - c) |-> e[c + i]]
    BY <1>2
  <2>3. \A i \in 1..(n - c) : c + i \in 1..n /\ c + i # m
    BY <1>2
  <2>4. \A i \in 1..(n - c) : e[c + i] = d[c + i]
    BY <1>2, <2>3
  <2>5. SubSeq(e, c + 1, n) = SubSeq(d, c + 1, n)
    BY <2>1, <2>2, <2>4
  <2>6. QED
    BY <1>1, <1>2, <2>5, Zenon DEF Block
<1>4. m \in m..n
  BY <1>2
<1>5. ASSUME LeadingOnes(d, m) PROVE LeadingOnes(e, m)
  <2>1. SubSeq(d, 1, m - 1) = [i \in 1..(m - 1) |-> d[i]]
    BY <1>1, <1>2
  <2>2. SubSeq(e, 1, m - 1) = [i \in 1..(m - 1) |-> e[i]]
    BY <1>2
  <2>3. \A i \in 1..(m - 1) : i \in 1..n /\ i # m
    BY <1>2
  <2>4. \A i \in 1..(m - 1) : e[i] = d[i]
    BY <1>2, <2>3
  <2>5. SubSeq(e, 1, m - 1) = SubSeq(d, 1, m - 1)
    BY <2>1, <2>2, <2>4
  <2>6. QED
    BY <1>2, <1>5, <2>5, Zenon DEF LeadingOnes
<1>6. ASSUME NEW idx, NEW old, AgreeBehind(idx, old, m, Len(d))
      PROVE  Remainder(e, old, m) = Remainder(d, idx, m)
  <2>1. /\ idx \in [1..n -> Nat] /\ old \in [1..n -> Nat]
        /\ \A c \in (m + 1)..n : old[c] = idx[c]
    BY <1>1, <1>6 DEF AgreeBehind
  <2>2. PICK s : s = Steps(idx, Contiguous(d))
    OBVIOUS
  <2>3. PICK r : r = Steps(old, Contiguous(e))
    OBVIOUS
  <2>4. \A c \in 1..n : s[c] = idx[c] * Block(d, c)
    BY <1>1, <1>2, <2>1, <2>2, DenseSteps
  <2>5. \A c \in 1..n : r[c] = old[c] * Block(e, c)
    BY <1>2, <2>1, <2>3, DenseSteps
  <2>6. \A i \in 1..(n - m) : m + i \in 1..n /\ m + i \in m..n /\ m + i \in (m + 1)..n
    BY <1>2
  <2>7. \A i \in 1..(n - m) : r[m + i] = s[m + i]
    BY <1>3, <2>1, <2>4, <2>5, <2>6, Zenon
  <2>8. Post(r, m, n) = Post(s, m, n)
    BY <2>7 DEF Post
  <2>9. QED
    BY <1>1, <1>2, <2>2, <2>3, <2>8, Zenon DEF Remainder
<1>7. QED
  BY <1>3, <1>4, <1>5, <1>6

\* A shape with leading ones has its rows of axis m, and nothing else.
LEMMA LeadingOnesProduct ==
  ASSUME NEW dims, NEW m, LeadingOnes(dims, m)
  PROVE  /\ Block(dims, m) \in Nat /\ dims[m] \in Nat
         /\ Product(dims) = dims[m] * Block(dims, m)
<1>1. dims \in Seq(Nat) /\ m \in 1..Len(dims) /\ Product(SubSeq(dims, 1, m - 1)) = 1
  BY DEF LeadingOnes
<1>2. PICK head : head = SubSeq(dims, 1, m - 1)
  OBVIOUS
<1>3. HeadAxes(head, dims, m - 1)
  <2>1. m - 1 \in 0..Len(dims)
    BY <1>1
  <2>2. QED
    BY <1>1, <1>2, <2>1, Zenon DEF HeadAxes
<1>4. Product(dims) = Product(head) * Block(dims, m - 1) /\ Block(dims, m - 1) \in Nat
  BY <1>3, HeadAxesBlocks
<1>5. Block(dims, m - 1) = dims[m] * Block(dims, m)
  BY <1>1, BlockFacts
<1>6. Block(dims, m) \in Nat
  <2>1. m \in 0..Len(dims)
    BY <1>1
  <2>2. QED
    BY <1>1, <2>1, BlockFacts
<1>7. dims[m] \in Nat
  BY <1>1
<1>8. Product(dims) = Block(dims, m - 1)
  BY <1>1, <1>2, <1>4
<1>9. QED
  BY <1>5, <1>6, <1>7, <1>8

\* dims joins d and e along axis m.
Joint(dims, d, e, m) ==
  LeadingOnes(d, m) /\ Alike(d, e, m) /\ dims = [d EXCEPT ![m] = d[m] + e[m]]

\* The parts of a joint shape.
LEMMA JointFacts ==
  ASSUME NEW dims, NEW d, NEW e, NEW m, Joint(dims, d, e, m)
  PROVE  /\ Alike(d, dims, m) /\ Alike(d, e, m) /\ dims[m] = d[m] + e[m]
         /\ LeadingOnes(dims, m) /\ LeadingOnes(d, m) /\ LeadingOnes(e, m)
         /\ Product(d) \in Nat /\ Product(e) \in Nat /\ Product(dims) = Product(d) + Product(e)
<1>1. LeadingOnes(d, m) /\ Alike(d, e, m) /\ dims = [d EXCEPT ![m] = d[m] + e[m]]
  BY DEF Joint
<1>2. PICK n \in Nat : n = Len(d)
  BY <1>1 DEF Alike
<1>3. d \in [1..n -> Nat] /\ e \in [1..n -> Nat] /\ m \in 1..n
  <2>1. d \in Seq(Nat) /\ e \in Seq(Nat) /\ Len(d) = n /\ Len(e) = n /\ m \in 1..n
    BY <1>1, <1>2, Zenon DEF Alike
  <2>2. QED
    BY ONLY <2>1, n \in Nat
<1>4. PICK s \in Nat : s = d[m] + e[m]
  BY <1>3
<1>5. dims = [d EXCEPT ![m] = s]
  BY <1>1, <1>4
<1>6. dims \in [1..n -> Nat] /\ dims[m] = s /\ \A c \in 1..n : c # m => dims[c] = d[c]
  BY ONLY <1>3, <1>5, s \in Nat
<1>7. dims \in Seq(Nat) /\ Len(dims) = n
  BY <1>6
<1>8. Alike(d, dims, m)
  BY <1>1, <1>2, <1>3, <1>6, <1>7 DEF Alike
<1>9. LeadingOnes(dims, m)
  BY <1>1, <1>8, AlikeFacts
<1>10. LeadingOnes(e, m)
  BY <1>1, AlikeFacts
<1>11. PICK b \in Nat : b = Block(d, m)
  BY <1>1, LeadingOnesProduct
<1>12. Block(dims, m) = b /\ Block(e, m) = b
  <2>1. Block(dims, m) = b
    BY <1>8, <1>11, AlikeFacts
  <2>2. Block(e, m) = b
    BY <1>1, <1>11, AlikeFacts
  <2>3. QED
    BY <2>1, <2>2
<1>13. PICK i \in Nat, j \in Nat : i = d[m] /\ j = e[m]
  BY <1>3
<1>14. Product(d) = i * b
  BY <1>1, <1>11, <1>13, LeadingOnesProduct
<1>15. Product(e) = j * b
  BY <1>10, <1>12, <1>13, LeadingOnesProduct
<1>16. Product(dims) = (i + j) * b
  <2>1. Product(dims) = dims[m] * Block(dims, m)
    BY <1>9, LeadingOnesProduct
  <2>2. dims[m] = i + j
    BY <1>4, <1>6, <1>13
  <2>3. QED
    BY <1>12, <2>1, <2>2
<1>17. (i + j) * b = i * b + j * b /\ i * b \in Nat /\ j * b \in Nat
  OBVIOUS
<1>18. QED
  BY <1>1, <1>4, <1>6, <1>8, <1>9, <1>10, <1>14, <1>15, <1>16, <1>17

\* The index of a position of the joint shape, and the part it falls into.
JointAt(dims, d, e, m, k, idx) == Joint(dims, d, e, m) /\ Within(k, dims) /\ idx = Unflatten(dims, k)

\* old is index idx as one of shape d, where it is at position k.
Places(d, old, k) == old \in Indices(d) /\ Flatten(d, old) = k

\* Row i of axis m of one of the shapes: the same index there.
LEMMA PlacedAt ==
  ASSUME NEW dims, NEW d, NEW m, Alike(d, dims, m), LeadingOnes(d, m), LeadingOnes(dims, m),
         NEW idx \in Indices(dims), NEW i \in Nat, i < d[m],
         NEW old, old = [idx EXCEPT ![m] = i]
  PROVE  /\ Places(d, old, i * Block(d, m) + Remainder(dims, idx, m))
         /\ Block(d, m) = Block(dims, m)
<1>1. PICK n \in Nat : n = Len(d)
  BY DEF Alike
<1>2. /\ d \in Seq(Nat) /\ dims \in Seq(Nat) /\ Len(dims) = n /\ Len(d) = n /\ m \in 1..n
      /\ \A c \in 1..n : c # m => dims[c] = d[c]
  BY <1>1 DEF Alike
<1>3. idx \in [1..n -> Nat] /\ \A c \in 1..n : idx[c] < dims[c]
  BY <1>2 DEF Indices
<1>4. old \in [1..n -> Nat] /\ old[m] = i /\ \A c \in 1..n : c # m => old[c] = idx[c]
  BY <1>2, <1>3
<1>5. \A c \in 1..n : old[c] < d[c]
  <2>1. old[m] < d[m]
    BY <1>4
  <2>2. ASSUME NEW c \in 1..n, c # m PROVE old[c] < d[c]
    BY <1>2, <1>3, <1>4, <2>2
  <2>3. QED
    BY <2>1, <2>2
<1>6. old \in Indices(d)
  BY <1>1, <1>4, <1>5 DEF Indices
<1>7. Flatten(d, old) = old[m] * Block(d, m) + Remainder(d, old, m)
  BY <1>6, LeadingOnesFlatten
<1>8. Remainder(dims, idx, m) = Remainder(d, old, m)
  <2>1. \A c \in (m + 1)..n : c \in 1..n /\ c # m
    BY <1>2
  <2>2. AgreeBehind(old, idx, m, Len(d))
    BY <1>1, <1>3, <1>4, <2>1 DEF AgreeBehind
  <2>3. QED
    BY <2>2, AlikeFacts
<1>9. Block(d, m) = Block(dims, m)
  BY AlikeFacts
<1>10. Flatten(d, old) = i * Block(d, m) + Remainder(dims, idx, m)
  BY <1>4, <1>7, <1>8
<1>11. QED
  BY <1>6, <1>9, <1>10 DEF Places

\* The two cases of an index of the joint shape.
LEMMA JointIndex ==
  ASSUME NEW dims, NEW d, NEW e, NEW m, NEW k, NEW idx, JointAt(dims, d, e, m, k, idx)
  PROVE  /\ k < Product(d) => idx[m] < d[m] /\ Places(d, idx, k)
         /\ ~(k < Product(d)) => /\ ~(idx[m] < d[m])
                                 /\ Places(e, [idx EXCEPT ![m] = @ - d[m]], k - Product(d))
<1>1. Joint(dims, d, e, m) /\ k \in Nat /\ k < Product(dims) /\ idx = Unflatten(dims, k)
  BY DEF JointAt, Within
<1>2. /\ Alike(d, dims, m) /\ Alike(d, e, m) /\ dims[m] = d[m] + e[m]
      /\ LeadingOnes(dims, m) /\ LeadingOnes(d, m) /\ LeadingOnes(e, m)
  BY <1>1, JointFacts
<1>3. PICK p \in Nat : p = Product(dims)
  <2>1. Product(d) \in Nat /\ Product(e) \in Nat /\ Product(dims) = Product(d) + Product(e)
    BY <1>1, JointFacts
  <2>2. QED
    BY <2>1
<1>4. dims \in Seq(Nat) /\ m \in 1..Len(dims)
  BY <1>2 DEF LeadingOnes
<1>5. idx \in Indices(dims) /\ Flatten(dims, idx) = k
  <2>1. k \in 0..(p - 1)
    BY <1>1, <1>3
  <2>2. idx \in Indices(dims)
    BY <1>1, <1>3, <1>4, <2>1, UnflattenType
  <2>3. Flatten(dims, idx) = k
    BY <1>1, <1>3, <1>4, <2>1, FlattenUnflatten
  <2>4. QED
    BY <2>2, <2>3
<1>6. idx \in [1..Len(dims) -> Nat] /\ idx[m] \in Nat /\ idx[m] < dims[m]
  BY <1>4, <1>5 DEF Indices
<1>7. PICK r \in Nat : r = Remainder(dims, idx, m) /\ r < Block(dims, m)
  BY <1>2, <1>5, LeadingOnesFlatten
<1>8. k = idx[m] * Block(dims, m) + r
  BY <1>2, <1>5, <1>7, LeadingOnesFlatten
<1>9. PICK b \in Nat : b = Block(d, m) /\ b = Block(dims, m)
  <2>1. Block(d, m) \in Nat
    BY <1>2, LeadingOnesProduct
  <2>2. Block(d, m) = Block(dims, m)
    BY <1>2, AlikeFacts
  <2>3. QED
    BY <2>1, <2>2
<1>10. PICK q \in Nat, u \in Nat, v \in Nat : q = idx[m] /\ u = d[m] /\ v = e[m]
  <2>1. d[m] \in Nat
    BY <1>2, LeadingOnesProduct
  <2>2. e[m] \in Nat
    BY <1>2, LeadingOnesProduct
  <2>3. QED
    BY <1>6, <2>1, <2>2
<1>11. Product(d) = u * b /\ k = q * b + r /\ r < b /\ q < u + v
  <2>1. Product(d) = d[m] * Block(d, m)
    BY <1>2, LeadingOnesProduct
  <2>2. QED
    BY <1>2, <1>6, <1>7, <1>8, <1>9, <1>10, <2>1
<1>12. k < u * b <=> q < u
  <2>1. CASE q < u
    <3>1. q * b + r < u * b
      BY ONLY <1>11, <2>1, DigitBelow, q \in Nat, u \in Nat, b \in Nat, r \in Nat
    <3>2. QED
      BY <1>11, <2>1, <3>1
  <2>2. CASE ~(q < u)
    <3>1. PICK z \in Nat : q = u + z
      <4>1. q - u \in Nat /\ q = u + (q - u)
        BY <2>2
      <4>2. QED
        BY <4>1
    <3>2. q * b = u * b + z * b /\ z * b \in Nat /\ u * b \in Nat
      BY <3>1
    <3>3. QED
      BY <1>11, <2>2, <3>2
  <2>3. QED
    BY <2>1, <2>2
<1>13. ASSUME k < Product(d) PROVE idx[m] < d[m] /\ Places(d, idx, k)
  <2>1. q < u
    BY <1>11, <1>12, <1>13
  <2>2. PICK old : old = [idx EXCEPT ![m] = q]
    OBVIOUS
  <2>3. old = idx
    BY <1>4, <1>6, <1>10, <2>2
  <2>4. q < d[m]
    BY <1>10, <2>1
  <2>5. Places(d, old, q * Block(d, m) + Remainder(dims, idx, m))
    BY <1>2, <1>5, <2>2, <2>4, PlacedAt
  <2>6. q * Block(d, m) + Remainder(dims, idx, m) = k
    BY <1>7, <1>9, <1>11
  <2>7. QED
    BY <1>10, <2>3, <2>4, <2>5, <2>6, Zenon
<1>14. ASSUME ~(k < Product(d))
       PROVE  ~(idx[m] < d[m]) /\ Places(e, [idx EXCEPT ![m] = @ - d[m]], k - Product(d))
  <2>1. ~(q < u)
    BY <1>11, <1>12, <1>14
  <2>2. PICK z \in Nat : q = u + z
    <3>1. q - u \in Nat /\ q = u + (q - u)
      BY <2>1
    <3>2. QED
      BY <3>1
  <2>3. PICK old : old = [idx EXCEPT ![m] = z]
    OBVIOUS
  <2>4. [idx EXCEPT ![m] = @ - d[m]] = old
    <3>1. idx[m] - d[m] = z
      BY <1>10, <2>2
    <3>2. QED
      BY <2>3, <3>1
  <2>5. z < e[m]
    BY <1>10, <1>11, <2>2
  <2>6. Alike(e, dims, m)
    BY <1>2 DEF Alike
  <2>7. Places(e, old, z * Block(e, m) + Remainder(dims, idx, m))
    BY <1>2, <1>5, <2>3, <2>5, <2>6, PlacedAt
  <2>8. Block(e, m) = b
    BY <1>2, <1>9, AlikeFacts
  <2>9. z * b + r = k - u * b
    <3>1. q * b = u * b + z * b /\ z * b \in Nat /\ u * b \in Nat
      BY <2>2
    <3>2. QED
      BY <1>11, <3>1
  <2>10. z * Block(e, m) + Remainder(dims, idx, m) = k - Product(d)
    BY <1>7, <1>11, <2>8, <2>9
  <2>11. ~(idx[m] < d[m])
    BY <1>10, <2>1
  <2>12. QED
    BY <2>4, <2>7, <2>10, <2>11, Zenon
<1>15. QED
  BY <1>13, <1>14

\* concat.
LEMMA ConcatCall ==
  ASSUME IInv, Concat
  PROVE  DispatchComputes'
<1>1. PICK m, dims :
        /\ m \in 1..4
        /\ dims = [x.dims EXCEPT ![m] = x.dims[m] + y.dims[m]]
        /\ Call("concat", ConcatAccepts(x, y, m),
                [k \in 1..Product(dims) |->
                   IF Unflatten(dims, k - 1)[m] < x.dims[m] THEN Says("x", Unflatten(dims, k - 1))
                   ELSE Says("y", [Unflatten(dims, k - 1) EXCEPT ![m] = @ - x.dims[m]])],
                DispatchConcat(<<x, y>>, dims, x.dtype))
  BY DEF Concat, Tabulate
<1>2. PICK w :
        w = [k \in 1..Product(dims) |->
               IF Unflatten(dims, k - 1)[m] < x.dims[m] THEN Says("x", Unflatten(dims, k - 1))
               ELSE Says("y", [Unflatten(dims, k - 1) EXCEPT ![m] = @ - x.dims[m]])]
  OBVIOUS
<1>3. PICK got : got = DispatchConcat(<<x, y>>, dims, x.dtype)
  OBVIOUS
<1>4. Call("concat", ConcatAccepts(x, y, m), w, got)
  BY <1>1, <1>2, <1>3, Zenon
<1>5. ASSUME ConcatAccepts(x, y, m), got # Refused PROVE got = w
  <2>1. "x" \in Arg /\ "y" \in Arg
    BY DEF Arg
  <2>2. Holds(x, says["x"]) /\ x.dims \in Seq(Nat)
    BY <2>1, OperandFacts DEF x
  <2>3. Holds(y, says["y"]) /\ y.dims \in Seq(Nat)
    BY <2>1, OperandFacts DEF y
  <2>4. PICK d \in Seq(Nat), e \in Seq(Nat) : d = x.dims /\ e = y.dims
    BY <2>2, <2>3
  <2>5. /\ m \in 1..Len(d) /\ Len(d) = Len(e)
        /\ \A c \in (1..Len(d)) \ {m} : d[c] = e[c]
        /\ Product(SubSeq(d, 1, m - 1)) = 1
    BY <1>5, <2>4, Zenon DEF ConcatAccepts, Rank
  <2>6. Joint(dims, d, e, m)
    <3>1. LeadingOnes(d, m)
      BY <2>4, <2>5 DEF LeadingOnes
    <3>2. Alike(d, e, m)
      BY <2>4, <2>5 DEF Alike
    <3>3. QED
      BY <1>1, <2>4, <3>1, <3>2, Zenon DEF Joint
  <2>7. PICK p \in Nat, q \in Nat, r \in Nat :
          q = Product(d) /\ r = Product(e) /\ p = Product(dims) /\ p = q + r
    <3>1. Product(d) \in Nat /\ Product(e) \in Nat /\ Product(dims) = Product(d) + Product(e)
      BY <2>6, JointFacts
    <3>2. QED
      BY <3>1
  <2>8. d # <<>> /\ e # <<>>
    BY <2>5
  <2>9. got = Written(Written(Out(dims), PartWrites(x, 0)), PartWrites(y, q))
    <3>1. x.dims # <<>> /\ y.dims # <<>> /\ q = Product(x.dims) /\ q \in Int
      BY <2>4, <2>7, <2>8
    <3>2. QED
      BY <1>3, <1>5, <3>1, ConcatRuns, ZenonT(60)
  <2>10. ASSUME NEW j \in 1..q PROVE w[0 + j] = says["x"][j]
    <3>1. PICK k \in Nat : k = j - 1 /\ k < q /\ k < p /\ k + 1 = j /\ j \in 1..p
      BY <2>7, <2>10
    <3>2. PICK idx : idx = Unflatten(dims, k)
      OBVIOUS
    <3>3. JointAt(dims, d, e, m, k, idx)
      BY <2>6, <2>7, <3>1, <3>2 DEF JointAt, Within
    <3>4. idx[m] < d[m] /\ Places(d, idx, k)
      <4>1. k < Product(d)
        BY <2>7, <3>1
      <4>2. QED
        BY <3>3, <4>1, JointIndex
    <3>5. w[j] = Says("x", idx)
      <4>1. w[j] = IF Unflatten(dims, j - 1)[m] < x.dims[m] THEN Says("x", Unflatten(dims, j - 1))
                   ELSE Says("y", [Unflatten(dims, j - 1) EXCEPT ![m] = @ - x.dims[m]])
        BY <1>2, <2>7, <3>1, Zenon
      <4>2. QED
        BY <2>4, <3>1, <3>2, <3>4, <4>1, Zenon
    <3>6. Says("x", idx) = says["x"][Flatten(d, idx) + 1]
      BY <2>4, Zenon DEF Says, At, Dims, x
    <3>7. Flatten(d, idx) = k
      BY <3>4 DEF Places
    <3>8. 0 + j = j
      OBVIOUS
    <3>9. QED
      BY <3>1, <3>5, <3>6, <3>7, <3>8, Zenon
  <2>11. ASSUME NEW j \in 1..r PROVE w[q + j] = says["y"][j]
    <3>1. PICK k \in Nat : /\ k = q + j - 1 /\ ~(k < q) /\ k < p /\ k + 1 = q + j
                           /\ q + j \in 1..p /\ (k - q) + 1 = j /\ (q + j) - 1 = k
      <4>1. j \in Nat /\ j >= 1 /\ j <= r /\ p = q + r
        BY <2>7, <2>11
      <4>2. PICK i \in Nat : j = i + 1
        BY <4>1
      <4>3. PICK k \in Nat : k = q + i
        OBVIOUS
      <4>4. /\ k = q + j - 1 /\ ~(k < q) /\ k < p /\ k + 1 = q + j
            /\ q + j \in 1..p /\ (k - q) + 1 = j /\ (q + j) - 1 = k
        BY <4>1, <4>2, <4>3
      <4>5. QED
        BY <4>4
    <3>2. PICK idx : idx = Unflatten(dims, k)
      OBVIOUS
    <3>3. JointAt(dims, d, e, m, k, idx)
      BY <2>6, <2>7, <3>1, <3>2 DEF JointAt, Within
    <3>4. PICK old : old = [idx EXCEPT ![m] = @ - d[m]]
      OBVIOUS
    <3>5. ~(idx[m] < d[m]) /\ Places(e, old, k - q)
      <4>1. ~(k < Product(d))
        BY <2>7, <3>1
      <4>2. ~(idx[m] < d[m]) /\ Places(e, [idx EXCEPT ![m] = @ - d[m]], k - Product(d))
        BY <3>3, <4>1, JointIndex
      <4>3. QED
        BY <2>7, <3>4, <4>2, Zenon
    <3>6. w[q + j] = Says("y", old)
      <4>1. w[q + j] = IF Unflatten(dims, (q + j) - 1)[m] < x.dims[m]
                       THEN Says("x", Unflatten(dims, (q + j) - 1))
                       ELSE Says("y", [Unflatten(dims, (q + j) - 1) EXCEPT ![m] = @ - x.dims[m]])
        BY <1>2, <2>7, <3>1, Zenon
      <4>2. QED
        BY <2>4, <3>1, <3>2, <3>4, <3>5, <4>1, Zenon
    <3>7. Says("y", old) = says["y"][Flatten(e, old) + 1]
      BY <2>4, Zenon DEF Says, At, Dims, y
    <3>8. Flatten(e, old) = k - q
      BY <3>5 DEF Places
    <3>9. QED
      BY <3>1, <3>6, <3>7, <3>8, Zenon
  <2>12. PartOf(w, p, x, says["x"], 0)
    <3>1. 0 + q <= p /\ 0 \in Nat
      BY <2>7
    <3>2. QED
      BY <2>2, <2>4, <2>7, <2>8, <2>10, <3>1, Zenon DEF PartOf
  <2>13. PartOf(w, p, y, says["y"], q)
    <3>1. q + r <= p
      BY <2>7
    <3>2. QED
      BY <2>3, <2>4, <2>7, <2>8, <2>11, <3>1, Zenon DEF PartOf
  <2>14. PICK buf : buf = Out(dims)
    OBVIOUS
  <2>15. buf \in [1..p -> Value]
    <3>1. dims \in Seq(Nat)
      BY <2>6, JointFacts DEF LeadingOnes
    <3>2. QED
      BY <2>7, <2>14, <3>1, OutFacts
  <2>16. w = [i \in 1..p |-> w[i]]
    BY <1>2, <2>7
  <2>17. Written(Written(buf, PartWrites(x, 0)), PartWrites(y, q)) = w
    <3>1. q = Product(x.dims) /\ p = q + Product(y.dims)
      BY <2>4, <2>7
    <3>2. Parted(w, p, x, says["x"], y, says["y"], q, buf)
      BY <2>12, <2>13, <2>15, <2>16, <3>1, Zenon DEF Parted
    <3>3. QED
      BY <3>2, TwoParts
  <2>18. QED
    BY <2>9, <2>14, <2>17
<1>6. QED
  BY <1>4, <1>5, CallComputes

----------------------------------------------------------------------------
\* Indices that gather follows: an operand of dtype U32 was uploaded as such,
\* no cast leads to it, and views and copies keep its elements.

Indexes(t) == t.dtype = "U32" => \A i \in 1..Len(t.store) : t.store[i][1] \in Nat

\* A view has the storage and the dtype of what it is a view of.
LEMMA ViewIndexes ==
  ASSUME NEW t, WellFormed(t), Indexes(t), NEW off, NEW dims, NEW strides
  PROVE  Indexes(View(t, off, dims, strides))
<1>1. PICK u : u = View(t, off, dims, strides)
  OBVIOUS
<1>2. u = Strided(dims, strides, off, TRUE, t.dtype, FALSE, t.store)
  BY <1>1, ViewFields
<1>3. u.dtype = t.dtype /\ u.store = t.store
  BY <1>2 DEF Strided
<1>4. QED
  BY <1>1, <1>3, Zenon DEF Indexes

\* An operand replaced by one that has its indices.
LEMMA BecomeIndexes ==
  ASSUME IInv, Indexes(arg["y"]), NEW a \in Arg, NEW t, NEW v, Become(a, t, v),
         Indexes(arg[a]) => Indexes(t)
  PROVE  Indexes(arg'["y"])
<1>1. arg' = [arg EXCEPT ![a] = t] /\ DOMAIN arg = Arg /\ "y" \in Arg
  BY DEF Become, IInv, Arg
<1>2. CASE a = "y"
  <2>1. arg'["y"] = t
    BY <1>1, <1>2
  <2>2. QED
    BY <1>2, <2>1
<1>3. CASE a # "y"
  <2>1. arg'["y"] = arg["y"]
    BY <1>1, <1>3
  <2>2. QED
    BY <2>1
<1>4. QED
  BY <1>2, <1>3

\* A copy of an operand has its elements, so its indices.
LEMMA CopiedIndexes ==
  ASSUME NEW t, NEW v, Holds(t, v), Indexes(t), Copied(t) # Refused
  PROVE  Indexes(Copied(t))
<1>1. CASE CopyElides(t)
  <2>1. WellFormed(t)
    BY DEF Holds
  <2>2. Copied(t) = View(t, 0, t.dims, Contiguous(t.dims))
    BY <1>1, Zenon DEF Copied, Elided
  <2>3. QED
    BY <2>1, <2>2, ViewIndexes
<1>2. CASE ~CopyElides(t)
  <2>1. PICK b : b = DispatchCopy(t)
    OBVIOUS
  <2>2. b # Refused /\ Copied(t) = Dense(t.dims, t.dtype, b)
    BY <1>2, <2>1, Zenon DEF Copied, Computed
  <2>3. b = v
    BY <2>1, <2>2, CopyComputes
  <2>4. PICK dims \in Seq(Nat) : dims = t.dims
    BY DEF Holds, WellFormed
  <2>5. PICK p \in Nat : p = Product(dims)
    BY BlockFacts
  <2>6. v \in [1..p -> Value]
    BY <2>4, <2>5 DEF Holds
  <2>7. Len(v) = p
    BY <2>6, LenIs
  <2>8. PICK u : u = Copied(t)
    OBVIOUS
  <2>9. u.store = v /\ u.dtype = t.dtype
    BY <2>2, <2>3, <2>8 DEF Dense
  <2>10. ASSUME t.dtype = "U32", NEW i \in 1..p PROVE v[i][1] \in Nat
    <3>1. PICK k \in 0..(p - 1) : k = i - 1 /\ k + 1 = i
      OBVIOUS
    <3>2. PICK idx : idx = Unflatten(dims, k)
      OBVIOUS
    <3>3. idx \in Indices(dims)
      BY <2>5, <3>2, UnflattenType
    <3>4. Flatten(dims, idx) = k
      BY <2>5, <3>2, FlattenUnflatten
    <3>5. /\ Address(t, idx) \in 0..(Len(t.store) - 1)
          /\ t.store[Address(t, idx) + 1] = v[Flatten(dims, idx) + 1]
      BY <2>4, <3>3 DEF Holds
    <3>6. t.store \in Seq(Value)
      BY DEF Holds, WellFormed
    <3>7. PICK n \in Nat : n = Len(t.store)
      BY <3>6
    <3>8. PICK j \in 1..n : j = Address(t, idx) + 1
      BY <3>5, <3>7
    <3>9. t.store[j] = v[i]
      BY <3>1, <3>4, <3>5, <3>8, Zenon
    <3>10. t.store[j][1] \in Nat
      BY <2>10, <3>7 DEF Indexes
    <3>11. QED
      BY <3>9, <3>10, Zenon
  <2>11. QED
    BY <2>7, <2>8, <2>9, <2>10 DEF Indexes
<1>3. QED
  BY <1>1, <1>2

\* Views, copies and casts keep the indices.
LEMMA ViewsKeepIndexes ==
  ASSUME IInv, Indexes(arg["y"]), NEW a \in Arg,
         \/ ReshapeArg(a) \/ PermuteArg(a) \/ SliceArg(a) \/ BroadcastArg(a)
         \/ CopyArg(a) \/ CastArg(a)
  PROVE  Indexes(arg'["y"])
<1>1. PICK t, v : t = arg[a] /\ v = says[a]
  OBVIOUS
<1>2. Holds(t, v) /\ WellFormed(t)
  <2>1. Holds(t, v)
    BY <1>1, OperandFacts
  <2>2. QED
    BY <2>1 DEF Holds
<1>3. CASE ReshapeArg(a)
  <2>1. PICK dims : Become(a, Reshape(t, dims), v)
    BY <1>1, <1>3 DEF ReshapeArg
  <2>2. Reshape(t, dims) = View(t, t.off, dims, Contiguous(dims))
    BY <2>1, Zenon DEF Become, Reshape
  <2>3. Indexes(t) => Indexes(Reshape(t, dims))
    BY <1>2, <2>2, ViewIndexes
  <2>4. QED
    BY <1>1, <2>1, <2>3, BecomeIndexes
<1>4. CASE PermuteArg(a)
  <2>1. PICK p, w : Become(a, Permute(t, p), w)
    BY <1>1, <1>4, Zenon DEF PermuteArg
  <2>2. Permute(t, p) = View(t, t.off, [i \in DOMAIN p |-> t.dims[p[i]]],
                                       [i \in DOMAIN p |-> t.strides[p[i]]])
    BY <2>1, Zenon DEF Become, Permute
  <2>3. PICK d, s : Permute(t, p) = View(t, t.off, d, s)
    BY <2>2
  <2>4. Indexes(t) => Indexes(Permute(t, p))
    BY <1>2, <2>3, ViewIndexes
  <2>5. QED
    BY <1>1, <2>1, <2>4, BecomeIndexes
<1>5. CASE SliceArg(a)
  <2>1. PICK r, w : Become(a, Slice(t, r), w)
    BY <1>1, <1>5, Zenon DEF SliceArg
  <2>2. PICK o, d, s : Slice(t, r) = View(t, o, d, s)
    BY <2>1, Zenon DEF Become, Slice
  <2>3. Indexes(t) => Indexes(Slice(t, r))
    BY <1>2, <2>2, ViewIndexes
  <2>4. QED
    BY <1>1, <2>1, <2>3, BecomeIndexes
<1>6. CASE BroadcastArg(a)
  <2>1. PICK dims, w : Become(a, BroadcastTo(t, dims), w)
    BY <1>1, <1>6, Zenon DEF BroadcastArg
  <2>2. PICK o, d, s : BroadcastTo(t, dims) = View(t, o, d, s)
    BY <2>1, Zenon DEF Become, BroadcastTo
  <2>3. Indexes(t) => Indexes(BroadcastTo(t, dims))
    BY <1>2, <2>2, ViewIndexes
  <2>4. QED
    BY <1>1, <2>1, <2>3, BecomeIndexes
<1>7. CASE CopyArg(a)
  <2>1. Become(a, Copied(t), v)
    BY <1>1, <1>7 DEF CopyArg
  <2>2. Copied(t) # Refused
    BY <2>1 DEF Become
  <2>3. Indexes(t) => Indexes(Copied(t))
    BY <1>2, <2>2, CopiedIndexes
  <2>4. QED
    BY <1>1, <2>1, <2>3, BecomeIndexes
<1>8. CASE CastArg(a)
  <2>1. PICK dtype \in {"F32", "BF16"} : Become(a, Casted(t, dtype), v) /\ dtype # t.dtype
    BY <1>1, <1>8 DEF CastArg
  <2>2. PICK b : Casted(t, dtype) = Dense(t.dims, dtype, b)
    BY <2>1, Zenon DEF Become, Casted, Computed
  <2>3. Casted(t, dtype).dtype = dtype
    BY <2>2 DEF Dense
  <2>4. Casted(t, dtype).dtype # "U32"
    BY <2>1, <2>3
  <2>5. Indexes(Casted(t, dtype))
    BY <2>4 DEF Indexes
  <2>6. QED
    BY <2>1, <2>5, BecomeIndexes
<1>9. QED
  BY <1>3, <1>4, <1>5, <1>6, <1>7, <1>8

\* With them the invariant of the operands that gather needs.
GInv == IInv /\ Indexes(arg["y"])

\* Uploaded indices are numbers.
LEMMA InitIndexes == Init => Indexes(arg["y"])
<1>1. SUFFICES ASSUME Init, arg["y"].dtype = "U32"
               PROVE  \A i \in 1..Len(arg["y"].store) : arg["y"].store[i][1] \in Nat
  BY Zenon DEF Indexes
<1>2. PICK p \in Leaves :
        arg = [x |-> Leaf(p[1], p[2], LAMBDA i : i),
               y |-> Leaf(p[3], p[4], LAMBDA i : IF p[4] = "U32" THEN Product(p[3]) - i
                                                 ELSE 100 + i)]
  BY <1>1 DEF Init
<1>3. PICK e \in Seq(Nat) : e = p[3]
  BY OperandAssumption
<1>4. PICK n \in Nat : n = Product(e)
  BY BlockFacts
<1>5. PICK w : w = [i \in 1..n |-> <<IF p[4] = "U32" THEN n - i ELSE 100 + i>>]
  OBVIOUS
<1>6. arg["y"] = [Dense(e, p[4], w) EXCEPT !.leaf = TRUE]
  BY <1>2, <1>3, <1>4, <1>5 DEF Leaf
<1>7. arg["y"].store = w /\ arg["y"].dtype = p[4]
  BY <1>6 DEF Dense
<1>8. w = [i \in 1..n |-> <<n - i>>]
  BY <1>1, <1>5, <1>7
<1>9. Len(w) = n
  <2>1. DOMAIN w = 1..n
    BY <1>8
  <2>2. QED
    BY <2>1, LenIs
<1>10. \A i \in 1..n : w[i][1] \in Nat
  BY <1>8
<1>11. QED
  BY <1>7, <1>9, <1>10

\* Every step keeps them.
LEMMA StepIndexes ==
  ASSUME GInv, [Next]_vars
  PROVE  GInv'
<1>1. IInv /\ Indexes(arg["y"])
  BY DEF GInv
<1>2. IInv'
  BY <1>1, StepHolds
<1>3. Indexes(arg'["y"])
  <2>1. CASE \E a \in Arg : \/ ReshapeArg(a) \/ PermuteArg(a) \/ SliceArg(a) \/ BroadcastArg(a)
                            \/ CopyArg(a) \/ CastArg(a)
    BY <1>1, <2>1, ViewsKeepIndexes
  <2>2. CASE Ops \/ UNCHANGED vars
    <3>1. arg' = arg
      BY <2>2, OpsRead DEF Untouched, vars
    <3>2. QED
      BY <1>1, <3>1
  <2>3. CASE SliceUpdate
    <3>1. PICK b : arg' = [arg EXCEPT !["x"].store = b]
      BY <2>3 DEF SliceUpdate
    <3>2. DOMAIN arg = Arg /\ "y" \in Arg
      BY <1>1 DEF IInv, Arg
    <3>3. arg'["y"] = arg["y"]
      BY <3>1, <3>2
    <3>4. QED
      BY <1>1, <3>3
  <2>4. QED
    BY <2>1, <2>2, <2>3 DEF Next, Ops
<1>4. QED
  BY <1>2, <1>3 DEF GInv

\* A list without its first item.
LEMMA TailIs ==
  ASSUME NEW m \in Nat, NEW s \in Seq(Nat), Len(s) = m + 1
  PROVE  Tail(s) = [i \in 1..m |-> s[i + 1]] /\ Tail(s) \in Seq(Nat) /\ Len(Tail(s)) = m
<1>1. s # <<>>
  OBVIOUS
<1>2. /\ Tail(s) \in Seq(Nat) /\ Len(Tail(s)) = Len(s) - 1
      /\ \A i \in 1..Len(Tail(s)) : Tail(s)[i] = s[i + 1]
  BY <1>1
<1>3. PICK t \in Seq(Nat) : t = Tail(s)
  BY <1>2
<1>4. Len(t) = m /\ \A i \in 1..m : t[i] = s[i + 1]
  BY <1>2, <1>3
<1>5. t = [i \in 1..m |-> t[i]]
  BY <1>4
<1>6. t = [i \in 1..m |-> s[i + 1]]
  BY <1>4, <1>5
<1>7. QED
  BY <1>3, <1>4, <1>6

\* gather over n indices into a table of shape d: the shape of the output.
GatherShape(dims, d, n) == d \in Seq(Nat) /\ d # <<>> /\ n \in Nat /\ dims = <<n>> \o Tail(d)

\* The output has n rows, each of the size of a row of the table.
LEMMA GatherShapeFacts ==
  ASSUME NEW dims, NEW d, NEW n, GatherShape(dims, d, n)
  PROVE  /\ Alike(d, dims, 1) /\ LeadingOnes(d, 1) /\ LeadingOnes(dims, 1) /\ dims[1] = n
         /\ Contiguous(d)[1] = Block(d, 1) /\ Product(Tail(d)) = Block(d, 1)
         /\ Product(dims) = n * Block(d, 1) /\ Product(d) = d[1] * Block(d, 1)
         /\ d[1] \in Nat /\ Block(d, 1) \in Nat
<1>1. d \in Seq(Nat) /\ d # <<>> /\ n \in Nat /\ dims = <<n>> \o Tail(d)
  BY DEF GatherShape
<1>2. PICK r \in Nat : Len(d) = r + 1
  <2>1. d \in Seq(Nat) /\ d # <<>>
    BY <1>1, Zenon
  <2>2. QED
    BY ONLY <2>1
<1>3. Tail(d) = [i \in 1..r |-> d[i + 1]] /\ Tail(d) \in Seq(Nat) /\ Len(Tail(d)) = r
  BY <1>1, <1>2, TailIs
<1>4. SubSeq(d, 1 + 1, r + 1) = [i \in 1..r |-> d[i + 1]]
  BY <1>1, <1>2
<1>5. dims \in Seq(Nat) /\ Len(dims) = r + 1 /\ dims[1] = n
  BY <1>1, <1>3
<1>6. \A c \in 1..(r + 1) : c # 1 => dims[c] = d[c]
  <2>1. ASSUME NEW c \in 1..(r + 1), c # 1 PROVE dims[c] = d[c]
    <3>1. PICK i \in 1..r : c = i + 1
      <4>1. c - 1 \in 1..r /\ c = (c - 1) + 1
        BY <2>1
      <4>2. QED
        BY <4>1
    <3>2. dims[1 + i] = Tail(d)[i]
      BY <1>1, <1>3
    <3>3. Tail(d)[i] = d[i + 1] /\ 1 + i = c
      BY <1>3, <3>1
    <3>4. QED
      BY <3>1, <3>2, <3>3
  <2>2. QED
    BY <2>1
<1>7. Alike(d, dims, 1)
  BY <1>1, <1>2, <1>5, <1>6 DEF Alike
<1>8. LeadingOnes(d, 1)
  <2>1. SubSeq(d, 1, 1 - 1) = <<>>
    BY <1>1
  <2>2. Product(<<>>) = 1
    BY ProductNone
  <2>3. 1 \in 1..Len(d)
    BY <1>2
  <2>4. QED
    BY <1>1, <2>1, <2>2, <2>3, Zenon DEF LeadingOnes
<1>9. LeadingOnes(dims, 1)
  BY <1>7, <1>8, AlikeFacts
<1>10. Block(dims, 1) = Block(d, 1)
  BY <1>7, AlikeFacts
<1>11. Product(dims) = n * Block(d, 1)
  BY <1>5, <1>9, <1>10, LeadingOnesProduct
<1>12. Product(d) = d[1] * Block(d, 1) /\ d[1] \in Nat /\ Block(d, 1) \in Nat
  BY <1>8, LeadingOnesProduct
<1>13. Contiguous(d)[1] = Block(d, 1)
  <2>1. 1 \in 1..Len(d)
    BY <1>2
  <2>2. QED
    BY <1>1, <2>1, ContiguousFacts
<1>14. Product(Tail(d)) = Block(d, 1)
  BY <1>2, <1>3, <1>4, Zenon DEF Block
<1>15. QED
  BY <1>5, <1>7, <1>8, <1>9, <1>11, <1>12, <1>13, <1>14

\* Position k is column c of row q of the output; row i of the table goes there.
Gathers(dims, d, n, k, q, c, i) ==
  /\ GatherShape(dims, d, n) /\ q \in Nat /\ c \in Nat /\ i \in Nat
  /\ q < n /\ c < Block(d, 1) /\ i < d[1] /\ k = q * Block(d, 1) + c

\* Its index is row q, and the table has what goes there at the index of row i.
LEMMA GatheredFrom ==
  ASSUME NEW dims, NEW d, NEW n, NEW k, NEW q, NEW c, NEW i, Gathers(dims, d, n, k, q, c, i)
  PROVE  /\ k \in Nat /\ k < Product(dims) /\ Unflatten(dims, k)[1] = q
         /\ Places(d, <<i>> \o Tail(Unflatten(dims, k)), i * Block(d, 1) + c)
         /\ i * Block(d, 1) + c \in Nat /\ i * Block(d, 1) + c < Product(d)
<1>1. GatherShape(dims, d, n) /\ q \in Nat /\ c \in Nat /\ i \in Nat
  BY DEF Gathers
<1>2. PICK b \in Nat : b = Block(d, 1)
  BY <1>1, GatherShapeFacts
<1>3. q < n /\ c < b /\ i < d[1] /\ k = q * b + c /\ n \in Nat /\ d[1] \in Nat
  <2>1. d[1] \in Nat
    BY <1>1, GatherShapeFacts
  <2>2. QED
    BY <1>2, <2>1 DEF Gathers, GatherShape
<1>4. k \in Nat /\ k < n * b
  BY ONLY <1>1, <1>3, DigitBelow, b \in Nat
<1>5. PICK p \in Nat : p = Product(dims) /\ p = n * b
  BY <1>1, <1>2, <1>3, GatherShapeFacts
<1>6. Alike(d, dims, 1) /\ LeadingOnes(d, 1) /\ LeadingOnes(dims, 1)
  BY <1>1, GatherShapeFacts
<1>7. dims \in Seq(Nat) /\ 1 \in 1..Len(dims)
  BY <1>6 DEF LeadingOnes
<1>8. PICK idx : idx = Unflatten(dims, k)
  OBVIOUS
<1>9. k \in 0..(p - 1)
  BY <1>4, <1>5
<1>10. idx \in Indices(dims)
  BY <1>5, <1>7, <1>8, <1>9, UnflattenType
<1>11. Flatten(dims, idx) = k
  BY <1>5, <1>7, <1>8, <1>9, FlattenUnflatten
<1>12. Block(dims, 1) = b
  BY <1>2, <1>6, AlikeFacts
<1>13. PICK r \in Nat : r = Remainder(dims, idx, 1) /\ r < b
  BY <1>6, <1>10, <1>12, LeadingOnesFlatten
<1>14. idx \in [1..Len(dims) -> Nat]
  BY <1>10 DEF Indices
<1>15. PICK h \in Nat : h = idx[1]
  BY <1>7, <1>14
<1>16. k = h * b + r
  <2>1. Flatten(dims, idx) = idx[1] * Block(dims, 1) + Remainder(dims, idx, 1)
    BY <1>6, <1>10, LeadingOnesFlatten
  <2>2. QED
    BY <1>11, <1>12, <1>13, <1>15, <2>1, Zenon
<1>17. k \div b = q /\ k % b = c
  BY ONLY <1>1, <1>3, <1>4, DivUnique, b \in Nat
<1>18. k \div b = h /\ k % b = r
  BY ONLY <1>4, <1>13, <1>15, <1>16, DivUnique, b \in Nat
<1>19. h = q /\ r = c
  BY <1>17, <1>18, Zenon
<1>20. PICK old : old = [idx EXCEPT ![1] = i]
  OBVIOUS
<1>21. <<i>> \o Tail(idx) = old
  <2>1. PICK m \in Nat : Len(dims) = m + 1
    <3>1. Len(dims) \in Nat /\ Len(dims) >= 1
      BY <1>7
    <3>2. QED
      BY <3>1
  <2>2. idx \in [1..(m + 1) -> Nat]
    BY <1>14, <2>1
  <2>3. idx \in Seq(Nat) /\ Len(idx) = m + 1
    BY ONLY <2>2, m \in Nat
  <2>4. Tail(idx) = [j \in 1..m |-> idx[j + 1]]
    BY <2>3, TailIs
  <2>5. PICK u : u = [j \in 1..m |-> idx[j + 1]]
    OBVIOUS
  <2>6. \A j \in 1..m : j + 1 \in 1..(m + 1)
    OBVIOUS
  <2>7. u \in [1..m -> Nat] /\ u \in Seq(Nat) /\ Len(u) = m /\ \A j \in 1..m : u[j] = idx[j + 1]
    BY <2>2, <2>5, <2>6
  <2>8. PICK z : z = <<i>> \o u
    OBVIOUS
  <2>9. z \in Seq(Nat) /\ Len(z) = m + 1 /\ z[1] = i /\ \A j \in 1..m : z[1 + j] = u[j]
    BY ONLY <2>7, <2>8, m \in Nat, <1>1
  <2>10. old \in [1..(m + 1) -> Nat] /\ old[1] = i /\ \A j \in 1..m : old[j + 1] = idx[j + 1]
    BY ONLY <2>2, <2>6, <1>20, <1>1, m \in Nat
  <2>11. z \in [1..(m + 1) -> Nat]
    BY ONLY <2>9, m \in Nat, SMTT(40)
  <2>12. \A a \in 1..(m + 1) : z[a] = old[a]
    <3>1. ASSUME NEW a \in 1..(m + 1) PROVE z[a] = old[a]
      <4>1. CASE a = 1
        BY <2>9, <2>10, <4>1
      <4>2. CASE a # 1
        <5>1. PICK j \in 1..m : a = j + 1 /\ a = 1 + j
          <6>1. a - 1 \in 1..m /\ a = (a - 1) + 1 /\ a = 1 + (a - 1)
            BY <4>2
          <6>2. QED
            BY <6>1
        <5>2. QED
          BY <2>7, <2>9, <2>10, <5>1
      <4>3. QED
        BY <4>1, <4>2
    <3>2. QED
      BY <3>1
  <2>13. z = old
    BY <2>10, <2>11, <2>12
  <2>14. QED
    BY <2>4, <2>5, <2>8, <2>13
<1>22. Places(d, old, i * Block(d, 1) + Remainder(dims, idx, 1))
  BY <1>1, <1>3, <1>6, <1>10, <1>20, PlacedAt
<1>23. Places(d, <<i>> \o Tail(idx), i * Block(d, 1) + c)
  BY <1>13, <1>19, <1>21, <1>22, Zenon
<1>24. i * b + c \in Nat /\ i * b + c < d[1] * b
  BY ONLY <1>1, <1>3, DigitBelow, b \in Nat
<1>25. Product(d) = d[1] * b
  BY <1>1, <1>2, GatherShapeFacts
<1>26. QED
  BY <1>2, <1>4, <1>5, <1>8, <1>15, <1>19, <1>23, <1>24, <1>25, Zenon

\* The writes of gather: thread t writes column t[2] of row t[1].
RowGathers(src, rowStride, indices, slice) ==
  {<<t[1] * slice + t[2], Read(src, indices[t[1] + 1][1] * rowStride + t[2])>> :
     t \in (0..(Len(indices) - 1)) \X (0..(slice - 1))}

\* gather.
LEMMA GatherCall ==
  ASSUME GInv, Gather
  PROVE  DispatchComputes'
<1>1. IInv /\ Indexes(arg["y"])
  BY DEF GInv
<1>2. PICK dims : /\ dims = y.dims \o Tail(x.dims)
                  /\ Rank(x) > 0 /\ Rank(y) = 1 /\ y.dtype = "U32"
                  /\ \A k \in DOMAIN says["y"] : says["y"][k][1] < x.dims[1]
                  /\ Call("gather", IsContiguous(x) /\ x.dtype \in {"BF16", "U32"} /\ IsContiguous(y),
                       [k \in 1..Product(dims) |->
                          Says("x", <<Says("y", <<Unflatten(dims, k - 1)[1]>>)[1]>>
                                      \o Tail(Unflatten(dims, k - 1)))],
                       DispatchGather(x, y))
  BY DEF Gather, Tabulate
<1>3. PICK w : w = [k \in 1..Product(dims) |->
                      Says("x", <<Says("y", <<Unflatten(dims, k - 1)[1]>>)[1]>>
                                  \o Tail(Unflatten(dims, k - 1)))]
  OBVIOUS
<1>4. PICK got : got = DispatchGather(x, y)
  OBVIOUS
<1>5. PICK accepted : Call("gather", accepted, w, got)
  BY <1>2, <1>3, <1>4, Zenon
<1>6. ASSUME got # Refused PROVE got = w
  <2>1. "x" \in Arg /\ "y" \in Arg
    BY DEF Arg
  <2>2. Holds(arg["x"], says["x"]) /\ x.dims \in Seq(Nat)
    BY <1>1, <2>1, OperandFacts DEF x
  <2>3. Holds(arg["y"], says["y"]) /\ y.dims \in Seq(Nat)
    BY <1>1, <2>1, OperandFacts DEF y
  <2>4. PICK d \in Seq(Nat) : d = x.dims /\ d # <<>>
    BY <1>2, <2>2 DEF Rank
  <2>5. PICK n \in Nat : y.dims = <<n>>
    <3>1. PICK e \in Seq(Nat) : e = y.dims /\ Len(e) = 1
      BY <1>2, <2>3 DEF Rank
    <3>2. e = <<e[1]>> /\ e[1] \in Nat
      BY <3>1
    <3>3. QED
      BY <3>1, <3>2
  <2>24. Product(y.dims) = n
    <3>1. PICK e : e = y.dims
      OBVIOUS
    <3>2. DOMAIN e = 1..1 /\ e[1] = n /\ n \in Int
      BY <2>5, <3>1
    <3>3. Product(e) = n
      BY <3>2, SingleItem
    <3>4. QED
      BY <3>1, <3>3
  <2>6. GatherShape(dims, d, n)
    BY <1>2, <2>4, <2>5, Zenon DEF GatherShape
  <2>7. PICK b \in Nat, r \in Nat : b = Block(d, 1) /\ r = d[1]
    BY <2>6, GatherShapeFacts
  <2>8. Contiguous(d)[1] = b /\ Product(Tail(d)) = b
    BY <2>6, <2>7, GatherShapeFacts
  <2>9. PICK p \in Nat : p = Product(dims) /\ p = n * b
    BY <2>6, <2>7, GatherShapeFacts
  <2>10. ~x.view /\ ~y.view
    BY <1>4, <1>6 DEF DispatchGather, Unless, DenseInput
  <2>11. Flat(arg["x"], says["x"])
    BY <2>2, <2>10, OwnerFlat DEF x
  <2>12. Flat(arg["y"], says["y"])
    BY <2>3, <2>10, OwnerFlat DEF y
  <2>13. y.store = says["y"] /\ Len(y.store) = n
    <3>1. arg["y"].store = says["y"] /\ Len(arg["y"].store) = Product(arg["y"].dims)
      BY <2>3, <2>10, OwnerFlat DEF y
    <3>2. QED
      BY <2>24, <3>1 DEF y
  <2>14. PICK writes : writes = RowGathers(x.store, b, y.store, b)
    OBVIOUS
  <2>15. got = Written(Out(dims), writes)
    <3>1. got = EncodeGather(x.store, b, y.store, Out(dims), b)
      <4>1. PICK e : e = EncodeGather(x.store, Contiguous(x.dims)[1], y.store,
                                      Out(y.dims \o Tail(x.dims)), Product(Tail(x.dims)))
        OBVIOUS
      <4>2. got = Unless({DenseInput(x), DenseInput(y)}, e)
        BY <1>4, <4>1, Zenon DEF DispatchGather
      <4>3. got = e
        BY <1>6, <4>2 DEF Unless
      <4>4. QED
        BY <1>2, <2>4, <2>8, <4>1, <4>3, Zenon
    <3>2. QED
      BY <2>14, <3>1, Zenon DEF EncodeGather, RowGathers
  <2>16. ASSUME NEW q \in Nat, NEW c \in Nat, q < n, c < b
         PROVE  /\ q * b + c \in 0..(p - 1)
                /\ Read(x.store, y.store[q + 1][1] * b + c) = w[q * b + c + 1]
    <3>1. q + 1 \in 1..n
      BY <2>16
    <3>2. PICK i : i = y.store[q + 1][1]
      OBVIOUS
    <3>3. i \in Nat
      <4>1. \A j \in 1..n : arg["y"].store[j][1] \in Nat
        BY <1>1, <1>2, <2>13 DEF Indexes, y
      <4>2. QED
        BY <3>1, <3>2, <4>1 DEF y
    <3>4. i < r
      <4>1. DOMAIN says["y"] = 1..n
        <5>1. says["y"] \in [1..Product(arg["y"].dims) -> Value]
          BY <2>3, Zenon DEF Holds
        <5>2. QED
          BY <2>24, <5>1 DEF y
      <4>2. says["y"][q + 1][1] < x.dims[1]
        BY <1>2, <3>1, <4>1, Zenon
      <4>3. QED
        BY <2>4, <2>7, <2>13, <3>2, <4>2, Zenon
    <3>5. PICK k : k = q * b + c
      OBVIOUS
    <3>6. Gathers(dims, d, n, k, q, c, i)
      BY <2>6, <2>7, <2>16, <3>3, <3>4, <3>5 DEF Gathers
    <3>7. k \in Nat /\ k < p /\ Unflatten(dims, k)[1] = q
      BY <2>9, <3>6, GatheredFrom
    <3>8. PICK old : old = <<i>> \o Tail(Unflatten(dims, k))
      OBVIOUS
    <3>9. PICK at \in Nat : at = i * b + c /\ at < Product(d)
      BY <2>7, <3>6, GatheredFrom, ZenonT(60)
    <3>10. Places(d, old, at)
      BY <2>7, <3>6, <3>8, <3>9, GatheredFrom
    <3>11. Says("y", <<q>>)[1] = i
      <4>1. q + 1 = q + 1 /\ q \in 0..(Len(y.store) - 1)
        BY <2>13, <2>16
      <4>2. Read(arg["y"].store, q) = Says("y", <<q>>)
        BY <1>1, <2>1, <2>5, <2>12, <2>16, OnlyAxis DEF y
      <4>3. Read(y.store, q) = y.store[q + 1]
        BY <4>1, Zenon DEF Read
      <4>4. QED
        BY <3>2, <4>2, <4>3, Zenon DEF y
    <3>12. w[k + 1] = Says("x", old)
      <4>1. k + 1 \in 1..p /\ (k + 1) - 1 = k
        BY <3>7
      <4>2. w[k + 1] = Says("x", <<Says("y", <<Unflatten(dims, (k + 1) - 1)[1]>>)[1]>>
                                   \o Tail(Unflatten(dims, (k + 1) - 1)))
        BY <1>3, <2>9, <4>1, Zenon
      <4>3. QED
        BY <3>7, <3>8, <3>11, <4>1, <4>2, Zenon
    <3>13. Says("x", old) = says["x"][at + 1]
      BY <2>4, <3>10, Zenon DEF Says, At, Dims, x, Places
    <3>14. Read(x.store, at) = says["x"][at + 1]
      BY <2>4, <2>11, <3>9, FlatRead DEF x
    <3>15. Read(x.store, at) = w[k + 1]
      BY <3>12, <3>13, <3>14, Zenon
    <3>16. k \in 0..(p - 1)
      BY <3>7
    <3>17. QED
      BY <3>2, <3>5, <3>9, <3>15, <3>16, Zenon
  <2>17. Agree(writes, p, w)
    <3>1. ASSUME NEW pair \in writes
          PROVE  pair[1] \in 0..(p - 1) /\ pair[2] = w[pair[1] + 1]
      <4>1. PICK t \in (0..(n - 1)) \X (0..(b - 1)) :
              pair = <<t[1] * b + t[2], Read(x.store, y.store[t[1] + 1][1] * b + t[2])>>
        BY <2>13, <2>14 DEF RowGathers
      <4>2. t[1] \in 0..(n - 1) /\ t[2] \in 0..(b - 1)
        OBVIOUS
      <4>3. PICK q \in Nat, c \in Nat : q = t[1] /\ c = t[2] /\ q < n /\ c < b
        BY <4>2
      <4>4. pair = <<q * b + c, Read(x.store, y.store[q + 1][1] * b + c)>>
        BY <4>1, <4>3
      <4>5. PICK u, v : u = q * b + c /\ v = Read(x.store, y.store[q + 1][1] * b + c)
        OBVIOUS
      <4>6. pair[1] = u /\ pair[2] = v
        BY <4>4, <4>5
      <4>7. u \in 0..(p - 1) /\ v = w[u + 1]
        BY <2>16, <4>3, <4>5, Zenon
      <4>8. QED
        BY <4>6, <4>7, Zenon
    <3>2. QED
      BY <3>1 DEF Agree
  <2>18. ASSUME NEW k \in 0..(p - 1) PROVE \E pair \in writes : pair[1] = k
    <3>1. k \in Nat /\ k < n * b
      BY <2>9, <2>18
    <3>2. b > 0
      <4>1. b # 0
        <5>1. ASSUME b = 0 PROVE FALSE
          <6>1. n * b = 0
            BY <5>1
          <6>2. QED
            BY <3>1, <6>1
        <5>2. QED
          BY <5>1
      <4>2. QED
        BY <4>1
    <3>3. PICK q \in Nat, c \in Nat : k = q * b + c /\ c < b
      <4>1. k \div b \in Nat /\ k % b \in Nat /\ k % b < b /\ k = (k \div b) * b + (k % b)
        BY ONLY <3>1, <3>2, DivMod, b \in Nat
      <4>2. QED
        BY <4>1
    <3>4. q < n
      <4>1. ASSUME ~(q < n) PROVE FALSE
        <5>1. PICK z \in Nat : q = n + z
          <6>1. q - n \in Nat /\ q = n + (q - n)
            BY <4>1
          <6>2. QED
            BY <6>1
        <5>2. q * b = n * b + z * b /\ z * b \in Nat /\ n * b \in Nat
          BY <5>1
        <5>3. QED
          BY <3>1, <3>3, <5>2
      <4>2. QED
        BY <4>1
    <3>5. PICK t : t = <<q, c>>
      OBVIOUS
    <3>6. q \in 0..(n - 1) /\ c \in 0..(b - 1)
      BY <3>3, <3>4
    <3>7. t \in (0..(n - 1)) \X (0..(b - 1)) /\ t[1] = q /\ t[2] = c
      BY <3>5, <3>6
    <3>8. PICK v : v = Read(x.store, y.store[q + 1][1] * b + c)
      OBVIOUS
    <3>9. <<q * b + c, v>> \in writes
      BY <2>13, <2>14, <3>7, <3>8 DEF RowGathers
    <3>10. <<q * b + c, v>>[1] = q * b + c
      OBVIOUS
    <3>11. QED
      BY <3>3, <3>9, <3>10, Zenon
  <2>19. PICK S : S = Value \cup {w[i] : i \in 1..p}
    OBVIOUS
  <2>20. PICK buf : buf = Out(dims)
    OBVIOUS
  <2>21. buf \in [1..p -> S] /\ w \in [1..p -> S]
    <3>1. dims \in Seq(Nat)
      BY <2>6, GatherShapeFacts DEF LeadingOnes
    <3>2. buf \in [1..p -> Value]
      BY <2>9, <2>20, <3>1, OutFacts
    <3>3. w = [i \in 1..p |-> w[i]]
      BY <1>3, <2>9
    <3>4. QED
      BY <2>19, <3>2, <3>3
  <2>22. Written(buf, writes) = w
    <3>1. Merge(buf, w, writes, p, S)
      BY <2>17, <2>21 DEF Merge
    <3>2. ASSUME NEW i \in 1..p PROVE Hit(writes, i)
      <4>1. i - 1 \in 0..(p - 1)
        OBVIOUS
      <4>2. QED
        BY <2>18, <4>1 DEF Hit
    <3>3. QED
      BY <3>1, <3>2, WrittenOver
  <2>23. QED
    BY <2>15, <2>20, <2>22
<1>7. QED
  BY <1>5, <1>6, CallComputes

----------------------------------------------------------------------------
\* Attention: four axes (batch, head, position, number), the last one unit
\* stride, read where the kernels compute the address from the strides.

\* A sum of four terms.
LEMMA TotalFour ==
  ASSUME NEW s \in [1..4 -> Int]
  PROVE  Total(s) = s[1] + s[2] + s[3] + s[4]
<1>1. PICK s3 : s3 = [i \in 1..3 |-> s[i]]
  OBVIOUS
<1>2. PICK s2 : s2 = [i \in 1..2 |-> s[i]]
  OBVIOUS
<1>3. PICK s1 : s1 = [i \in 1..1 |-> s[i]]
  OBVIOUS
<1>4. Total(s) = Total(s3) + s[4]
  <2>1. DOMAIN s = 1..(3 + 1) /\ DOMAIN s3 = 1..3 /\ \A i \in 1..3 : s3[i] = s[i]
    BY <1>1
  <2>2. Total(s) = Total(s3) + s[3 + 1]
    BY ONLY <2>1, TotalStep
  <2>3. QED
    BY <2>2
<1>5. Total(s3) = Total(s2) + s[3]
  <2>1. DOMAIN s3 = 1..(2 + 1) /\ DOMAIN s2 = 1..2 /\ \A i \in 1..2 : s2[i] = s3[i]
    BY <1>1, <1>2
  <2>2. Total(s3) = Total(s2) + s3[2 + 1]
    BY ONLY <2>1, TotalStep
  <2>3. QED
    BY <1>1, <2>2
<1>6. Total(s2) = Total(s1) + s[2]
  <2>1. DOMAIN s2 = 1..(1 + 1) /\ DOMAIN s1 = 1..1 /\ \A i \in 1..1 : s1[i] = s2[i]
    BY <1>2, <1>3
  <2>2. Total(s2) = Total(s1) + s2[1 + 1]
    BY ONLY <2>1, TotalStep
  <2>3. QED
    BY <1>2, <2>2
<1>7. Total(s1) = s[1]
  <2>1. DOMAIN s1 = 1..1 /\ s1[1] = s[1] /\ s[1] \in Int
    BY <1>3
  <2>2. QED
    BY <2>1, SingleItem
<1>8. QED
  BY <1>4, <1>5, <1>6, <1>7

\* What every kernel of four axes asks of its strided operand.
FourAxes(t) == t.off = 0 /\ Len(t.dims) = 4 /\ t.strides[4] = 1

\* The element of a four-axis operand is where the strides of its first three
\* axes and its last index say.
LEMMA FourRead ==
  ASSUME NEW t, NEW v, Holds(t, v), FourAxes(t), NEW idx \in Indices(t.dims)
  PROVE  /\ t.strides[1] \in Nat /\ t.strides[2] \in Nat /\ t.strides[3] \in Nat
         /\ idx[1] \in Nat /\ idx[2] \in Nat /\ idx[3] \in Nat /\ idx[4] \in Nat
         /\ Read(t.store, idx[1] * t.strides[1] + idx[2] * t.strides[2] + idx[3] * t.strides[3] + idx[4])
              = ValueAt(v, t.dims, idx)
<1>1. PICK s : s = t.strides
  OBVIOUS
<1>2. s \in [1..4 -> Nat] /\ s[4] = 1 /\ t.off = 0
  BY <1>1 DEF Holds, WellFormed, FourAxes
<1>3. idx \in [1..4 -> Nat]
  BY DEF Indices, FourAxes
<1>4. PICK a1 \in Nat, a2 \in Nat, a3 \in Nat, a4 \in Nat : idx[1] = a1 /\ idx[2] = a2 /\ idx[3] = a3 /\ idx[4] = a4
  BY <1>3
<1>5. PICK b1 \in Nat, b2 \in Nat, b3 \in Nat : s[1] = b1 /\ s[2] = b2 /\ s[3] = b3
  BY <1>2
<1>6. PICK p1 \in Nat, p2 \in Nat, p3 \in Nat : p1 = a1 * b1 /\ p2 = a2 * b2 /\ p3 = a3 * b3
  OBVIOUS
<1>7. PICK r : r = [a \in 1..4 |-> idx[a] * s[a]]
  OBVIOUS
<1>8. r[1] = p1 /\ r[2] = p2 /\ r[3] = p3 /\ r[4] = a4 /\ r \in [1..4 -> Int]
  <2>1. r[1] = p1 /\ r[2] = p2 /\ r[3] = p3
    BY <1>4, <1>5, <1>6, <1>7
  <2>2. r[4] = a4
    BY <1>2, <1>4, <1>7
  <2>3. \A a \in 1..4 : a = 1 \/ a = 2 \/ a = 3 \/ a = 4
    OBVIOUS
  <2>4. \A a \in 1..4 : r[a] \in Int
    BY <2>1, <2>2, <2>3
  <2>5. QED
    BY <1>7, <2>1, <2>2, <2>4
<1>9. Along(s, idx) = p1 + p2 + p3 + a4
  <2>1. Along(s, idx) = Total(r)
    BY <1>3, <1>7 DEF Along
  <2>2. Total(r) = r[1] + r[2] + r[3] + r[4]
    BY <1>8, TotalFour
  <2>3. QED
    BY <1>8, <2>1, <2>2
<1>10. Read(t.store, t.off + Along(t.strides, idx)) = ValueAt(v, t.dims, idx)
  BY StridedRead
<1>11. t.off + Along(t.strides, idx) = p1 + p2 + p3 + a4
  BY <1>1, <1>2, <1>9
<1>12. idx[1] * t.strides[1] + idx[2] * t.strides[2] + idx[3] * t.strides[3] + idx[4] = p1 + p2 + p3 + a4
  BY <1>1, <1>4, <1>5, <1>6
<1>13. QED
  BY <1>1, <1>4, <1>5, <1>10, <1>11, <1>12, Zenon

\* The row of an operand, as a program that ignores storage finds it.
LEMMA LastRowOf ==
  ASSUME IInv, NEW a \in Arg, NEW idx, NEW n, Len(idx) = n
  PROVE  LastRow(a, idx) = RowOf(says[a], arg[a].dims, idx, n)
<1>1. \A i : Says(a, i) = ValueAt(says[a], arg[a].dims, i)
  BY OperandFacts
<1>2. LastRow(a, idx) = InTurn([j \in 1..Dims(a)[n] |-> Says(a, [idx EXCEPT ![n] = j - 1])])
  BY DEF LastRow
<1>3. [j \in 1..Dims(a)[n] |-> Says(a, [idx EXCEPT ![n] = j - 1])]
        = [j \in 1..Dims(a)[n] |-> ValueAt(says[a], arg[a].dims, [idx EXCEPT ![n] = j - 1])]
  BY <1>1, Zenon
<1>4. QED
  BY <1>2, <1>3, Zenon DEF RowOf, Dims

\* idx names a vector of a shape of four axes: its last index is free.
Vector(idx, dims) ==
  /\ dims \in Seq(Nat) /\ Len(dims) = 4 /\ idx \in [1..4 -> Nat] /\ Len(idx) = 4
  /\ idx[1] < dims[1] /\ idx[2] < dims[2] /\ idx[3] < dims[3]

\* w is the index of number j of that vector.
NumberOf(w, idx, j, dims) == Vector(idx, dims) /\ j \in Nat /\ j < dims[4] /\ w = [idx EXCEPT ![4] = j]

\* Any number of a vector has an index.
LEMMA VectorFacts ==
  ASSUME NEW w, NEW idx, NEW j, NEW dims, NumberOf(w, idx, j, dims)
  PROVE  /\ w \in Indices(dims)
         /\ w[1] = idx[1] /\ w[2] = idx[2] /\ w[3] = idx[3] /\ w[4] = j
<1>1. /\ dims \in Seq(Nat) /\ Len(dims) = 4 /\ idx \in [1..4 -> Nat]
      /\ idx[1] < dims[1] /\ idx[2] < dims[2] /\ idx[3] < dims[3]
      /\ j \in Nat /\ j < dims[4] /\ w = [idx EXCEPT ![4] = j]
  BY DEF Vector, NumberOf
<1>2. w \in [1..4 -> Nat] /\ w[1] = idx[1] /\ w[2] = idx[2] /\ w[3] = idx[3] /\ w[4] = j
  BY <1>1, SMTT(40)
<1>3. \A a \in 1..4 : a = 1 \/ a = 2 \/ a = 3 \/ a = 4
  OBVIOUS
<1>4. \A a \in 1..4 : w[a] < dims[a]
  BY <1>1, <1>2, <1>3
<1>5. w \in Indices(dims)
  BY <1>1, <1>2, <1>4 DEF Indices
<1>6. QED
  BY <1>2, <1>5, Zenon

\* Where the vector starts in the storage of t.
VectorStart(t, idx) == idx[1] * t.strides[1] + idx[2] * t.strides[2] + idx[3] * t.strides[3]

\* The number j of a vector.
LEMMA VectorRead ==
  ASSUME NEW t, NEW v, Holds(t, v), FourAxes(t), NEW idx, Vector(idx, t.dims),
         NEW j \in Nat, j < t.dims[4]
  PROVE  /\ VectorStart(t, idx) \in Nat
         /\ Read(t.store, VectorStart(t, idx) + j) = ValueAt(v, t.dims, [idx EXCEPT ![4] = j])
<1>1. PICK w : w = [idx EXCEPT ![4] = j]
  OBVIOUS
<1>2. w \in Indices(t.dims) /\ w[1] = idx[1] /\ w[2] = idx[2] /\ w[3] = idx[3] /\ w[4] = j
  <2>1. NumberOf(w, idx, j, t.dims)
    BY <1>1, Zenon DEF NumberOf
  <2>2. QED
    BY <2>1, VectorFacts
<1>3. /\ t.strides[1] \in Nat /\ t.strides[2] \in Nat /\ t.strides[3] \in Nat
      /\ w[1] \in Nat /\ w[2] \in Nat /\ w[3] \in Nat
  BY <1>2, FourRead
<1>4. VectorStart(t, idx) \in Nat
  BY <1>2, <1>3 DEF VectorStart
<1>5. Read(t.store, w[1] * t.strides[1] + w[2] * t.strides[2] + w[3] * t.strides[3] + w[4])
        = ValueAt(v, t.dims, w)
  BY <1>2, FourRead
<1>6. QED
  BY <1>1, <1>2, <1>4, <1>5, Zenon DEF VectorStart

\* A whole vector.
LEMMA VectorRow ==
  ASSUME IInv, NEW a \in Arg, FourAxes(arg[a]), NEW idx, Vector(idx, arg[a].dims)
  PROVE  LastRow(a, idx) = Row(arg[a].store, VectorStart(arg[a], idx), arg[a].dims[4])
<1>1. PICK t, v : t = arg[a] /\ v = says[a]
  OBVIOUS
<1>2. Holds(t, v) /\ FourAxes(t) /\ Vector(idx, t.dims)
  BY <1>1, OperandFacts
<1>3. PICK d \in Nat : d = t.dims[4]
  BY <1>2 DEF Vector
<1>4. LastRow(a, idx) = RowOf(v, t.dims, idx, 4)
  <2>1. Len(idx) = 4
    BY DEF Vector
  <2>2. QED
    BY <1>1, <2>1, LastRowOf
<1>5. ASSUME NEW j \in 1..d
      PROVE  Read(t.store, VectorStart(t, idx) + j - 1) = ValueAt(v, t.dims, [idx EXCEPT ![4] = j - 1])
  <2>1. PICK i \in Nat : i = j - 1 /\ i < d
    BY ONLY d \in Nat, j \in 1..d
  <2>2. VectorStart(t, idx) \in Nat
    BY <1>2, <1>3, <2>1, VectorRead
  <2>3. Read(t.store, VectorStart(t, idx) + i) = ValueAt(v, t.dims, [idx EXCEPT ![4] = i])
    BY <1>2, <1>3, <2>1, VectorRead
  <2>4. VectorStart(t, idx) + j - 1 = VectorStart(t, idx) + i
    BY ONLY <2>1, <2>2, j \in 1..d, d \in Nat
  <2>5. QED
    BY <2>1, <2>3, <2>4, Zenon
<1>6. [j \in 1..d |-> Read(t.store, VectorStart(t, idx) + j - 1)]
        = [j \in 1..d |-> ValueAt(v, t.dims, [idx EXCEPT ![4] = j - 1])]
  BY <1>5, Zenon
<1>7. QED
  BY <1>1, <1>3, <1>4, <1>6, Zenon DEF Row, RowOf

\* The shape of one batch entry: h heads of l positions of d numbers.
HeadsOf(dims, h, l, d) ==
  /\ dims \in Seq(Nat) /\ Len(dims) = 4
  /\ dims[1] = 1 /\ dims[2] = h /\ dims[3] = l /\ dims[4] = d

\* Its blocks.
LEMMA HeadsBlocks ==
  ASSUME NEW dims, NEW h, NEW l, NEW d, HeadsOf(dims, h, l, d)
  PROVE  /\ h \in Nat /\ l \in Nat /\ d \in Nat
         /\ Block(dims, 4) = 1 /\ Block(dims, 3) = d /\ Block(dims, 2) = l * d
         /\ Block(dims, 1) = h * (l * d) /\ Product(dims) = h * (l * d)
<1>1. dims \in Seq(Nat) /\ Len(dims) = 4 /\ dims[1] = 1 /\ dims[2] = h /\ dims[3] = l /\ dims[4] = d
  BY DEF HeadsOf
<1>2. h \in Nat /\ l \in Nat /\ d \in Nat
  <2>1. PICK e \in Seq(Nat) : e = dims
    BY <1>1
  <2>2. /\ Len(e) = 4
        /\ \A a \in 1..Len(e) : e[a] \in Nat
    <3>1. Len(e) = 4
      BY <1>1, <2>1, Zenon
    <3>2. \A a \in 1..Len(e) : e[a] \in Nat
      BY ONLY e \in Seq(Nat)
    <3>3. QED
      BY <3>1, <3>2
  <2>3. dims[2] \in Nat /\ dims[3] \in Nat /\ dims[4] \in Nat
    BY <2>1, <2>2
  <2>4. QED
    BY <1>1, <2>3, Zenon
<1>3. \A a \in 1..4 : Block(dims, a - 1) = dims[a] * Block(dims, a)
  BY <1>1, BlockFacts
<1>4. Block(dims, 4) = 1
  BY <1>1, BlockFacts
<1>5. Block(dims, 0) = Product(dims)
  BY <1>1, BlockFacts
<1>6. Block(dims, 3) = d
  <2>1. Block(dims, 4 - 1) = dims[4] * Block(dims, 4)
    BY <1>3
  <2>2. QED
    BY <1>1, <1>2, <1>4, <2>1
<1>7. Block(dims, 2) = l * d
  <2>1. Block(dims, 3 - 1) = dims[3] * Block(dims, 3)
    BY <1>3
  <2>2. QED
    BY <1>1, <1>6, <2>1
<1>8. Block(dims, 1) = h * (l * d)
  <2>1. Block(dims, 2 - 1) = dims[2] * Block(dims, 2)
    BY <1>3
  <2>2. QED
    BY <1>1, <1>7, <2>1
<1>9. Product(dims) = h * (l * d)
  <2>1. PICK b \in Nat : b = h * (l * d)
    BY <1>2
  <2>2. Block(dims, 1 - 1) = dims[1] * Block(dims, 1)
    BY <1>3
  <2>3. QED
    BY <1>1, <1>5, <1>8, <2>1, <2>2
<1>10. QED
  BY <1>2, <1>4, <1>6, <1>7, <1>8, <1>9

\* The multi-index of position k, by division.
LEMMA HeadsIndex ==
  ASSUME NEW dims, NEW h, NEW l, NEW d, HeadsOf(dims, h, l, d), NEW k, Within(k, dims),
         NEW idx, idx = Unflatten(dims, k)
  PROVE  /\ h > 0 /\ l > 0 /\ d > 0 /\ k \in Nat /\ k < h * (l * d)
         /\ Vector(idx, dims) /\ idx \in Indices(dims)
         /\ idx[1] = 0 /\ idx[2] = k \div (l * d) /\ idx[3] = (k \div d) % l /\ idx[4] = k % d
         /\ idx[2] < h /\ idx[3] < l /\ idx[4] < d
<1>1. dims \in Seq(Nat) /\ Len(dims) = 4 /\ dims[1] = 1 /\ dims[2] = h /\ dims[3] = l /\ dims[4] = d
  BY DEF HeadsOf
<1>2. /\ h \in Nat /\ l \in Nat /\ d \in Nat
      /\ Block(dims, 4) = 1 /\ Block(dims, 3) = d /\ Block(dims, 2) = l * d
      /\ Product(dims) = h * (l * d)
  BY HeadsBlocks
<1>3. k \in Nat /\ k < Product(dims)
  BY DEF Within
<1>4. k \in 0..(Product(dims) - 1) /\ Product(dims) \in Nat
  BY <1>2, <1>3
<1>5. idx \in Indices(dims) /\ \A a \in 1..4 : idx[a] = (k \div Block(dims, a)) % dims[a]
  BY <1>1, <1>4, UnflattenType
<1>6. idx \in [1..4 -> Nat] /\ \A a \in 1..4 : idx[a] < dims[a]
  BY <1>1, <1>5 DEF Indices
<1>7. idx[1] < 1 /\ idx[2] < h /\ idx[3] < l /\ idx[4] < d
  BY <1>1, <1>6
<1>8. idx[1] = 0 /\ h > 0 /\ l > 0 /\ d > 0
  BY <1>2, <1>6, <1>7
<1>9. PICK b \in Nat : b = l * d /\ b > 0
  BY <1>2, <1>8
<1>10. idx[4] = k % d
  <2>1. idx[4] = (k \div 1) % d
    BY <1>1, <1>2, <1>5
  <2>2. QED
    BY <1>3, <2>1
<1>11. idx[3] = (k \div d) % l
  BY <1>1, <1>2, <1>5
<1>12. idx[2] = k \div b
  <2>1. idx[2] = (k \div b) % h
    BY <1>1, <1>2, <1>5, <1>9
  <2>2. PICK q \in Nat, r \in Nat : q = k \div b /\ r < b /\ k = q * b + r
    <3>1. k \in Nat /\ b > 0
      BY <1>3, <1>9, Zenon
    <3>2. k \div b \in Nat /\ k % b \in Nat
      BY ONLY <3>1, b \in Nat, DivMod
    <3>3. k % b < b /\ k = (k \div b) * b + (k % b)
      BY ONLY <3>1, b \in Nat, DivMod
    <3>4. QED
      BY <3>2, <3>3, Zenon
  <2>3. q < h
    <3>1. SUFFICES ASSUME ~(q < h) PROVE FALSE
      OBVIOUS
    <3>2. PICK z \in Nat : q = h + z
      BY <1>2, <3>1
    <3>3. q * b = h * b + z * b
      BY ONLY <3>2, <1>2, z \in Nat, b \in Nat
    <3>4. PICK hb \in Nat, zb \in Nat : hb = h * b /\ zb = z * b
      BY <1>2
    <3>5. k < hb
      BY <1>2, <1>3, <1>9, <3>4
    <3>6. k = hb + zb + r
      BY <2>2, <3>3, <3>4
    <3>7. QED
      BY <3>5, <3>6
  <2>4. QED
    BY <1>2, <2>1, <2>2, <2>3
<1>13. Len(idx) = 4
  BY <1>6, LenIs
<1>14. Vector(idx, dims)
  BY <1>1, <1>6, <1>13 DEF Vector
<1>15. k < h * (l * d)
  BY <1>2, <1>3
<1>16. idx[2] = k \div (l * d)
  BY <1>9, <1>12, Zenon
<1>17. QED
  BY <1>3, <1>5, <1>7, <1>8, <1>10, <1>11, <1>14, <1>15, <1>16

\* A head of queries asks one of the heads of keys.
LEMMA SharedHead ==
  ASSUME NEW h \in Nat, NEW kv \in Nat, NEW g \in Nat, g > 0, NEW i \in Nat, i < h, h = kv * g
  PROVE  /\ i \div g \in Nat /\ i \div g < kv
         /\ kv # 0 /\ h \div kv = g
<1>1. PICK q \in Nat, r \in Nat : q = i \div g /\ r < g /\ i = q * g + r
  BY DivMod
<1>2. q < kv
  <2>1. SUFFICES ASSUME ~(q < kv) PROVE FALSE
    OBVIOUS
  <2>2. PICK z \in Nat : q = kv + z
    BY <2>1
  <2>3. q * g = kv * g + z * g
    BY ONLY <2>2, kv \in Nat, z \in Nat, g \in Nat
  <2>4. PICK zg \in Nat : zg = z * g
    OBVIOUS
  <2>5. QED
    BY <1>1, <2>3, <2>4
<1>3. kv # 0
  BY <1>2
<1>4. h \div kv = g
  <2>1. h = g * kv + 0 /\ 0 < kv
    BY <1>3
  <2>2. QED
    BY <2>1, DivUnique
<1>5. QED
  BY <1>1, <1>2, <1>3, <1>4

\* Key m of head g, and number j of its value.
KeyAt(idx, g, m, j, kv, l, d) ==
  /\ HeadsOf(arg["y"].dims, kv, l, d) /\ FourAxes(arg["y"])
  /\ g \in Nat /\ g < kv /\ m \in Nat /\ m < l /\ j \in Nat /\ j < d
  /\ idx = <<0, g, m, 0>>

\* The kernels read the keys from y and the values from its twin, at the same
\* distances: they find what the two operands say there.
LEMMA KeyRead ==
  ASSUME IInv, NEW idx, NEW g, NEW m, NEW j, NEW kv, NEW l, NEW d, KeyAt(idx, g, m, j, kv, l, d),
         NEW at, at = g * y.strides[2] + m * y.strides[3]
  PROVE  /\ Row(y.store, at, d) = LastRow("y", idx)
         /\ Read(Third(y).store, at + j) = Plus50(Says("y", [idx EXCEPT ![4] = j]))
<1>1. /\ HeadsOf(arg["y"].dims, kv, l, d) /\ FourAxes(arg["y"])
      /\ g \in Nat /\ g < kv /\ m \in Nat /\ m < l /\ j \in Nat /\ j < d
      /\ idx = <<0, g, m, 0>>
  BY DEF KeyAt
<1>2. PICK t, v : t = arg["y"] /\ v = says["y"] /\ y = t
  BY DEF y
<1>3. Holds(t, v) /\ "y" \in Arg /\ \A i : Says("y", i) = ValueAt(v, t.dims, i)
  <2>1. "y" \in Arg
    BY DEF Arg
  <2>2. QED
    BY <1>2, <2>1, OperandFacts
<1>4. /\ t.dims \in Seq(Nat) /\ Len(t.dims) = 4
      /\ t.dims[1] = 1 /\ t.dims[2] = kv /\ t.dims[3] = l /\ t.dims[4] = d
  BY <1>1, <1>2, Zenon DEF HeadsOf
<1>5. /\ idx \in [1..4 -> Nat] /\ Len(idx) = 4
      /\ idx[1] = 0 /\ idx[2] = g /\ idx[3] = m
  BY <1>1
<1>6. Vector(idx, t.dims)
  <2>1. idx[1] < t.dims[1]
    BY <1>4, <1>5
  <2>2. idx[2] < t.dims[2] /\ idx[3] < t.dims[3]
    BY <1>1, <1>4, <1>5, Zenon
  <2>3. QED
    BY <1>4, <1>5, <2>1, <2>2, Zenon DEF Vector
<1>7. FourAxes(t)
  BY <1>1, <1>2, Zenon
<1>8. VectorStart(t, idx) = at
  <2>1. PICK w : w = [idx EXCEPT ![4] = j]
    OBVIOUS
  <2>2. NumberOf(w, idx, j, t.dims)
    BY <1>1, <1>4, <1>6, <2>1, Zenon DEF NumberOf
  <2>3. w \in Indices(t.dims)
    BY <2>2, VectorFacts
  <2>4. t.strides[1] \in Nat /\ t.strides[2] \in Nat /\ t.strides[3] \in Nat
    BY <1>3, <1>7, <2>3, FourRead
  <2>5. PICK s1 \in Nat, s2 \in Nat, s3 \in Nat : s1 = t.strides[1] /\ s2 = t.strides[2] /\ s3 = t.strides[3]
    BY <2>4
  <2>6. VectorStart(t, idx) = 0 * s1 + g * s2 + m * s3
    BY <1>5, <2>5, Zenon DEF VectorStart
  <2>7. at = g * s2 + m * s3
    BY <1>2, <2>5, Zenon
  <2>8. PICK p2 \in Nat, p3 \in Nat : p2 = g * s2 /\ p3 = m * s3
    BY <1>1
  <2>9. QED
    BY <2>6, <2>7, <2>8
<1>9. Row(y.store, at, d) = LastRow("y", idx)
  <2>1. LastRow("y", idx) = Row(arg["y"].store, VectorStart(arg["y"], idx), arg["y"].dims[4])
    <3>1. FourAxes(arg["y"]) /\ Vector(idx, arg["y"].dims)
      BY <1>1, <1>2, <1>6, Zenon
    <3>2. QED
      BY <1>3, <3>1, VectorRow
  <2>2. QED
    BY <1>2, <1>4, <1>8, <2>1, Zenon
<1>10. PICK c : c = [k \in 1..Product(t.dims) |-> Plus50(v[k])]
  OBVIOUS
<1>11. PICK twin : twin = Third(t)
  OBVIOUS
<1>12. /\ Holds(twin, c) /\ twin.dims = t.dims /\ twin.strides = t.strides /\ twin.off = t.off
  <2>1. Above(c, v, Product(t.dims))
    BY <1>10, Zenon DEF Above
  <2>2. QED
    BY <1>3, <1>11, <2>1, TwinHolds
<1>13. Read(twin.store, VectorStart(twin, idx) + j) = ValueAt(c, twin.dims, [idx EXCEPT ![4] = j])
  <2>1. FourAxes(twin)
    BY <1>7, <1>12, Zenon DEF FourAxes
  <2>2. Vector(idx, twin.dims) /\ j < twin.dims[4] /\ j \in Nat
    BY <1>1, <1>4, <1>6, <1>12, Zenon
  <2>3. QED
    BY <1>12, <2>1, <2>2, VectorRead
<1>14. PICK w : w = [idx EXCEPT ![4] = j]
  OBVIOUS
<1>15. ValueAt(c, t.dims, w) = Plus50(ValueAt(v, t.dims, w))
  <2>1. NumberOf(w, idx, j, t.dims)
    BY <1>1, <1>4, <1>6, <1>14, Zenon DEF NumberOf
  <2>2. w \in Indices(t.dims)
    BY <2>1, VectorFacts
  <2>3. PICK f \in Nat : f = Flatten(t.dims, w) /\ f < Product(t.dims)
    BY <1>4, <2>2, FlattenBelow
  <2>4. Product(t.dims) \in Nat
    BY <1>4, BlockFacts
  <2>5. f + 1 \in 1..Product(t.dims)
    BY <2>3, <2>4
  <2>6. c[f + 1] = Plus50(v[f + 1])
    BY <1>10, <2>5, Zenon
  <2>7. QED
    BY <2>3, <2>6, Zenon DEF ValueAt
<1>16. VectorStart(twin, idx) = at
  BY <1>8, <1>12, Zenon DEF VectorStart
<1>17. Read(Third(y).store, at + j) = Plus50(Says("y", w))
  BY <1>2, <1>3, <1>11, <1>12, <1>13, <1>14, <1>15, <1>16, Zenon
<1>18. QED
  BY <1>9, <1>14, <1>17, Zenon

\* What the operands say of the seen keys of head g, and what a kernel reads.
KeysSaid(g, j, seen) ==
  InTurn([n \in 1..seen |-> LastRow("y", <<0, g, n - 1, 0>>)
                              \o Plus50(Says("y", [<<0, g, n - 1, 0>> EXCEPT ![4] = j]))])
KeysRead(g, j, seen, d) ==
  InTurn([n \in 1..seen |-> Row(y.store, g * y.strides[2] + (n - 1) * y.strides[3], d)
                              \o Read(Third(y).store, g * y.strides[2] + (n - 1) * y.strides[3] + j)])
KeysAt(g, j, seen, kv, l, d) ==
  /\ HeadsOf(arg["y"].dims, kv, l, d) /\ FourAxes(arg["y"])
  /\ g \in Nat /\ g < kv /\ j \in Nat /\ j < d /\ l \in Nat /\ seen \in Int /\ seen <= l

\* They are the same.
LEMMA KeysAgree ==
  ASSUME IInv, NEW g, NEW j, NEW seen, NEW kv, NEW l, NEW d, KeysAt(g, j, seen, kv, l, d)
  PROVE  KeysRead(g, j, seen, d) = KeysSaid(g, j, seen)
<1>1. /\ HeadsOf(arg["y"].dims, kv, l, d) /\ FourAxes(arg["y"])
      /\ g \in Nat /\ g < kv /\ j \in Nat /\ j < d /\ l \in Nat /\ seen \in Int /\ seen <= l
  BY DEF KeysAt
<1>2. ASSUME NEW n \in 1..seen
      PROVE  Row(y.store, g * y.strides[2] + (n - 1) * y.strides[3], d)
               \o Read(Third(y).store, g * y.strides[2] + (n - 1) * y.strides[3] + j)
             = LastRow("y", <<0, g, n - 1, 0>>)
                 \o Plus50(Says("y", [<<0, g, n - 1, 0>> EXCEPT ![4] = j]))
  <2>0. l \in Nat /\ seen \in Int /\ seen <= l
    BY <1>1
  <2>1. PICK m \in Nat : m = n - 1 /\ m < l
    BY ONLY <2>0, n \in 1..seen
  <2>2. PICK idx : idx = <<0, g, m, 0>>
    OBVIOUS
  <2>3. KeyAt(idx, g, m, j, kv, l, d)
    BY <1>1, <2>1, <2>2, Zenon DEF KeyAt
  <2>4. PICK at : at = g * y.strides[2] + m * y.strides[3]
    OBVIOUS
  <2>5. /\ Row(y.store, at, d) = LastRow("y", idx)
        /\ Read(Third(y).store, at + j) = Plus50(Says("y", [idx EXCEPT ![4] = j]))
    BY <2>3, <2>4, KeyRead
  <2>6. QED
    BY <2>1, <2>2, <2>4, <2>5, Zenon
<1>3. QED
  BY <1>2, Zenon DEF KeysRead, KeysSaid

\* A view at offset 0 whose only stretched strides are those of axes of size 1
\* holds its values in row-major order.
LEMMA ReadsDense ==
  ASSUME NEW t, NEW v, Holds(t, v), t.off = 0, IsContiguousIgnoringUnits(t)
  PROVE  \E f : Flat(f, v) /\ f.store = t.store /\ f.dims = t.dims
<1>1. CASE IsContiguous(t)
  BY <1>1, Zenon DEF Flat, IsContiguous
<1>2. CASE ~IsContiguous(t)
  <2>1. t.view
    <3>1. t.view \in BOOLEAN
      BY DEF Holds, WellFormed
    <3>2. QED
      BY <1>2, <3>1, Zenon DEF Holds, DenseUnlessView, IsContiguous
  <2>2. CopyElides(t)
    BY <1>2, <2>1, Zenon DEF CopyElides
  <2>3. PICK f : f = Elided(t)
    OBVIOUS
  <2>4. Holds(f, v)
    BY <2>2, <2>3, ElidedHolds
  <2>5. PICK c : c = Contiguous(t.dims)
    OBVIOUS
  <2>6. f = Strided(t.dims, c, 0, TRUE, t.dtype, FALSE, t.store)
    <3>1. WellFormed(t)
      BY DEF Holds
    <3>2. QED
      BY <2>3, <2>5, <3>1, ViewFields DEF Elided
  <2>7. f.dims = t.dims /\ f.strides = c /\ f.off = 0 /\ f.store = t.store
    BY <2>6 DEF Strided
  <2>8. Flat(f, v)
    BY <2>4, <2>5, <2>7, Zenon DEF Flat
  <2>9. QED
    BY <2>7, <2>8
<1>3. QED
  BY <1>1, <1>2

\* How many keys the query of index i sees, and what it is to attend to them.
SeenBy(i, causal) ==
  IF causal /\ x.dims[3] > 1 THEN i[3] + (y.dims[3] - x.dims[3]) + 1 ELSE y.dims[3]
AttendedBy(i, gqa, causal) == LastRow("x", i) \o KeysSaid(i[2] \div gqa, i[4], SeenBy(i, causal))

\* The shapes sdpa accepts.
Attention(h, l, d, kv, n, gqa) ==
  /\ HeadsOf(x.dims, h, l, d) /\ HeadsOf(y.dims, kv, n, d)
  /\ gqa \in Nat /\ gqa > 0 /\ l > 0 /\ h = kv * gqa

\* The builder accepts no others.
LEMMA AttentionShapes ==
  ASSUME IInv, NEW gqa \in 1..2, SdpaAccepts(x, y, gqa)
  PROVE  Attention(x.dims[2], x.dims[3], x.dims[4], y.dims[2], y.dims[3], gqa)
<1>1. x.dims \in Seq(Nat) /\ y.dims \in Seq(Nat)
  BY OperandFacts DEF x, y, Arg
<1>2. /\ Len(x.dims) = 4 /\ Len(y.dims) = 4 /\ y.dims[4] = x.dims[4]
      /\ gqa > 0 /\ x.dims[2] = y.dims[2] * gqa
      /\ x.dims[1] = 1 /\ y.dims[1] = 1 /\ x.dims[3] > 0
  BY DEF SdpaAccepts, Rank
<1>3. HeadsOf(x.dims, x.dims[2], x.dims[3], x.dims[4]) /\ HeadsOf(y.dims, y.dims[2], y.dims[3], x.dims[4])
  BY <1>1, <1>2, Zenon DEF HeadsOf
<1>4. gqa \in Nat
  OBVIOUS
<1>5. QED
  BY <1>2, <1>3, <1>4, Zenon DEF Attention

\* Prefill computes sdpa.
LEMMA SdpaFullComputes ==
  ASSUME IInv, NEW h, NEW l, NEW d, NEW kv, NEW n, NEW gqa, Attention(h, l, d, kv, n, gqa), l > 1,
         NEW causal \in BOOLEAN,
         NEW got, got = DispatchSdpaFull(x, y, Third(y), causal), got # Refused
  PROVE  got = [k \in 1..Product(x.dims) |-> AttendedBy(Unflatten(x.dims, k - 1), gqa, causal)]
<1>1. /\ HeadsOf(x.dims, h, l, d) /\ HeadsOf(y.dims, kv, n, d)
      /\ gqa \in Nat /\ gqa > 0 /\ l > 0 /\ h = kv * gqa
  BY DEF Attention
<1>2. /\ h \in Nat /\ l \in Nat /\ d \in Nat /\ kv \in Nat /\ n \in Nat
  BY <1>1, HeadsBlocks
<1>3. /\ x.dims \in Seq(Nat) /\ Len(x.dims) = 4 /\ Len(y.dims) = 4
      /\ x.dims[2] = h /\ x.dims[3] = l /\ x.dims[4] = d
      /\ y.dims[2] = kv /\ y.dims[3] = n /\ y.dims[4] = d
  BY <1>1, Zenon DEF HeadsOf
<1>4. PICK p, out : p \in Nat /\ p = Product(x.dims) /\ out = Out(x.dims) /\ DOMAIN out = 1..p
  BY <1>3, OutFacts
<1>5. /\ Third(y).strides = y.strides
      /\ x.off = 0 /\ y.off = 0 /\ x.strides[4] = 1 /\ y.strides[4] = 1
      /\ got = EncodeSdpaFull(x.store, y.store, Third(y).store, out, d, h, kv, l, n,
                              x.strides, y.strides, y.strides, causal)
  <2>1. Third(y).strides = y.strides
    <3>1. PICK c : c = [k \in 1..Product(y.dims) |-> Plus50(says["y"][k])]
      OBVIOUS
    <3>2. Above(c, says["y"], Product(y.dims))
      BY <3>1, Zenon DEF Above
    <3>3. Holds(y, says["y"])
      BY OperandFacts DEF y, Arg
    <3>4. QED
      BY <3>2, <3>3, TwinHolds
  <2>2. /\ x.off = 0 /\ y.off = 0 /\ x.strides[4] = 1 /\ y.strides[4] = 1
        /\ got = EncodeSdpaFull(Storage(x), Storage(y), Storage(Third(y)), Out(x.dims), x.dims[4],
                      x.dims[2], y.dims[2], x.dims[3], y.dims[3],
                      x.strides, y.strides, Third(y).strides, causal)
    BY Zenon DEF DispatchSdpaFull
  <2>3. QED
    BY <1>3, <1>4, <2>1, <2>2, Zenon DEF Storage
<1>6. PICK grp : grp = h \div kv
  OBVIOUS
<1>7. /\ kv # 0 /\ ~(n < l)
      /\ got = [i \in 1..p |->
                 Row(x.store, ((i - 1) \div (d * l)) * x.strides[2]
                                + (((i - 1) \div d) % l) * x.strides[3], d)
                 \o KeysRead(((i - 1) \div (d * l)) \div grp, (i - 1) % d,
                             IF causal THEN (((i - 1) \div d) % l) + (n - l) + 1 ELSE n, d)]
  BY <1>4, <1>5, <1>6, ZenonT(60) DEF EncodeSdpaFull, KeysRead
<1>8. FourAxes(arg["x"]) /\ FourAxes(arg["y"])
  BY <1>3, <1>5, Zenon DEF FourAxes, x, y
<1>9. ASSUME NEW i \in 1..p
      PROVE  Row(x.store, ((i - 1) \div (d * l)) * x.strides[2]
                            + (((i - 1) \div d) % l) * x.strides[3], d)
               \o KeysRead(((i - 1) \div (d * l)) \div grp, (i - 1) % d,
                           IF causal THEN (((i - 1) \div d) % l) + (n - l) + 1 ELSE n, d)
             = AttendedBy(Unflatten(x.dims, i - 1), gqa, causal)
  <2>1. PICK k \in Nat : k = i - 1 /\ k < p
    BY ONLY <1>4, i \in 1..p
  <2>2. PICK idx : idx = Unflatten(x.dims, k)
    OBVIOUS
  <2>3. Within(k, x.dims)
    BY <1>4, <2>1 DEF Within
  <2>4. /\ h > 0 /\ d > 0
        /\ Vector(idx, x.dims) /\ idx \in Indices(x.dims)
        /\ idx[1] = 0 /\ idx[2] = k \div (l * d) /\ idx[3] = (k \div d) % l /\ idx[4] = k % d
        /\ idx[2] < h /\ idx[3] < l /\ idx[4] < d
    BY <1>1, <2>2, <2>3, HeadsIndex
  <2>5. PICK e \in Nat, q \in Nat, j \in Nat : e = idx[2] /\ q = idx[3] /\ j = idx[4]
    BY <1>3, <2>4 DEF Indices
  <2>6. k \div (d * l) = e
    <3>1. d * l = l * d
      BY <1>2
    <3>2. QED
      BY <2>4, <2>5, <3>1, Zenon
  <2>7. /\ e \div gqa \in Nat /\ e \div gqa < kv /\ grp = gqa
    <3>1. e < h
      BY <2>4, <2>5, Zenon
    <3>2. h \in Nat /\ kv \in Nat /\ gqa \in Nat /\ gqa > 0 /\ h = kv * gqa
      BY <1>1, <1>2, Zenon
    <3>3. e \div gqa \in Nat /\ e \div gqa < kv
      BY ONLY <3>1, <3>2, e \in Nat, SharedHead
    <3>4. h \div kv = gqa
      BY ONLY <3>1, <3>2, e \in Nat, SharedHead
    <3>5. QED
      BY <1>6, <3>3, <3>4, Zenon
  <2>8. Row(x.store, e * x.strides[2] + q * x.strides[3], d) = LastRow("x", idx)
    <3>1. LastRow("x", idx) = Row(arg["x"].store, VectorStart(arg["x"], idx), arg["x"].dims[4])
      <4>1. "x" \in Arg
        BY DEF Arg
      <4>2. Vector(idx, arg["x"].dims)
        BY <2>4, Zenon DEF x
      <4>3. QED
        BY <1>8, <4>1, <4>2, VectorRow
    <3>2. VectorStart(arg["x"], idx) = e * x.strides[2] + q * x.strides[3]
      <4>1. VectorStart(x, idx) = 0 * x.strides[1] + e * x.strides[2] + q * x.strides[3]
        BY <2>4, <2>5, Zenon DEF VectorStart
      <4>2. x.strides[1] \in Nat /\ x.strides[2] \in Nat /\ x.strides[3] \in Nat
        <5>1. Holds(x, says["x"]) /\ FourAxes(x)
          BY <1>8, OperandFacts DEF x, Arg
        <5>2. QED
          BY <2>4, <5>1, FourRead
      <4>3. PICK s1 \in Nat, s2 \in Nat, s3 \in Nat : s1 = x.strides[1] /\ s2 = x.strides[2] /\ s3 = x.strides[3]
        BY <4>2
      <4>4. PICK p2 \in Nat, p3 \in Nat : p2 = e * s2 /\ p3 = q * s3
        OBVIOUS
      <4>5. 0 * s1 + e * s2 + q * s3 = e * s2 + q * s3
        BY <4>4
      <4>6. QED
        BY <4>1, <4>3, <4>5, Zenon DEF x
    <3>3. QED
      BY <1>3, <3>1, <3>2, Zenon DEF x
  <2>9. PICK seen \in Int : /\ seen = IF causal THEN q + (n - l) + 1 ELSE n
                            /\ seen <= n
    <3>1. q < l /\ ~(n < l)
      BY <1>7, <2>4, <2>5, Zenon
    <3>2. CASE causal
      <4>1. q + (n - l) + 1 \in Int /\ q + (n - l) + 1 <= n
        BY <1>2, <3>1
      <4>2. QED
        BY <3>2, <4>1, Zenon
    <3>3. CASE ~causal
      <4>1. n \in Int /\ n <= n
        BY <1>2
      <4>2. QED
        BY <3>3, <4>1, Zenon
    <3>4. QED
      BY <3>2, <3>3
  <2>10. SeenBy(idx, causal) = seen
    BY <1>3, <2>5, <2>9, Zenon DEF SeenBy
  <2>11. KeysRead(e \div gqa, j, seen, d) = KeysSaid(e \div gqa, j, seen)
    <3>1. j < d
      BY <2>4, <2>5, Zenon
    <3>2. KeysAt(e \div gqa, j, seen, kv, n, d)
      BY <1>1, <1>2, <1>8, <2>7, <2>9, <3>1, Zenon DEF KeysAt, y
    <3>3. QED
      BY <3>2, KeysAgree
  <2>12. AttendedBy(idx, gqa, causal) = LastRow("x", idx) \o KeysSaid(e \div gqa, j, seen)
    BY <2>5, <2>10, Zenon DEF AttendedBy
  <2>13. /\ (i - 1) \div (d * l) = e /\ ((i - 1) \div d) % l = q /\ (i - 1) % d = j
    BY <2>1, <2>4, <2>5, <2>6, Zenon
  <2>14. QED
    BY <2>1, <2>2, <2>7, <2>8, <2>9, <2>11, <2>12, <2>13, Zenon
<1>10. QED
  BY <1>4, <1>7, <1>9, Zenon

\* Decode computes sdpa for a query in row-major order.
LEMMA SdpaVectorComputes ==
  ASSUME IInv, NEW h, NEW d, NEW kv, NEW n, NEW gqa, Attention(h, 1, d, kv, n, gqa),
         NEW causal \in BOOLEAN, IsContiguousIgnoringUnits(x),
         NEW got, got = DispatchSdpa(x, y, Third(y), gqa, causal), got # Refused
  PROVE  got = [k \in 1..Product(x.dims) |-> AttendedBy(Unflatten(x.dims, k - 1), gqa, causal)]
<1>1. /\ HeadsOf(x.dims, h, 1, d) /\ HeadsOf(y.dims, kv, n, d)
      /\ gqa \in Nat /\ gqa > 0 /\ h = kv * gqa
  BY DEF Attention
<1>2. /\ h \in Nat /\ d \in Nat /\ kv \in Nat /\ n \in Nat
  BY <1>1, HeadsBlocks
<1>3. /\ x.dims \in Seq(Nat) /\ Len(x.dims) = 4 /\ Len(y.dims) = 4
      /\ x.dims[2] = h /\ x.dims[3] = 1 /\ x.dims[4] = d
      /\ y.dims[2] = kv /\ y.dims[3] = n /\ y.dims[4] = d
  BY <1>1, Zenon DEF HeadsOf
<1>4. PICK p, out : p \in Nat /\ p = Product(x.dims) /\ out = Out(x.dims) /\ DOMAIN out = 1..p /\ Len(out) = p
  BY <1>3, OutFacts
<1>5. p = h * d
  <2>1. Product(x.dims) = h * (1 * d)
    BY <1>1, HeadsBlocks
  <2>2. 1 * d = d
    BY <1>2
  <2>3. QED
    BY <1>4, <2>1, <2>2, Zenon
<1>6. /\ Third(y).strides = y.strides
      /\ x.off = 0 /\ y.off = 0 /\ y.strides[4] = 1
      /\ got = EncodeSdpaVector(x.store, y.store, Third(y).store, out, d, n, gqa,
                                y.strides[2], y.strides[3], y.strides[2], y.strides[3])
  <2>1. Third(y).strides = y.strides
    <3>1. PICK c : c = [k \in 1..Product(y.dims) |-> Plus50(says["y"][k])]
      OBVIOUS
    <3>2. Above(c, says["y"], Product(y.dims))
      BY <3>1, Zenon DEF Above
    <3>3. Holds(y, says["y"])
      BY OperandFacts DEF y, Arg
    <3>4. QED
      BY <3>2, <3>3, TwinHolds
  <2>2. ~(x.dims[3] > 1)
    BY <1>3
  <2>3. PICK e : e = EncodeSdpaVector(x.store, y.store, Third(y).store, out, d, n, gqa,
                         y.strides[2], y.strides[3], y.strides[2], y.strides[3])
    OBVIOUS
  <2>4. y.off = 0 /\ y.strides[4] = 1 /\ got = Unless({FlatInput(x)}, e)
    BY <1>3, <1>4, <2>1, <2>2, <2>3, Zenon DEF DispatchSdpa, Storage
  <2>5. x.off = 0 /\ got = e
    BY <2>4, Zenon DEF Unless, FlatInput
  <2>6. QED
    BY <2>1, <2>3, <2>4, <2>5, Zenon
<1>7. FourAxes(arg["y"])
  BY <1>3, <1>6, Zenon DEF FourAxes, y
<1>8. PICK heads : heads = Len(out) \div d
  OBVIOUS
<1>9. got = [i \in 1..p |-> Row(x.store, ((i - 1) \div d) * d, d)
                             \o KeysRead(((i - 1) \div d) \div gqa, (i - 1) % d, n, d)]
  BY <1>4, <1>6, <1>8, Zenon DEF EncodeSdpaVector, KeysRead
<1>10. PICK f : Flat(f, says["x"]) /\ f.store = x.store /\ f.dims = x.dims
  <2>1. Holds(x, says["x"])
    BY OperandFacts DEF x, Arg
  <2>2. QED
    BY <1>6, <2>1, ReadsDense
<1>11. PICK head : head = Lead(x.dims)
  OBVIOUS
<1>12. AllButLast(head, x.dims, 4)
  <2>1. x.dims # <<>>
    <3>1. Len(<<>>) = 0
      OBVIOUS
    <3>2. QED
      BY <1>3, <3>1
  <2>2. QED
    BY <1>3, <1>11, <2>1, LeadIs
<1>13. ASSUME NEW i \in 1..p
       PROVE  Row(x.store, ((i - 1) \div d) * d, d)
                \o KeysRead(((i - 1) \div d) \div gqa, (i - 1) % d, n, d)
              = AttendedBy(Unflatten(x.dims, i - 1), gqa, causal)
  <2>1. PICK k \in Nat : k = i - 1 /\ k < p
    BY ONLY <1>4, i \in 1..p
  <2>2. PICK idx : idx = Unflatten(x.dims, k)
    OBVIOUS
  <2>3. Within(k, x.dims) /\ k < Product(x.dims)
    BY <1>4, <2>1 DEF Within
  <2>4. /\ h > 0 /\ d > 0
        /\ Vector(idx, x.dims) /\ idx \in Indices(x.dims)
        /\ idx[2] = k \div (1 * d) /\ idx[4] = k % d
        /\ idx[2] < h /\ idx[4] < d
    BY <1>1, <2>2, <2>3, HeadsIndex
  <2>5. PICK e \in Nat, j \in Nat : e = idx[2] /\ j = idx[4]
    BY <1>3, <2>4 DEF Indices
  <2>6. k \div d = e
    <3>1. 1 * d = d
      BY <1>2
    <3>2. QED
      BY <2>4, <2>5, <3>1, Zenon
  <2>7. e \div gqa \in Nat /\ e \div gqa < kv
    <3>1. e < h
      BY <2>4, <2>5, Zenon
    <3>2. h \in Nat /\ kv \in Nat /\ gqa \in Nat /\ gqa > 0 /\ h = kv * gqa
      BY <1>1, <1>2, Zenon
    <3>3. QED
      BY ONLY <3>1, <3>2, e \in Nat, SharedHead
  <2>8. Row(x.store, e * d, d) = LastRow("x", idx)
    <3>1. PICK u \in Indices(head) : Starts(u, idx, 4 - 1, 4) /\ Flatten(head, u) = k \div x.dims[4]
      BY <1>12, <2>1, <2>2, <2>3, IndexRow
    <3>2. InRow(idx, u, head, f.dims, 4)
      BY <1>10, <1>12, <3>1 DEF InRow
    <3>3. PICK start : start = Flatten(head, u) * f.dims[4]
      OBVIOUS
    <3>4. Row(f.store, start, f.dims[4]) = RowOf(says["x"], f.dims, idx, 4)
      BY <1>10, <3>2, <3>3, FlatRow
    <3>5. LastRow("x", idx) = RowOf(says["x"], arg["x"].dims, idx, 4)
      <4>1. "x" \in Arg /\ Len(idx) = 4
        BY <2>4 DEF Arg, Vector
      <4>2. QED
        BY <4>1, LastRowOf
    <3>6. start = e * d
      BY <1>3, <1>10, <2>6, <3>1, <3>3, Zenon
    <3>7. QED
      BY <1>3, <1>10, <3>4, <3>5, <3>6, Zenon DEF x
  <2>9. SeenBy(idx, causal) = n
    <3>1. ~(x.dims[3] > 1)
      BY <1>3
    <3>2. QED
      BY <1>3, <3>1, Zenon DEF SeenBy
  <2>10. KeysRead(e \div gqa, j, n, d) = KeysSaid(e \div gqa, j, n)
    <3>1. j < d
      BY <2>4, <2>5, Zenon
    <3>2. n \in Nat /\ n \in Int /\ n <= n
      BY <1>2
    <3>3. KeysAt(e \div gqa, j, n, kv, n, d)
      BY <1>1, <1>2, <1>7, <2>7, <3>1, <3>2, Zenon DEF KeysAt, y
    <3>4. QED
      BY <3>3, KeysAgree
  <2>11. AttendedBy(idx, gqa, causal) = LastRow("x", idx) \o KeysSaid(e \div gqa, j, n)
    BY <2>5, <2>9, Zenon DEF AttendedBy
  <2>12. (i - 1) \div d = e /\ (i - 1) % d = j
    BY <2>1, <2>4, <2>5, <2>6, Zenon
  <2>13. QED
    BY <2>1, <2>2, <2>8, <2>10, <2>11, <2>12, Zenon
<1>14. QED
  BY <1>4, <1>9, <1>13, Zenon

\* Attention computes what the op means, for the calls the models make: decode
\* asks with a query whose view, if it is one, is still in row-major order.
LEMMA SdpaCall ==
  ASSUME IInv, CallersOnly, Sdpa
  PROVE  DispatchComputes'
<1>1. PICK gqa \in 1..2, causal \in BOOLEAN :
        /\ CallersOnly /\ Rank(x) = 4 => x.dims[3] > 1 \/ IsContiguousIgnoringUnits(x)
        /\ Call("sdpa", SdpaAccepts(x, y, gqa),
                [k \in 1..Product(x.dims) |->
                   LastRow("x", Unflatten(x.dims, k - 1))
                     \o InTurn([n \in 1..(IF causal /\ x.dims[3] > 1
                                          THEN Unflatten(x.dims, k - 1)[3] + (y.dims[3] - x.dims[3]) + 1
                                          ELSE y.dims[3]) |->
                          LastRow("y", <<0, Unflatten(x.dims, k - 1)[2] \div gqa, n - 1, 0>>)
                            \o Plus50(Says("y", [<<0, Unflatten(x.dims, k - 1)[2] \div gqa, n - 1, 0>>
                                                   EXCEPT ![4] = Unflatten(x.dims, k - 1)[4]]))])],
                DispatchSdpa(x, y, Third(y), gqa, causal))
  BY Zenon DEF Sdpa, Tabulate
<1>2. PICK denoted, got :
        /\ denoted = [k \in 1..Product(x.dims) |-> AttendedBy(Unflatten(x.dims, k - 1), gqa, causal)]
        /\ got = DispatchSdpa(x, y, Third(y), gqa, causal)
  OBVIOUS
<1>3. PICK accepted : /\ accepted => SdpaAccepts(x, y, gqa)
                      /\ Call("sdpa", accepted, denoted, got)
  BY <1>1, <1>2, Zenon DEF AttendedBy, SeenBy, KeysSaid
<1>4. ASSUME accepted, got # Refused PROVE got = denoted
  <2>1. SdpaAccepts(x, y, gqa)
    BY <1>3, <1>4
  <2>2. PICK h, l, d, kv, n : /\ h = x.dims[2] /\ l = x.dims[3] /\ d = x.dims[4]
                              /\ kv = y.dims[2] /\ n = y.dims[3]
    OBVIOUS
  <2>3. Attention(h, l, d, kv, n, gqa)
    BY <2>1, <2>2, AttentionShapes
  <2>4. l \in Nat /\ l > 0
    <3>1. HeadsOf(x.dims, h, l, d) /\ l > 0
      BY <2>3 DEF Attention
    <3>2. QED
      BY <3>1, HeadsBlocks
  <2>5. CASE l > 1
    <3>1. got = DispatchSdpaFull(x, y, Third(y), causal)
      BY <1>2, <2>2, <2>5, Zenon DEF DispatchSdpa
    <3>2. got = [k \in 1..Product(x.dims) |-> AttendedBy(Unflatten(x.dims, k - 1), gqa, causal)]
      BY <1>4, <2>3, <2>5, <3>1, SdpaFullComputes
    <3>3. QED
      BY <1>2, <3>2, Zenon
  <2>6. CASE ~(l > 1)
    <3>1. l = 1
      BY <2>4, <2>6
    <3>2. Attention(h, 1, d, kv, n, gqa)
      BY <2>3, <3>1, Zenon
    <3>3. IsContiguousIgnoringUnits(x)
      <4>1. Rank(x) = 4
        BY <2>1, Zenon DEF SdpaAccepts
      <4>2. QED
        BY <1>1, <2>2, <2>6, <4>1, Zenon
    <3>4. got = [k \in 1..Product(x.dims) |-> AttendedBy(Unflatten(x.dims, k - 1), gqa, causal)]
      BY <1>2, <1>4, <3>2, <3>3, SdpaVectorComputes
    <3>5. QED
      BY <1>2, <3>4, Zenon
  <2>7. QED
    BY <2>5, <2>6
<1>5. QED
  BY <1>3, <1>4, CallComputes

----------------------------------------------------------------------------
\* Rotary embedding.

\* The blocks of four axes.
LEMMA FourBlocks ==
  ASSUME NEW dims \in Seq(Nat), Len(dims) = 4
  PROVE  /\ dims[1] \in Nat /\ dims[2] \in Nat /\ dims[3] \in Nat /\ dims[4] \in Nat
         /\ Block(dims, 4) = 1 /\ Block(dims, 3) = dims[4]
         /\ Block(dims, 2) = dims[3] * dims[4] /\ Block(dims, 1) = dims[2] * (dims[3] * dims[4])
         /\ Product(dims) = dims[1] * (dims[2] * (dims[3] * dims[4]))
<1>1. \A a \in 1..4 : Block(dims, a - 1) = dims[a] * Block(dims, a)
  BY BlockFacts
<1>2. Block(dims, 4) = 1
  BY BlockFacts
<1>3. Block(dims, 0) = Product(dims)
  BY BlockFacts
<1>4. dims[1] \in Nat /\ dims[2] \in Nat /\ dims[3] \in Nat /\ dims[4] \in Nat
  <2>1. \A a \in 1..Len(dims) : dims[a] \in Nat
    BY ONLY dims \in Seq(Nat)
  <2>2. QED
    BY <2>1
<1>5. Block(dims, 3) = dims[4]
  <2>1. Block(dims, 4 - 1) = dims[4] * Block(dims, 4)
    BY <1>1
  <2>2. QED
    BY <1>2, <1>4, <2>1
<1>6. Block(dims, 2) = dims[3] * dims[4]
  <2>1. Block(dims, 3 - 1) = dims[3] * Block(dims, 3)
    BY <1>1
  <2>2. QED
    BY <1>5, <2>1
<1>7. Block(dims, 1) = dims[2] * (dims[3] * dims[4])
  <2>1. Block(dims, 2 - 1) = dims[2] * Block(dims, 2)
    BY <1>1
  <2>2. QED
    BY <1>6, <2>1
<1>8. Product(dims) = dims[1] * (dims[2] * (dims[3] * dims[4]))
  <2>1. Block(dims, 1 - 1) = dims[1] * Block(dims, 1)
    BY <1>1
  <2>2. QED
    BY <1>3, <1>7, <2>1
<1>9. QED
  BY <1>2, <1>4, <1>5, <1>6, <1>7, <1>8

\* An index of four axes, by name.
FourOf(idx, dims, e, g, p, j) ==
  /\ dims \in Seq(Nat) /\ Len(dims) = 4 /\ idx = <<e, g, p, j>>
  /\ e \in Nat /\ g \in Nat /\ p \in Nat /\ j \in Nat
  /\ e < dims[1] /\ g < dims[2] /\ p < dims[3] /\ j < dims[4]

\* Its row-major position.
LEMMA FlattenFour ==
  ASSUME NEW idx, NEW dims, NEW e, NEW g, NEW p, NEW j, FourOf(idx, dims, e, g, p, j)
  PROVE  /\ idx \in Indices(dims) /\ idx[1] = e /\ idx[2] = g /\ idx[3] = p /\ idx[4] = j
         /\ Flatten(dims, idx)
              = e * (dims[2] * (dims[3] * dims[4])) + g * (dims[3] * dims[4]) + p * dims[4] + j
<1>1. /\ dims \in Seq(Nat) /\ Len(dims) = 4 /\ idx = <<e, g, p, j>>
      /\ e \in Nat /\ g \in Nat /\ p \in Nat /\ j \in Nat
      /\ e < dims[1] /\ g < dims[2] /\ p < dims[3] /\ j < dims[4]
  BY DEF FourOf
<1>2. idx \in [1..4 -> Nat] /\ idx[1] = e /\ idx[2] = g /\ idx[3] = p /\ idx[4] = j
  BY <1>1
<1>3. \A a \in 1..4 : a = 1 \/ a = 2 \/ a = 3 \/ a = 4
  OBVIOUS
<1>4. \A a \in 1..4 : idx[a] < dims[a]
  BY <1>1, <1>2, <1>3
<1>5. idx \in Indices(dims)
  BY <1>1, <1>2, <1>4 DEF Indices
<1>6. PICK s : s = Steps(idx, Contiguous(dims))
  OBVIOUS
<1>7. s \in [1..4 -> Int] /\ \A a \in 1..4 : s[a] = idx[a] * Block(dims, a)
  <2>1. idx \in [1..Len(dims) -> Nat]
    BY <1>1, <1>2
  <2>2. s \in [1..Len(dims) -> Int]
    BY <1>1, <1>6, <2>1, DenseSteps
  <2>3. \A a \in 1..Len(dims) : s[a] = idx[a] * Block(dims, a)
    BY <1>1, <1>6, <2>1, DenseSteps
  <2>4. QED
    BY <1>1, <2>2, <2>3
<1>8. Flatten(dims, idx) = Total(s)
  <2>1. idx \in [1..Len(dims) -> Nat]
    BY <1>1, <1>2
  <2>2. QED
    BY <1>1, <1>6, <2>1, FlattenIs
<1>9. Total(s) = s[1] + s[2] + s[3] + s[4]
  BY <1>7, TotalFour
<1>10. /\ Block(dims, 4) = 1 /\ Block(dims, 3) = dims[4]
       /\ Block(dims, 2) = dims[3] * dims[4] /\ Block(dims, 1) = dims[2] * (dims[3] * dims[4])
  BY <1>1, FourBlocks
<1>11. s[1] = idx[1] * Block(dims, 1) /\ s[2] = idx[2] * Block(dims, 2) /\ s[3] = idx[3] * Block(dims, 3)
       /\ s[4] = idx[4] * Block(dims, 4)
  <2>1. 1 \in 1..4 /\ 2 \in 1..4 /\ 3 \in 1..4 /\ 4 \in 1..4
    OBVIOUS
  <2>2. QED
    BY <1>7, <2>1, Zenon
<1>12. s[4] = j
  BY <1>1, <1>2, <1>10, <1>11
<1>13. /\ s[1] = e * (dims[2] * (dims[3] * dims[4]))
       /\ s[2] = g * (dims[3] * dims[4]) /\ s[3] = p * dims[4]
  BY <1>2, <1>10, <1>11, Zenon
<1>14. QED
  BY <1>2, <1>5, <1>8, <1>9, <1>12, <1>13, Zenon

\* The thread groups of a batch entry, and the (entry, head) pairs, as numbers,
\* that the threads at z rotate.
HeadGroups(heads) == (heads + RopeHeads - 1) \div RopeHeads
FirstHead(z, heads) == (z * RopeHeads) % (HeadGroups(heads) * RopeHeads)
EntryOf(z, heads) == (z * RopeHeads) \div (HeadGroups(heads) * RopeHeads)
HeadsAt(z, heads) ==
  {EntryOf(z, heads) * heads + h :
     h \in {g \in FirstHead(z, heads)..(FirstHead(z, heads) + RopeHeads - 1) : g < heads}}

\* Enough groups for the heads.
LEMMA GroupsFacts ==
  ASSUME NEW heads \in Nat, heads > 0
  PROVE  /\ RopeHeads \in Nat /\ RopeHeads > 0
         /\ HeadGroups(heads) \in Nat /\ HeadGroups(heads) > 0
         /\ \A g \in Nat : g < heads => g < HeadGroups(heads) * RopeHeads
<1>1. PICK r \in Nat : r = RopeHeads /\ r > 0
  BY RopeAssumption
<1>2. PICK k \in Nat : k = heads + r - 1
  BY <1>1
<1>3. PICK u \in Nat, c \in Nat : u = k \div r /\ c < r /\ k = u * r + c
  BY <1>1, DivMod
<1>4. PICK ur \in Nat : ur = u * r
  OBVIOUS
<1>5. u > 0
  <2>1. SUFFICES ASSUME u = 0 PROVE FALSE
    BY <1>3
  <2>2. ur = 0
    BY <1>4, <2>1
  <2>3. QED
    BY <1>2, <1>3, <1>4, <2>2
<1>6. \A g \in Nat : g < heads => g < ur
  BY <1>2, <1>3, <1>4
<1>7. HeadGroups(heads) = u
  BY <1>1, <1>2, <1>3, Zenon DEF HeadGroups
<1>8. QED
  BY <1>1, <1>4, <1>5, <1>6, <1>7

\* The threads at z, of a batch, rotate m.
Rotates(z, m, batch, heads) ==
  /\ heads \in Nat /\ heads > 0 /\ batch \in Nat
  /\ z \in 0..(batch * HeadGroups(heads) - 1) /\ m \in HeadsAt(z, heads)

\* m is head g of entry e.
HeadOfEntry(m, e, g, batch, heads) ==
  e \in Nat /\ g \in Nat /\ e < batch /\ g < heads /\ m = e * heads + g

\* The threads at z rotate heads of one entry.
LEMMA HeadsAtAre ==
  ASSUME NEW z, NEW m, NEW batch \in Nat, NEW heads \in Nat, Rotates(z, m, batch, heads)
  PROVE  \E e, g : HeadOfEntry(m, e, g, batch, heads)
<1>0. /\ heads > 0 /\ z \in 0..(batch * HeadGroups(heads) - 1) /\ m \in HeadsAt(z, heads)
  BY DEF Rotates
<1>1. PICK r \in Nat, u \in Nat : r = RopeHeads /\ r > 0 /\ u = HeadGroups(heads) /\ u > 0
  BY <1>0, GroupsFacts
<1>2. PICK b \in Nat : b = u * r /\ b > 0
  BY <1>1
<1>3. PICK zn \in Nat : zn = z /\ zn < batch * u
  <2>1. PICK bu \in Nat : bu = batch * u
    OBVIOUS
  <2>2. z \in 0..(bu - 1)
    BY <1>0, <1>1, <2>1, Zenon
  <2>3. QED
    BY <2>1, <2>2
<1>4. PICK k \in Nat : k = zn * r
  OBVIOUS
<1>5. PICK e \in Nat, f \in Nat : e = k \div b /\ f = k % b /\ k = e * b + f
  BY <1>2, DivMod
<1>6. EntryOf(z, heads) = e /\ FirstHead(z, heads) = f
  BY <1>1, <1>2, <1>3, <1>4, <1>5, Zenon DEF EntryOf, FirstHead
<1>7. PICK g : g \in f..(f + r - 1) /\ g < heads /\ m = e * heads + g
  BY <1>0, <1>1, <1>6, Zenon DEF HeadsAt
<1>8. g \in Nat
  BY <1>7
<1>9. e < batch
  <2>1. SUFFICES ASSUME ~(e < batch) PROVE FALSE
    OBVIOUS
  <2>2. PICK w \in Nat : e = batch + w
    BY <2>1
  <2>3. e * b = batch * b + w * b
    BY ONLY <2>2, batch \in Nat, w \in Nat, b \in Nat
  <2>4. batch * b = (batch * u) * r
    BY <1>2
  <2>5. PICK v \in Nat : v = batch * u
    OBVIOUS
  <2>6. PICK y1 \in Nat : v = zn + y1 /\ y1 > 0
    BY <1>3, <2>5
  <2>7. v * r = zn * r + y1 * r
    BY ONLY <2>6, zn \in Nat, y1 \in Nat, r \in Nat
  <2>8. PICK vr \in Nat, yr \in Nat, wb \in Nat : vr = v * r /\ yr = y1 * r /\ wb = w * b
    OBVIOUS
  <2>9. yr > 0
    BY <1>1, <2>6, <2>8
  <2>10. vr = k + yr
    BY <1>4, <2>7, <2>8
  <2>11. k = vr + wb + f
    BY <1>5, <2>3, <2>4, <2>5, <2>8
  <2>12. QED
    BY <2>9, <2>10, <2>11
<1>10. QED
  BY <1>7, <1>8, <1>9, Zenon DEF HeadOfEntry

\* Every head of every entry is rotated by some thread.
LEMMA HeadIsAt ==
  ASSUME NEW heads \in Nat, NEW batch \in Nat, NEW e \in Nat, NEW g \in Nat, e < batch, g < heads
  PROVE  \E z \in 0..(batch * HeadGroups(heads) - 1) : e * heads + g \in HeadsAt(z, heads)
<1>0. heads > 0
  OBVIOUS
<1>1. PICK r \in Nat, u \in Nat : /\ r = RopeHeads /\ r > 0 /\ u = HeadGroups(heads) /\ u > 0
                                  /\ g < u * r
  BY <1>0, GroupsFacts
<1>2. PICK b \in Nat : b = u * r /\ b > 0
  BY <1>1
<1>3. PICK q \in Nat, c \in Nat : c < r /\ g = q * r + c
  <2>1. r > 0
    BY <1>1
  <2>2. g \div r \in Nat /\ g % r \in Nat
    BY ONLY <2>1, g \in Nat, r \in Nat, DivMod
  <2>3. g % r < r /\ g = (g \div r) * r + (g % r)
    BY ONLY <2>1, g \in Nat, r \in Nat, DivMod
  <2>4. QED
    BY <2>2, <2>3, Zenon
<1>4. q < u
  <2>1. SUFFICES ASSUME ~(q < u) PROVE FALSE
    OBVIOUS
  <2>2. PICK w \in Nat : q = u + w
    BY <2>1
  <2>3. q * r = u * r + w * r
    BY ONLY <2>2, u \in Nat, w \in Nat, r \in Nat
  <2>4. PICK wr \in Nat : wr = w * r
    OBVIOUS
  <2>5. QED
    BY <1>1, <1>2, <1>3, <2>3, <2>4
<1>5. PICK z \in Nat : z = e * u + q /\ z < batch * u
  BY <1>4, DigitBelow
<1>6. PICK f \in Nat : f = q * r /\ f < b
  BY <1>1, <1>2, <1>3
<1>7. z * r = e * b + f
  BY <1>2, <1>5, <1>6
<1>8. PICK k \in Nat : k = z * r
  OBVIOUS
<1>9. k \div b = e /\ k % b = f
  BY <1>6, <1>7, <1>8, DivUnique
<1>10. EntryOf(z, heads) = e /\ FirstHead(z, heads) = f
  BY <1>1, <1>2, <1>8, <1>9, Zenon DEF EntryOf, FirstHead
<1>11. g \in f..(f + r - 1)
  BY <1>3, <1>6
<1>12. e * heads + g \in HeadsAt(z, heads)
  BY <1>1, <1>10, <1>11, Zenon DEF HeadsAt
<1>13. z \in 0..(batch * HeadGroups(heads) - 1)
  <2>1. PICK v \in Nat : v = batch * u
    OBVIOUS
  <2>2. z \in 0..(v - 1)
    BY <1>5, <2>1
  <2>3. QED
    BY <1>1, <2>1, <2>2, Zenon
<1>14. QED
  BY <1>12, <1>13

\* What the threads of the rope kernel write: two numbers for each pair of a
\* position and of each head of the group.
Place(headDim, seq, p, m, j) == p * headDim + m * seq * headDim + j
From(sHead, sSeq, p, m, j) == p * sSeq + m * sHead + j
PairTurned(h, src, offset, half, sHead, sSeq, p, m, j) ==
  Rotated(h, offset + p, j, Read(src, From(sHead, sSeq, p, m, j)),
                            Read(src, From(sHead, sSeq, p, m, j) + half))
ThreadTurns(t, src, offset, heads, seq, headDim, half, sHead, sSeq) ==
  UNION {{<<Place(headDim, seq, t[2], m, t[1]), PairTurned(1, src, offset, half, sHead, sSeq, t[2], m, t[1])>>,
          <<Place(headDim, seq, t[2], m, t[1]) + half,
            PairTurned(2, src, offset, half, sHead, sSeq, t[2], m, t[1])>>} :
           m \in HeadsAt(t[3], heads)}
Turns(src, offset, batch, heads, seq, headDim, half, sHead, sSeq) ==
  UNION {ThreadTurns(t, src, offset, heads, seq, headDim, half, sHead, sSeq) :
    t \in (0..(half - 1)) \X (0..(seq - 1)) \X (0..(batch * HeadGroups(heads) - 1))}

\* The kernel, when it runs, leaves those writes in dst.
LEMMA RopeWrites ==
  ASSUME NEW src, NEW dst, NEW offset, NEW batch, NEW heads, NEW seq, NEW headDim, NEW rotary,
         NEW sHead, NEW sSeq, NEW got,
         got = EncodeRope(src, dst, offset, batch, heads, seq, headDim, rotary, sHead, sSeq),
         got # Refused
  PROVE  /\ batch # 0 /\ heads # 0 /\ seq # 0 /\ headDim # 0 /\ rotary # 0
         /\ got = Written(dst, Turns(src, offset, batch, heads, seq, headDim, rotary \div 2, sHead, sSeq))
<1>1. 0 \notin {batch, heads, seq, headDim, rotary}
  BY Zenon DEF EncodeRope
<1>2. got = Written(dst, Turns(src, offset, batch, heads, seq, headDim, rotary \div 2, sHead, sSeq))
  BY Zenon DEF EncodeRope, Turns, ThreadTurns, PairTurned, Place, From, HeadsAt, EntryOf, FirstHead, HeadGroups
<1>3. QED
  BY <1>1, <1>2

\* One pair: entry e, head g, position p, number j of half.
Turn(j, p, e, g, half, dims) ==
  /\ j \in Nat /\ p \in Nat /\ e \in Nat /\ g \in Nat
  /\ j < half /\ p < dims[3] /\ e < dims[1] /\ g < dims[2]

\* What its thread writes.
TurnWrite(w, j, p, e, g, src, offset, half, sHead, sSeq, dims) ==
  /\ Turn(j, p, e, g, half, dims)
  /\ \/ w = <<Place(dims[4], dims[3], p, e * dims[2] + g, j),
              PairTurned(1, src, offset, half, sHead, sSeq, p, e * dims[2] + g, j)>>
     \/ w = <<Place(dims[4], dims[3], p, e * dims[2] + g, j) + half,
              PairTurned(2, src, offset, half, sHead, sSeq, p, e * dims[2] + g, j)>>

\* The writes are exactly those of the pairs.
LEMMA TurnsAre ==
  ASSUME NEW src, NEW offset, NEW dims \in Seq(Nat), Len(dims) = 4, NEW half \in Nat,
         NEW sHead, NEW sSeq, dims[2] > 0,
         NEW writes, writes = Turns(src, offset, dims[1], dims[2], dims[3], dims[4], half, sHead, sSeq),
         NEW w
  PROVE  w \in writes <=> \E j, p, e, g : TurnWrite(w, j, p, e, g, src, offset, half, sHead, sSeq, dims)
<1>1. PICK batch \in Nat, heads \in Nat, seq \in Nat, d \in Nat :
        batch = dims[1] /\ heads = dims[2] /\ seq = dims[3] /\ d = dims[4] /\ heads > 0
  BY FourBlocks
<1>2. PICK groups \in Nat : groups = batch * HeadGroups(heads)
  BY <1>1, GroupsFacts, SMTT(40)
<1>3. ASSUME w \in writes
      PROVE  \E j, p, e, g : TurnWrite(w, j, p, e, g, src, offset, half, sHead, sSeq, dims)
  <2>1. PICK t \in (0..(half - 1)) \X (0..(seq - 1)) \X (0..(batch * HeadGroups(heads) - 1)) :
          w \in ThreadTurns(t, src, offset, heads, seq, d, half, sHead, sSeq)
    BY <1>1, <1>3, Zenon DEF Turns
  <2>2. /\ t[1] \in 0..(half - 1) /\ t[2] \in 0..(seq - 1)
        /\ t[3] \in 0..(batch * HeadGroups(heads) - 1)
    BY <2>1
  <2>3. PICK m \in HeadsAt(t[3], heads) :
          w \in {<<Place(d, seq, t[2], m, t[1]), PairTurned(1, src, offset, half, sHead, sSeq, t[2], m, t[1])>>,
                 <<Place(d, seq, t[2], m, t[1]) + half,
                   PairTurned(2, src, offset, half, sHead, sSeq, t[2], m, t[1])>>}
    BY <2>1, Zenon DEF ThreadTurns
  <2>4. PICK e \in Nat, g \in Nat : e < batch /\ g < heads /\ m = e * heads + g
    <3>1. PICK z : z = t[3]
      OBVIOUS
    <3>2. Rotates(z, m, batch, heads)
      BY <1>1, <2>2, <2>3, <3>1, Zenon DEF Rotates
    <3>3. \E e, g : HeadOfEntry(m, e, g, batch, heads)
      BY <3>2, HeadsAtAre
    <3>4. QED
      BY <3>3, Zenon DEF HeadOfEntry
  <2>5. PICK j \in Nat, p \in Nat : j = t[1] /\ p = t[2] /\ j < half /\ p < seq
    BY <2>2
  <2>6. Turn(j, p, e, g, half, dims)
    BY <1>1, <2>4, <2>5, Zenon DEF Turn
  <2>7. TurnWrite(w, j, p, e, g, src, offset, half, sHead, sSeq, dims)
    BY <1>1, <2>3, <2>4, <2>5, <2>6, Zenon DEF TurnWrite
  <2>8. QED
    BY <2>7, Zenon
<1>4. ASSUME NEW j, NEW p, NEW e, NEW g, TurnWrite(w, j, p, e, g, src, offset, half, sHead, sSeq, dims)
      PROVE  w \in writes
  <2>1. /\ j \in Nat /\ p \in Nat /\ e \in Nat /\ g \in Nat
        /\ j < half /\ p < seq /\ e < batch /\ g < heads
    BY <1>1, <1>4, Zenon DEF Turn, TurnWrite
  <2>2. PICK z \in 0..(batch * HeadGroups(heads) - 1) : e * heads + g \in HeadsAt(z, heads)
    BY <2>1, HeadIsAt
  <2>3. PICK t : t = <<j, p, z>>
    OBVIOUS
  <2>4. t[1] = j /\ t[2] = p /\ t[3] = z
    BY <2>3
  <2>5. t \in (0..(half - 1)) \X (0..(seq - 1)) \X (0..(batch * HeadGroups(heads) - 1))
    <3>1. j \in 0..(half - 1) /\ p \in 0..(seq - 1)
      BY <2>1
    <3>2. QED
      BY <2>2, <2>3, <3>1
  <2>6. PICK m : m = e * heads + g
    OBVIOUS
  <2>7. w \in ThreadTurns(t, src, offset, heads, seq, d, half, sHead, sSeq)
    <3>1. m \in HeadsAt(t[3], heads)
      BY <2>2, <2>4, <2>6, Zenon
    <3>2. PICK pair :
            pair = {<<Place(d, seq, t[2], m, t[1]), PairTurned(1, src, offset, half, sHead, sSeq, t[2], m, t[1])>>,
                    <<Place(d, seq, t[2], m, t[1]) + half,
                      PairTurned(2, src, offset, half, sHead, sSeq, t[2], m, t[1])>>}
      OBVIOUS
    <3>3. pair \subseteq ThreadTurns(t, src, offset, heads, seq, d, half, sHead, sSeq)
      BY <3>1, <3>2, Zenon DEF ThreadTurns
    <3>4. \/ w = <<Place(d, seq, p, m, j), PairTurned(1, src, offset, half, sHead, sSeq, p, m, j)>>
          \/ w = <<Place(d, seq, p, m, j) + half, PairTurned(2, src, offset, half, sHead, sSeq, p, m, j)>>
      BY <1>1, <1>4, <2>6, Zenon DEF TurnWrite
    <3>5. w \in pair
      BY <2>4, <3>2, <3>4, Zenon
    <3>6. QED
      BY <3>3, <3>5, Zenon
  <2>8. ThreadTurns(t, src, offset, heads, seq, d, half, sHead, sSeq) \subseteq writes
    BY <1>1, <2>5, Zenon DEF Turns
  <2>9. QED
    BY <2>7, <2>8, Zenon
<1>5. QED
  BY <1>3, <1>4, Zenon

\* What rope means at an index: the two halves of the first rotary numbers turn
\* about each other, the others stay.
TurnedAt(v, dims, idx, half) ==
  Rotated(IF idx[4] < half THEN 1 ELSE 2, RopeOffset + idx[3], idx[4] % half,
          ValueAt(v, dims, [idx EXCEPT ![4] = idx[4] % half]),
          ValueAt(v, dims, [idx EXCEPT ![4] = (idx[4] % half) + half]))
RopedAt(v, dims, idx, rotary, half) ==
  IF idx[4] < rotary THEN TurnedAt(v, dims, idx, half) ELSE ValueAt(v, dims, idx)
Roped(w, v, dims, rotary, half) ==
  w = [k \in 1..Product(dims) |-> RopedAt(v, dims, Unflatten(dims, k - 1), rotary, half)]

\* An operand the kernel can read: its heads follow one another across entries.
RopeInput(t, v, rotary, half) ==
  /\ Holds(t, v) /\ FourAxes(t)
  /\ t.dims[1] > 1 => t.strides[1] = t.dims[2] * t.strides[2]
  /\ half \in Nat /\ half > 0 /\ rotary = 2 * half /\ rotary <= t.dims[4]

\* Number i at (e, g, p), with m its entry and head.
PairAt(t, v, rotary, half, j, p, e, g, i, idx, m) ==
  /\ RopeInput(t, v, rotary, half) /\ Turn(j, p, e, g, half, t.dims)
  /\ i \in Nat /\ i < t.dims[4]
  /\ idx = <<e, g, p, i>> /\ m = e * t.dims[2] + g

\* Where it is and what it is.
LEMMA TurnReads ==
  ASSUME NEW t, NEW v, NEW rotary, NEW half, NEW j, NEW p, NEW e, NEW g, NEW i, NEW idx, NEW m,
         PairAt(t, v, rotary, half, j, p, e, g, i, idx, m)
  PROVE  /\ FourOf(idx, t.dims, e, g, p, i)
         /\ Place(t.dims[4], t.dims[3], p, m, i) = Flatten(t.dims, idx)
         /\ Read(t.store, From(t.strides[2], t.strides[3], p, m, i)) = ValueAt(v, t.dims, idx)
<1>0. /\ RopeInput(t, v, rotary, half) /\ Turn(j, p, e, g, half, t.dims)
      /\ i \in Nat /\ i < t.dims[4]
      /\ idx = <<e, g, p, i>> /\ m = e * t.dims[2] + g
  BY Zenon DEF PairAt
<1>1. /\ Holds(t, v) /\ FourAxes(t)
      /\ t.dims[1] > 1 => t.strides[1] = t.dims[2] * t.strides[2]
  BY <1>0 DEF RopeInput
<1>2. /\ j \in Nat /\ p \in Nat /\ e \in Nat /\ g \in Nat
      /\ p < t.dims[3] /\ e < t.dims[1] /\ g < t.dims[2]
  BY <1>0 DEF Turn
<1>3. t.dims \in Seq(Nat) /\ Len(t.dims) = 4
  BY <1>1 DEF Holds, WellFormed, FourAxes
<1>4. PICK b \in Nat, h \in Nat, l \in Nat, d \in Nat :
        b = t.dims[1] /\ h = t.dims[2] /\ l = t.dims[3] /\ d = t.dims[4]
  BY <1>3, FourBlocks
<1>5. FourOf(idx, t.dims, e, g, p, i)
  BY <1>0, <1>2, <1>3 DEF FourOf
<1>6. /\ idx \in Indices(t.dims) /\ idx[1] = e /\ idx[2] = g /\ idx[3] = p /\ idx[4] = i
      /\ Flatten(t.dims, idx) = e * (h * (l * d)) + g * (l * d) + p * d + i
  <2>1. idx \in Indices(t.dims) /\ idx[1] = e /\ idx[2] = g /\ idx[3] = p /\ idx[4] = i
    BY <1>5, FlattenFour
  <2>2. Flatten(t.dims, idx) = e * (t.dims[2] * (t.dims[3] * t.dims[4])) + g * (t.dims[3] * t.dims[4])
                                 + p * t.dims[4] + i
    BY <1>5, FlattenFour
  <2>3. QED
    BY <1>4, <2>1, <2>2, Zenon
<1>7. Place(t.dims[4], t.dims[3], p, m, i) = Flatten(t.dims, idx)
  <2>1. Place(t.dims[4], t.dims[3], p, m, i) = p * d + (e * h + g) * l * d + i
    BY <1>0, <1>4, Zenon DEF Place
  <2>2. e \in Nat /\ g \in Nat /\ p \in Nat
    BY <1>2
  <2>3. (e * h + g) * l * d = e * (h * (l * d)) + g * (l * d)
    BY ONLY <2>2, h \in Nat, l \in Nat, d \in Nat
  <2>4. PICK p1 \in Nat, p2 \in Nat, p3 \in Nat :
          p1 = e * (h * (l * d)) /\ p2 = g * (l * d) /\ p3 = p * d
    BY <2>2
  <2>5. p * d + (e * h + g) * l * d + i = e * (h * (l * d)) + g * (l * d) + p * d + i
    BY <1>0, <2>3, <2>4
  <2>6. QED
    BY <1>6, <2>1, <2>5, Zenon
<1>8. PICK s1 \in Nat, s2 \in Nat, s3 \in Nat : s1 = t.strides[1] /\ s2 = t.strides[2] /\ s3 = t.strides[3]
  BY <1>1, <1>6, FourRead
<1>9. Read(t.store, e * s1 + g * s2 + p * s3 + i) = ValueAt(v, t.dims, idx)
  <2>1. Read(t.store, idx[1] * t.strides[1] + idx[2] * t.strides[2] + idx[3] * t.strides[3] + idx[4])
          = ValueAt(v, t.dims, idx)
    BY <1>1, <1>6, FourRead
  <2>2. QED
    BY <1>6, <1>8, <2>1, Zenon
<1>10. e * s1 = e * (h * s2)
  <2>1. CASE b > 1
    BY <1>1, <1>4, <1>8, <2>1, Zenon
  <2>2. CASE ~(b > 1)
    <3>1. e = 0
      BY <1>2, <1>4, <2>2
    <3>2. QED
      BY <3>1
  <2>3. QED
    BY <2>1, <2>2
<1>11. From(t.strides[2], t.strides[3], p, m, i) = e * s1 + g * s2 + p * s3 + i
  <2>1. From(t.strides[2], t.strides[3], p, m, i) = p * s3 + (e * h + g) * s2 + i
    BY <1>0, <1>4, <1>8, Zenon DEF From
  <2>2. e \in Nat /\ g \in Nat /\ p \in Nat
    BY <1>2
  <2>3. (e * h + g) * s2 = e * (h * s2) + g * s2
    BY ONLY <2>2, h \in Nat, s2 \in Nat
  <2>4. PICK p1 \in Nat, p2 \in Nat, p3 \in Nat : p1 = e * (h * s2) /\ p2 = g * s2 /\ p3 = p * s3
    BY <2>2
  <2>5. p * s3 + (e * h + g) * s2 + i = e * s1 + g * s2 + p * s3 + i
    BY <1>0, <1>10, <2>3, <2>4
  <2>6. QED
    BY <2>1, <2>5, Zenon
<1>12. QED
  BY <1>5, <1>7, <1>9, <1>11, Zenon

\* What rope means at a given index.
LEMMA RopedIs ==
  ASSUME NEW w, NEW v, NEW dims \in Seq(Nat), NEW rotary, NEW half, Roped(w, v, dims, rotary, half),
         NEW idx \in Indices(dims)
  PROVE  /\ Flatten(dims, idx) \in 0..(Product(dims) - 1)
         /\ w[Flatten(dims, idx) + 1] = RopedAt(v, dims, idx, rotary, half)
<1>1. PICK k \in 1..Product(dims) : Flatten(dims, idx) + 1 = k /\ Unflatten(dims, k - 1) = idx
  BY TabulatedAt
<1>2. w[k] = RopedAt(v, dims, idx, rotary, half)
  BY <1>1, Zenon DEF Roped
<1>3. Flatten(dims, idx) \in 0..(Product(dims) - 1)
  <2>1. Flatten(dims, idx) \in Nat /\ Flatten(dims, idx) < Product(dims)
    BY FlattenBelow
  <2>2. Product(dims) \in Nat
    BY BlockFacts
  <2>3. QED
    BY <2>1, <2>2
<1>4. QED
  BY <1>1, <1>2, <1>3, Zenon

\* Numbers j and j + half of a vector.
Pairing(one, two, e, g, p, j, half, rotary) ==
  /\ half \in Nat /\ j \in Nat /\ j < half /\ rotary = 2 * half
  /\ one = <<e, g, p, j>> /\ two = <<e, g, p, j + half>>

\* What rope means at both.
TurnsPair(v, dims, one, two, p, j, half, rotary) ==
  /\ RopedAt(v, dims, one, rotary, half)
       = Rotated(1, RopeOffset + p, j, ValueAt(v, dims, one), ValueAt(v, dims, two))
  /\ RopedAt(v, dims, two, rotary, half)
       = Rotated(2, RopeOffset + p, j, ValueAt(v, dims, one), ValueAt(v, dims, two))

\* They turn about each other.
LEMMA TurnedPair ==
  ASSUME NEW v, NEW dims, NEW one, NEW two, NEW e, NEW g, NEW p, NEW j, NEW half, NEW rotary,
         Pairing(one, two, e, g, p, j, half, rotary)
  PROVE  TurnsPair(v, dims, one, two, p, j, half, rotary)
<1>1. /\ half \in Nat /\ j \in Nat /\ j < half /\ rotary = 2 * half
      /\ one = <<e, g, p, j>> /\ two = <<e, g, p, j + half>>
  BY Zenon DEF Pairing
<1>2. PICK h \in Nat, i \in Nat, c \in Nat : h = half /\ i = j /\ c = j + half
  BY <1>1
<1>3. one = <<e, g, p, i>> /\ two = <<e, g, p, c>>
  BY <1>1, <1>2, Zenon
<1>4. one[4] = i /\ one[3] = p /\ two[4] = c /\ two[3] = p
  BY ONLY <1>3
<1>5. i % h = i /\ c % h = i
  <2>1. i = 0 * h + i /\ c = 1 * h + i /\ i < h
    BY <1>1, <1>2
  <2>2. i % h = i
    BY <2>1, DivUnique
  <2>3. c % h = i
    BY <2>1, DivUnique
  <2>4. QED
    BY <2>2, <2>3
<1>6. i < rotary /\ c < rotary /\ i < h /\ ~(c < h) /\ i + h = c
  BY <1>1, <1>2
<1>7. /\ [one EXCEPT ![4] = i] = one /\ [one EXCEPT ![4] = c] = two
      /\ [two EXCEPT ![4] = i] = one /\ [two EXCEPT ![4] = c] = two
  <2>1. [one EXCEPT ![4] = i] = one
    BY ONLY <1>3
  <2>2. [one EXCEPT ![4] = c] = two
    BY ONLY <1>3
  <2>3. [two EXCEPT ![4] = i] = one
    BY ONLY <1>3
  <2>4. [two EXCEPT ![4] = c] = two
    BY ONLY <1>3
  <2>5. QED
    BY <2>1, <2>2, <2>3, <2>4, Zenon
<1>8. RopedAt(v, dims, one, rotary, h)
        = Rotated(1, RopeOffset + p, i, ValueAt(v, dims, one), ValueAt(v, dims, two))
  BY <1>4, <1>5, <1>6, <1>7, Zenon DEF RopedAt, TurnedAt
<1>9. RopedAt(v, dims, two, rotary, h)
        = Rotated(2, RopeOffset + p, i, ValueAt(v, dims, one), ValueAt(v, dims, two))
  BY <1>4, <1>5, <1>6, <1>7, Zenon DEF RopedAt, TurnedAt
<1>10. QED
  BY <1>2, <1>8, <1>9, Zenon DEF TurnsPair

\* pair is a write of the kernel over operand t.
TurnOf(t, v, w, rotary, half, pair, j, p, e, g) ==
  /\ RopeInput(t, v, rotary, half) /\ Roped(w, v, t.dims, rotary, half)
  /\ TurnWrite(pair, j, p, e, g, t.store, RopeOffset, half, t.strides[2], t.strides[3], t.dims)

\* Every write is what rope means at its place.
LEMMA TurnAgrees ==
  ASSUME NEW t, NEW v, NEW rotary, NEW half, NEW w, NEW pair, NEW j, NEW p, NEW e, NEW g,
         TurnOf(t, v, w, rotary, half, pair, j, p, e, g)
  PROVE  pair[1] \in 0..(Product(t.dims) - 1) /\ pair[2] = w[pair[1] + 1]
<1>19. /\ RopeInput(t, v, rotary, half) /\ Roped(w, v, t.dims, rotary, half)
       /\ TurnWrite(pair, j, p, e, g, t.store, RopeOffset, half, t.strides[2], t.strides[3], t.dims)
  BY Zenon DEF TurnOf
<1>1. PICK dims \in Seq(Nat) : dims = t.dims
  BY <1>19 DEF RopeInput, Holds, WellFormed
<1>2. Turn(j, p, e, g, half, t.dims) /\ half \in Nat /\ rotary = 2 * half /\ rotary <= t.dims[4]
  BY <1>19 DEF TurnWrite, RopeInput
<1>3. j \in Nat /\ j < half
  BY <1>2 DEF Turn
<1>4. PICK c \in Nat : c = j + half
  BY <1>2, <1>3
<1>5. j < t.dims[4] /\ c < t.dims[4]
  <2>1. t.dims[4] \in Nat
    BY <1>1, <1>19, FourBlocks DEF RopeInput, FourAxes
  <2>2. QED
    BY <1>2, <1>3, <1>4, <2>1
<1>0. PICK e1 \in Nat, g1 \in Nat, p1 \in Nat, h1 \in Nat, l1 \in Nat, d1 \in Nat :
        /\ e1 = e /\ g1 = g /\ p1 = p
        /\ h1 = t.dims[2] /\ l1 = t.dims[3] /\ d1 = t.dims[4]
  <2>1. e \in Nat /\ g \in Nat /\ p \in Nat
    BY <1>2, Zenon DEF Turn
  <2>2. dims[2] \in Nat /\ dims[3] \in Nat /\ dims[4] \in Nat
    <3>1. Len(dims) = 4
      BY <1>1, <1>19 DEF RopeInput, FourAxes
    <3>2. QED
      BY <3>1, FourBlocks
  <2>3. QED
    BY <1>1, <2>1, <2>2, Zenon
<1>6. PICK one, two, m : one = <<e, g, p, j>> /\ two = <<e, g, p, c>> /\ m = e * t.dims[2] + g
  OBVIOUS
<1>7. /\ FourOf(one, t.dims, e, g, p, j)
      /\ Place(t.dims[4], t.dims[3], p, m, j) = Flatten(t.dims, one)
      /\ Read(t.store, From(t.strides[2], t.strides[3], p, m, j)) = ValueAt(v, t.dims, one)
  <2>1. PairAt(t, v, rotary, half, j, p, e, g, j, one, m)
    BY <1>2, <1>3, <1>5, <1>6, <1>19, Zenon DEF PairAt
  <2>2. QED
    BY <2>1, TurnReads
<1>8. /\ FourOf(two, t.dims, e, g, p, c)
      /\ Place(t.dims[4], t.dims[3], p, m, c) = Flatten(t.dims, two)
      /\ Read(t.store, From(t.strides[2], t.strides[3], p, m, c)) = ValueAt(v, t.dims, two)
  <2>1. PairAt(t, v, rotary, half, j, p, e, g, c, two, m)
    BY <1>2, <1>4, <1>5, <1>6, <1>19, Zenon DEF PairAt
  <2>2. QED
    BY <2>1, TurnReads
<1>9. one \in Indices(t.dims) /\ two \in Indices(t.dims)
  <2>1. one \in Indices(t.dims)
    BY <1>7, FlattenFour
  <2>2. two \in Indices(t.dims)
    BY <1>8, FlattenFour
  <2>3. QED
    BY <2>1, <2>2
<1>10. /\ Flatten(t.dims, one) \in 0..(Product(t.dims) - 1) /\ Flatten(t.dims, two) \in 0..(Product(t.dims) - 1)
       /\ w[Flatten(t.dims, one) + 1] = RopedAt(v, t.dims, one, rotary, half)
       /\ w[Flatten(t.dims, two) + 1] = RopedAt(v, t.dims, two, rotary, half)
  <2>1. Roped(w, v, dims, rotary, half) /\ one \in Indices(dims) /\ two \in Indices(dims)
    BY <1>1, <1>9, <1>19, Zenon
  <2>2. /\ Flatten(dims, one) \in 0..(Product(dims) - 1)
        /\ w[Flatten(dims, one) + 1] = RopedAt(v, dims, one, rotary, half)
    BY <2>1, RopedIs
  <2>3. /\ Flatten(dims, two) \in 0..(Product(dims) - 1)
        /\ w[Flatten(dims, two) + 1] = RopedAt(v, dims, two, rotary, half)
    BY <2>1, RopedIs
  <2>4. QED
    BY <1>1, <2>2, <2>3, Zenon
<1>11. PICK va, vb : va = ValueAt(v, t.dims, one) /\ vb = ValueAt(v, t.dims, two)
  OBVIOUS
<1>12. /\ RopedAt(v, t.dims, one, rotary, half) = Rotated(1, RopeOffset + p, j, va, vb)
       /\ RopedAt(v, t.dims, two, rotary, half) = Rotated(2, RopeOffset + p, j, va, vb)
  <2>1. Pairing(one, two, e, g, p, j, half, rotary)
    BY <1>2, <1>3, <1>4, <1>6, Zenon DEF Pairing
  <2>2. TurnsPair(v, t.dims, one, two, p, j, half, rotary)
    BY <2>1, TurnedPair
  <2>3. QED
    BY <1>11, <2>2, Zenon DEF TurnsPair
<1>13. \A h : PairTurned(h, t.store, RopeOffset, half, t.strides[2], t.strides[3], p, m, j)
                = Rotated(h, RopeOffset + p, j, va, vb)
  <2>1. From(t.strides[2], t.strides[3], p, m, j) + half = From(t.strides[2], t.strides[3], p, m, c)
    <3>0. PICK s2 \in Nat, s3 \in Nat : s2 = t.strides[2] /\ s3 = t.strides[3]
      <4>1. Holds(t, v) /\ FourAxes(t)
        BY <1>19 DEF RopeInput
      <4>2. QED
        BY <1>9, <4>1, FourRead
    <3>1. PICK f1 \in Nat, f2 \in Nat : f1 = p * t.strides[3] /\ f2 = m * t.strides[2]
      <4>1. p1 * s3 \in Nat /\ (e1 * h1 + g1) * s2 \in Nat
        BY ONLY p1 \in Nat, s3 \in Nat, e1 \in Nat, h1 \in Nat, g1 \in Nat, s2 \in Nat
      <4>2. QED
        BY <1>0, <1>6, <3>0, <4>1, Zenon
    <3>3. f1 + f2 + j + half = f1 + f2 + c
      BY <1>2, <1>3, <1>4
    <3>4. QED
      BY <3>1, <3>3, Zenon DEF From
  <2>2. QED
    BY <1>7, <1>8, <1>11, <2>1, Zenon DEF PairTurned
<1>14. Place(t.dims[4], t.dims[3], p, m, j) + half = Flatten(t.dims, two)
  <2>1. PICK q1 \in Nat, q2 \in Nat : q1 = p * t.dims[4] /\ q2 = m * t.dims[3] * t.dims[4]
    <3>1. p1 * d1 \in Nat /\ (e1 * h1 + g1) * l1 * d1 \in Nat
      BY ONLY p1 \in Nat, d1 \in Nat, e1 \in Nat, h1 \in Nat, g1 \in Nat, l1 \in Nat
    <3>2. QED
      BY <1>0, <1>6, <3>1, Zenon
  <2>3. q1 + q2 + j + half = q1 + q2 + c
    BY <1>2, <1>3, <1>4
  <2>4. QED
    BY <1>8, <2>1, <2>3, Zenon DEF Place
<1>15. \/ pair = <<Flatten(t.dims, one), Rotated(1, RopeOffset + p, j, va, vb)>>
       \/ pair = <<Flatten(t.dims, two), Rotated(2, RopeOffset + p, j, va, vb)>>
  BY <1>6, <1>7, <1>13, <1>14, <1>19, Zenon DEF TurnWrite
<1>16. CASE pair = <<Flatten(t.dims, one), Rotated(1, RopeOffset + p, j, va, vb)>>
  <2>1. pair[1] = Flatten(t.dims, one) /\ pair[2] = Rotated(1, RopeOffset + p, j, va, vb)
    BY <1>16
  <2>2. QED
    BY <1>10, <1>12, <2>1, Zenon
<1>17. CASE pair = <<Flatten(t.dims, two), Rotated(2, RopeOffset + p, j, va, vb)>>
  <2>1. pair[1] = Flatten(t.dims, two) /\ pair[2] = Rotated(2, RopeOffset + p, j, va, vb)
    BY <1>17
  <2>2. QED
    BY <1>10, <1>12, <2>1, Zenon
<1>18. QED
  BY <1>15, <1>16, <1>17

\* Number i of idx is one of a pair that some thread writes.
Turning(t, idx, j, p, e, g, rotary, half, pair) ==
  /\ TurnWrite(pair, j, p, e, g, t.store, RopeOffset, half, t.strides[2], t.strides[3], t.dims)
  /\ pair[1] = Flatten(t.dims, idx)

\* Every number that turns is written.
LEMMA TurnHits ==
  ASSUME NEW t, NEW v, NEW rotary, NEW half, RopeInput(t, v, rotary, half),
         NEW idx \in Indices(t.dims), idx[4] < rotary
  PROVE  \E j, p, e, g, pair : Turning(t, idx, j, p, e, g, rotary, half, pair)
<1>1. /\ t.dims \in Seq(Nat) /\ Len(t.dims) = 4
      /\ half \in Nat /\ half > 0 /\ rotary = 2 * half /\ rotary <= t.dims[4]
  BY DEF RopeInput, Holds, WellFormed, FourAxes
<1>2. idx \in [1..4 -> Nat] /\ \A a \in 1..4 : idx[a] < t.dims[a]
  BY <1>1 DEF Indices
<1>3. PICK h \in Nat, l \in Nat, d \in Nat : h = t.dims[2] /\ l = t.dims[3] /\ d = t.dims[4]
  BY <1>1, FourBlocks
<1>4. PICK e \in Nat, g \in Nat, p \in Nat, i \in Nat :
        /\ e = idx[1] /\ g = idx[2] /\ p = idx[3] /\ i = idx[4] /\ idx = <<e, g, p, i>>
        /\ e < t.dims[1] /\ g < t.dims[2] /\ p < t.dims[3] /\ i < t.dims[4] /\ i < rotary
  BY <1>2
<1>5. PICK m \in Nat : m = e * t.dims[2] + g
  <2>1. e * h + g \in Nat
    BY ONLY e \in Nat, h \in Nat, g \in Nat
  <2>2. QED
    BY <1>3, <2>1
<1>6. ASSUME NEW j, Turn(j, p, e, g, half, t.dims)
      PROVE  Place(t.dims[4], t.dims[3], p, m, i) = Flatten(t.dims, idx)
  <2>1. PairAt(t, v, rotary, half, j, p, e, g, i, idx, m)
    BY <1>4, <1>5, <1>6, Zenon DEF PairAt
  <2>2. QED
    BY <2>1, TurnReads
<1>7. CASE i < half
  <2>1. Turn(i, p, e, g, half, t.dims)
    BY <1>4, <1>7 DEF Turn
  <2>2. PICK pair : pair = <<Place(t.dims[4], t.dims[3], p, m, i),
                             PairTurned(1, t.store, RopeOffset, half, t.strides[2], t.strides[3], p, m, i)>>
    OBVIOUS
  <2>3. pair[1] = Flatten(t.dims, idx)
    BY <1>6, <2>1, <2>2
  <2>4. TurnWrite(pair, i, p, e, g, t.store, RopeOffset, half, t.strides[2], t.strides[3], t.dims)
    BY <1>5, <2>1, <2>2, Zenon DEF TurnWrite
  <2>5. Turning(t, idx, i, p, e, g, rotary, half, pair)
    BY <2>3, <2>4, Zenon DEF Turning
  <2>6. QED
    BY <2>5, Zenon
<1>8. CASE ~(i < half)
  <2>0. PICK j \in Nat : i = j + half /\ j < half
    <3>1. half \in Nat /\ i < 2 * half /\ ~(i < half)
      BY <1>1, <1>4, <1>8
    <3>2. i - half \in Nat /\ i = (i - half) + half /\ i - half < half
      BY ONLY <3>1, i \in Nat
    <3>3. QED
      BY ONLY <3>2
  <2>1. Turn(j, p, e, g, half, t.dims)
    BY <1>4, <2>0 DEF Turn
  <2>2. PICK pair :
          pair = <<Place(t.dims[4], t.dims[3], p, m, j) + half,
                   PairTurned(2, t.store, RopeOffset, half, t.strides[2], t.strides[3], p, m, j)>>
    OBVIOUS
  <2>3. Place(t.dims[4], t.dims[3], p, m, j) + half = Place(t.dims[4], t.dims[3], p, m, i)
    <3>1. PICK q1 \in Nat, q2 \in Nat : q1 = p * t.dims[4] /\ q2 = m * t.dims[3] * t.dims[4]
      <4>1. p * d \in Nat /\ m * l * d \in Nat
        BY ONLY p \in Nat, d \in Nat, m \in Nat, l \in Nat
      <4>2. QED
        BY <1>3, <4>1, Zenon
    <3>2. q1 + q2 + j + half = q1 + q2 + i
      BY <1>1, <2>0
    <3>3. QED
      BY <3>1, <3>2, Zenon DEF Place
  <2>4. pair[1] = Flatten(t.dims, idx)
    <3>1. pair[1] = Place(t.dims[4], t.dims[3], p, m, j) + half
      BY <2>2
    <3>2. QED
      BY <1>6, <2>1, <2>3, <3>1, Zenon
  <2>5. TurnWrite(pair, j, p, e, g, t.store, RopeOffset, half, t.strides[2], t.strides[3], t.dims)
    BY <1>5, <2>1, <2>2, Zenon DEF TurnWrite
  <2>6. Turning(t, idx, j, p, e, g, rotary, half, pair)
    BY <2>4, <2>5, Zenon DEF Turning
  <2>7. QED
    BY <2>6, Zenon
<1>9. QED
  BY <1>7, <1>8

\* A run of the rope kernel, over a destination that already holds what stays.
RopeRun(t, v, w, buf, rotary, half, got) ==
  /\ RopeInput(t, v, rotary, half) /\ Roped(w, v, t.dims, rotary, half)
  /\ buf \in [1..Product(t.dims) -> Value] /\ (rotary = t.dims[4] \/ buf = v)
  /\ got = EncodeRope(t.store, buf, RopeOffset, t.dims[1], t.dims[2], t.dims[3], t.dims[4], rotary,
                      t.strides[2], t.strides[3])
  /\ got # Refused

\* It computes what rope means.
LEMMA RopeComputes ==
  ASSUME NEW t, NEW v, NEW w, NEW buf, NEW rotary, NEW half, NEW got,
         RopeRun(t, v, w, buf, rotary, half, got)
  PROVE  got = w
<1>1. /\ RopeInput(t, v, rotary, half) /\ Roped(w, v, t.dims, rotary, half)
      /\ buf \in [1..Product(t.dims) -> Value] /\ (rotary = t.dims[4] \/ buf = v)
      /\ got = EncodeRope(t.store, buf, RopeOffset, t.dims[1], t.dims[2], t.dims[3], t.dims[4], rotary,
                      t.strides[2], t.strides[3])
      /\ got # Refused
  BY Zenon DEF RopeRun
<1>2. PICK dims \in Seq(Nat) : dims = t.dims /\ Len(dims) = 4
  BY <1>1 DEF RopeInput, Holds, WellFormed, FourAxes
<1>3. half \in Nat /\ half > 0 /\ rotary = 2 * half /\ rotary <= dims[4]
  BY <1>1, <1>2 DEF RopeInput
<1>4. rotary \div 2 = half
  BY <1>3
<1>5. PICK P \in Nat : P = Product(dims)
  BY <1>2, BlockFacts
<1>6. v \in [1..P -> Value]
  BY <1>1, <1>2, <1>5 DEF RopeInput, Holds
<1>7. PICK writes : writes = Turns(t.store, RopeOffset, dims[1], dims[2], dims[3], dims[4], half,
                                   t.strides[2], t.strides[3])
  OBVIOUS
<1>8. got = Written(buf, writes) /\ dims[2] # 0
  <2>1. PICK a, b, c, e, s1, s2 : /\ a = dims[1] /\ b = dims[2] /\ c = dims[3] /\ e = dims[4]
                                 /\ s1 = t.strides[2] /\ s2 = t.strides[3]
    OBVIOUS
  <2>2. got = EncodeRope(t.store, buf, RopeOffset, a, b, c, e, rotary, s1, s2) /\ got # Refused
    BY <1>1, <1>2, <2>1, Zenon
  <2>3. /\ b # 0
        /\ got = Written(buf, Turns(t.store, RopeOffset, a, b, c, e, rotary \div 2, s1, s2))
    BY <2>2, RopeWrites
  <2>4. QED
    BY <1>4, <1>7, <2>1, <2>3, Zenon
<1>9. dims[2] > 0
  BY <1>2, <1>8, FourBlocks
<1>10. \A pair : pair \in writes <=>
         \E j, p, e, g : TurnWrite(pair, j, p, e, g, t.store, RopeOffset, half, t.strides[2], t.strides[3], dims)
  <2>1. PICK s1, s2 : s1 = t.strides[2] /\ s2 = t.strides[3]
    OBVIOUS
  <2>2. writes = Turns(t.store, RopeOffset, dims[1], dims[2], dims[3], dims[4], half, s1, s2)
    BY <1>7, <2>1, Zenon
  <2>3. \A pair : pair \in writes <=>
          \E j, p, e, g : TurnWrite(pair, j, p, e, g, t.store, RopeOffset, half, s1, s2, dims)
    BY <1>2, <1>3, <1>9, <2>2, TurnsAre, SMTT(40)
  <2>4. QED
    BY <2>1, <2>3, Zenon
<1>11. Agree(writes, P, w)
  <2>1. ASSUME NEW pair \in writes
        PROVE  pair[1] \in 0..(P - 1) /\ pair[2] = w[pair[1] + 1]
    <3>1. PICK j, p, e, g :
            TurnWrite(pair, j, p, e, g, t.store, RopeOffset, half, t.strides[2], t.strides[3], t.dims)
      BY <1>2, <1>10, <2>1, Zenon
    <3>2. pair[1] \in 0..(Product(t.dims) - 1) /\ pair[2] = w[pair[1] + 1]
      <4>1. TurnOf(t, v, w, rotary, half, pair, j, p, e, g)
        BY <1>1, <3>1, Zenon DEF TurnOf
      <4>2. QED
        BY <4>1, TurnAgrees
    <3>3. QED
      BY <1>2, <1>5, <3>2, Zenon
  <2>2. QED
    BY <2>1, Zenon DEF Agree
<1>12. w = [k \in 1..P |-> RopedAt(v, dims, Unflatten(dims, k - 1), rotary, half)]
  BY <1>1, <1>2, <1>5, Zenon DEF Roped
<1>13. PICK S : S = Value \cup {w[k] : k \in 1..P}
  OBVIOUS
<1>14. Merge(buf, w, writes, P, S)
  <2>1. buf \in [1..P -> S]
    BY <1>1, <1>2, <1>5, <1>13
  <2>2. w \in [1..P -> S]
    <3>1. DOMAIN w = 1..P /\ w = [k \in 1..P |-> w[k]]
      BY <1>12
    <3>2. \A k \in 1..P : w[k] \in S
      BY <1>13
    <3>3. QED
      BY <3>1, <3>2
  <2>3. QED
    BY <1>11, <2>1, <2>2, Zenon DEF Merge
<1>15. ASSUME NEW k \in 1..P, ~Hit(writes, k)
       PROVE  buf[k] = w[k]
  <2>1. PICK z \in 0..(P - 1) : z = k - 1 /\ z + 1 = k
    OBVIOUS
  <2>2. PICK idx : idx = Unflatten(dims, z)
    OBVIOUS
  <2>3. idx \in Indices(dims)
    BY <1>5, <2>2, UnflattenType
  <2>4. Flatten(dims, idx) = z
    BY <1>5, <2>2, FlattenUnflatten
  <2>5. ~(idx[4] < rotary)
    <3>1. SUFFICES ASSUME idx[4] < rotary PROVE FALSE
      OBVIOUS
    <3>2. idx \in Indices(t.dims)
      BY <1>2, <2>3, Zenon
    <3>3. PICK j, p, e, g, pair : Turning(t, idx, j, p, e, g, rotary, half, pair)
      BY <1>1, <3>1, <3>2, TurnHits
    <3>4. pair \in writes /\ pair[1] = z
      BY <1>2, <1>10, <2>4, <3>3, Zenon DEF Turning
    <3>5. Hit(writes, k)
      BY <2>1, <3>4 DEF Hit
    <3>6. QED
      BY <1>15, <3>5
  <2>6. w[k] = RopedAt(v, dims, idx, rotary, half)
    BY <1>12, <2>1, <2>2
  <2>7. w[k] = v[k]
    BY <2>1, <2>4, <2>5, <2>6, Zenon DEF RopedAt, ValueAt
  <2>8. buf = v
    <3>1. idx[4] \in Nat /\ idx[4] < dims[4]
      BY <1>2, <2>3 DEF Indices
    <3>2. rotary # dims[4]
      BY <2>5, <3>1
    <3>3. QED
      BY <1>1, <1>2, <3>2, Zenon
  <2>9. QED
    BY <2>7, <2>8
<1>16. Written(buf, writes) = w
  BY <1>14, <1>15, WrittenOver
<1>17. QED
  BY <1>8, <1>16, Zenon

\* A tensor read as a view of itself.
LEMMA SelfView ==
  ASSUME NEW t, NEW v, Holds(t, v)
  PROVE  Holds(View(t, t.off, t.dims, t.strides), v)
<1>0. PICK dims \in Seq(Nat), off \in Nat : dims = t.dims /\ off = t.off
  BY DEF Holds, WellFormed
<1>1. PICK strides \in [1..Len(dims) -> Nat] : dims = t.dims /\ off = t.off /\ strides = t.strides
  BY <1>0 DEF Holds, WellFormed
<1>2. ASSUME NEW idx \in Indices(dims)
      PROVE  \E old \in Indices(t.dims) :
               /\ off + Total(Steps(idx, strides)) = Address(t, old)
               /\ v[Flatten(dims, idx) + 1] = v[Flatten(t.dims, old) + 1]
  <2>1. idx \in Indices(t.dims)
    BY <1>1, Zenon
  <2>2. off + Total(Steps(idx, strides)) = Address(t, idx)
    BY <1>1, Zenon DEF Address, Steps
  <2>3. QED
    BY <1>1, <2>1, <2>2, Zenon
<1>3. PointsInto(t, v, off, dims, strides, v)
  BY <1>2, Zenon DEF PointsInto
<1>4. Lists(v, dims)
  BY <1>1 DEF Lists, Holds
<1>5. Holds(View(t, off, dims, strides), v)
  BY <1>3, <1>4, ViewHolds
<1>6. QED
  BY <1>1, <1>5, Zenon

\* The copy a partial rotation starts from.
LEMMA RopeCopies ==
  ASSUME NEW t, NEW v, Holds(t, v), t.dims # <<>>
  PROVE  DispatchCopy([t EXCEPT !.view = TRUE]) = v
<1>1. PICK d, s, o, w, ty, l, b : t = Strided(d, s, o, w, ty, l, b)
  BY DEF Holds, WellFormed
<1>2. PICK f, g : f = [t EXCEPT !.view = TRUE] /\ g = View(t, t.off, t.dims, t.strides)
  OBVIOUS
<1>3. f.view /\ f.dims = t.dims /\ f.strides = t.strides /\ f.off = t.off /\ f.store = t.store
  BY <1>1, <1>2 DEF Strided
<1>4. g.view /\ g.dims = t.dims /\ g.strides = t.strides /\ g.off = t.off /\ g.store = t.store
  BY <1>1, <1>2 DEF Strided, View
<1>5. DispatchCopy(f) = DispatchCopy(g)
  BY <1>3, <1>4, Zenon DEF DispatchCopy, Storage
<1>6. Holds(g, v)
  BY <1>2, SelfView
<1>7. g.dims # <<>>
  BY <1>4
<1>8. DispatchCopy(g) = v
  BY <1>6, <1>7, CopyComputes
<1>9. QED
  BY <1>2, <1>5, <1>8, Zenon

\* What rope denotes at an index of its operand.
SaidTurned(idx, half) ==
  Rotated(IF idx[4] < half THEN 1 ELSE 2, RopeOffset + idx[3], idx[4] % half,
          Says("x", [idx EXCEPT ![4] = idx[4] % half]),
          Says("x", [idx EXCEPT ![4] = (idx[4] % half) + half]))
SaidRoped(idx, rotary, half) ==
  IF idx[4] < rotary THEN SaidTurned(idx, half) ELSE Says("x", idx)

\* The dense copy of t as an operand of the kernel.
LEMMA DenseRope ==
  ASSUME NEW t, NEW v, Holds(t, v), Len(t.dims) = 4,
         NEW rotary, NEW half \in Nat, half > 0, rotary = 2 * half, rotary <= t.dims[4]
  PROVE  \E f : /\ RopeInput(f, v, rotary, half) /\ f.dims = t.dims /\ f.store = v
                /\ f.strides[2] = t.dims[3] * t.dims[4] /\ f.strides[3] = t.dims[4]
<1>1. PICK dims \in Seq(Nat) : dims = t.dims /\ Len(dims) = 4 /\ v \in [1..Product(dims) -> Value]
  BY DEF Holds, WellFormed
<1>2. PICK f : f = Dense(dims, t.dtype, v)
  OBVIOUS
<1>3. f.dims = dims /\ f.strides = Contiguous(dims) /\ f.off = 0 /\ f.store = v
  BY <1>2 DEF Dense
<1>4. Holds(f, v)
  BY <1>1, <1>2, DenseHolds
<1>5. \A a \in 1..4 : f.strides[a] = Block(dims, a)
  BY <1>1, <1>3, ContiguousFacts
<1>6. /\ f.strides[4] = 1 /\ f.strides[3] = dims[4] /\ f.strides[2] = dims[3] * dims[4]
      /\ f.strides[1] = dims[2] * (dims[3] * dims[4])
  <2>1. /\ Block(dims, 4) = 1 /\ Block(dims, 3) = dims[4]
        /\ Block(dims, 2) = dims[3] * dims[4] /\ Block(dims, 1) = dims[2] * (dims[3] * dims[4])
    BY <1>1, FourBlocks
  <2>2. 1 \in 1..4 /\ 2 \in 1..4 /\ 3 \in 1..4 /\ 4 \in 1..4
    OBVIOUS
  <2>3. QED
    BY <1>5, <2>1, <2>2, Zenon
<1>7. f.strides[1] = dims[2] * f.strides[2]
  BY <1>6, Zenon
<1>8. FourAxes(f)
  BY <1>1, <1>3, <1>6 DEF FourAxes
<1>9. RopeInput(f, v, rotary, half)
  BY <1>1, <1>3, <1>4, <1>7, <1>8, Zenon DEF RopeInput
<1>10. QED
  BY <1>1, <1>3, <1>6, <1>9, Zenon

\* rope.
LEMMA RopeCall ==
  ASSUME IInv, Rope
  PROVE  DispatchComputes'
<1>1. PICK rotary \in 1..4 :
        Call("rope", RopeAccepts(x, rotary),
             [k \in 1..Product(x.dims) |->
                IF Unflatten(x.dims, k - 1)[4] < rotary
                THEN Rotated(IF Unflatten(x.dims, k - 1)[4] < rotary \div 2 THEN 1 ELSE 2,
                             RopeOffset + Unflatten(x.dims, k - 1)[3],
                             Unflatten(x.dims, k - 1)[4] % (rotary \div 2),
                             Says("x", [Unflatten(x.dims, k - 1) EXCEPT
                                          ![4] = Unflatten(x.dims, k - 1)[4] % (rotary \div 2)]),
                             Says("x", [Unflatten(x.dims, k - 1) EXCEPT
                                          ![4] = (Unflatten(x.dims, k - 1)[4] % (rotary \div 2)) + (rotary \div 2)]))
                ELSE Says("x", Unflatten(x.dims, k - 1))],
             DispatchRope(x, RopeOffset, rotary))
  BY DEF Rope, Tabulate
<1>2. PICK half : half = rotary \div 2
  OBVIOUS
<1>3. PICK denoted, got :
        /\ denoted = [k \in 1..Product(x.dims) |-> SaidRoped(Unflatten(x.dims, k - 1), rotary, half)]
        /\ got = DispatchRope(x, RopeOffset, rotary)
  OBVIOUS
<1>4. PICK accepted : /\ accepted => RopeAccepts(x, rotary)
                      /\ Call("rope", accepted, denoted, got)
  BY <1>1, <1>2, <1>3, Zenon DEF SaidRoped, SaidTurned
<1>5. PICK t, v : t = x /\ t = arg["x"] /\ v = says["x"]
  BY DEF x
<1>6. "x" \in Arg
  BY DEF Arg
<1>7. Holds(t, v) /\ t.dims \in Seq(Nat) /\ \A idx : Says("x", idx) = ValueAt(v, t.dims, idx)
  BY <1>5, <1>6, OperandFacts
<1>8. Roped(denoted, v, t.dims, rotary, half)
  <2>1. \A idx : SaidRoped(idx, rotary, half) = RopedAt(v, t.dims, idx, rotary, half)
    <3>1. SUFFICES ASSUME NEW idx
                   PROVE  SaidRoped(idx, rotary, half) = RopedAt(v, t.dims, idx, rotary, half)
      OBVIOUS
    <3>2. PICK one, two : /\ one = [idx EXCEPT ![4] = idx[4] % half]
                          /\ two = [idx EXCEPT ![4] = (idx[4] % half) + half]
      OBVIOUS
    <3>3. PICK h : h = IF idx[4] < half THEN 1 ELSE 2
      OBVIOUS
    <3>4. SaidTurned(idx, half) = Rotated(h, RopeOffset + idx[3], idx[4] % half, Says("x", one), Says("x", two))
      BY <3>2, <3>3, Zenon DEF SaidTurned
    <3>5. TurnedAt(v, t.dims, idx, half)
            = Rotated(h, RopeOffset + idx[3], idx[4] % half, ValueAt(v, t.dims, one), ValueAt(v, t.dims, two))
      BY <3>2, <3>3, Zenon DEF TurnedAt
    <3>6. /\ Says("x", one) = ValueAt(v, t.dims, one) /\ Says("x", two) = ValueAt(v, t.dims, two)
          /\ Says("x", idx) = ValueAt(v, t.dims, idx)
      BY <1>7, Zenon
    <3>7. SaidTurned(idx, half) = TurnedAt(v, t.dims, idx, half)
      BY <3>4, <3>5, <3>6, Zenon
    <3>8. CASE idx[4] < rotary
      BY <3>7, <3>8, Zenon DEF SaidRoped, RopedAt
    <3>9. CASE ~(idx[4] < rotary)
      BY <3>6, <3>9, Zenon DEF SaidRoped, RopedAt
    <3>10. QED
      BY <3>8, <3>9
  <2>2. QED
    BY <1>3, <1>5, <2>1, Zenon DEF Roped
<1>9. ASSUME accepted, got # Refused PROVE got = denoted
  <2>1. RopeAccepts(t, rotary)
    BY <1>4, <1>5, <1>9, Zenon
  <2>2. /\ Len(t.dims) = 4 /\ t.off = 0 /\ t.strides[4] = 1
        /\ t.dims[1] > 1 => t.strides[1] = t.dims[2] * t.strides[2]
        /\ rotary \in 1..t.dims[4] /\ rotary % 2 = 0
    BY <2>1, Zenon DEF RopeAccepts, Rank
  <2>3. half \in Nat /\ half > 0 /\ rotary = 2 * half
    BY <1>1, <1>2, <2>2
  <2>4. PICK d4 \in Nat : d4 = t.dims[4]
    BY <1>7, <2>2, FourBlocks
  <2>5. rotary <= t.dims[4]
    BY <2>2, <2>4
  <2>6. t.dims # <<>>
    BY <2>2
  <2>7. CASE rotary < t.dims[4]
    <3>1. PICK dense : dense = DispatchCopy([t EXCEPT !.view = TRUE])
      OBVIOUS
    <3>2. dense = v
      BY <1>7, <2>6, <3>1, RopeCopies
    <3>3. PICK f : /\ RopeInput(f, v, rotary, half) /\ f.dims = t.dims /\ f.store = v
                   /\ f.strides[2] = t.dims[3] * t.dims[4] /\ f.strides[3] = t.dims[4]
      BY <1>7, <2>2, <2>3, <2>5, DenseRope
    <3>4. PICK e : e = EncodeRope(dense, dense, RopeOffset, t.dims[1], t.dims[2], t.dims[3], t.dims[4], rotary,
                                  t.dims[3] * t.dims[4], t.dims[4])
      OBVIOUS
    <3>5. got = Unless({dense}, e)
      BY <1>3, <1>5, <2>7, <3>1, <3>4, Zenon DEF DispatchRope
    <3>6. got = e
      BY <1>9, <3>5, Zenon DEF Unless
    <3>7. v \in [1..Product(f.dims) -> Value]
      BY <1>7, <3>3 DEF Holds
    <3>8. RopeRun(f, v, denoted, v, rotary, half, got)
      BY <1>8, <1>9, <3>2, <3>3, <3>4, <3>6, <3>7, Zenon DEF RopeRun
    <3>9. QED
      BY <3>8, RopeComputes
  <2>8. CASE ~(rotary < t.dims[4])
    <3>1. rotary = t.dims[4]
      BY <2>4, <2>5, <2>8
    <3>2. PICK e : e = EncodeRope(t.store, Out(t.dims), RopeOffset, t.dims[1], t.dims[2], t.dims[3], t.dims[4],
                                  rotary, t.strides[2], t.strides[3])
      OBVIOUS
    <3>3. got = Unless({FlatInput(t)}, e)
      BY <1>3, <1>5, <2>8, <3>2, Zenon DEF DispatchRope
    <3>4. got = e
      BY <1>9, <3>3, Zenon DEF Unless
    <3>5. RopeInput(t, v, rotary, half)
      BY <1>7, <2>2, <2>3, <2>5, Zenon DEF RopeInput, FourAxes
    <3>6. Out(t.dims) \in [1..Product(t.dims) -> Value]
      BY <1>7, OutFacts
    <3>7. RopeRun(t, v, denoted, Out(t.dims), rotary, half, got)
      BY <1>8, <1>9, <3>1, <3>2, <3>4, <3>5, <3>6, Zenon DEF RopeRun
    <3>8. QED
      BY <3>7, RopeComputes
  <2>9. QED
    BY <2>7, <2>8
<1>10. QED
  BY <1>4, <1>9, CallComputes

----------------------------------------------------------------------------
\* What every op computes.

\* The two ops that rely on what their callers hand them: a padded quantized
\* matmul on an activation that fills its storage, sdpa's decode path on a dense q.
CallersKnow == {"quantized_matmul", "sdpa"}

\* The other ops compute what they denote from whatever operands their builders
\* accept; these two do from the operands the models crate makes.
OpsCompute == CallersOnly \/ last.op \notin CallersKnow => DispatchComputes

\* A view, a copy or a cast in place of an operand computes nothing else.
LEMMA ViewsCompute ==
  ASSUME NEW a \in Arg,
         \/ ReshapeArg(a) \/ PermuteArg(a) \/ SliceArg(a) \/ BroadcastArg(a)
         \/ CopyArg(a) \/ CastArg(a)
  PROVE  DispatchComputes'
<1>1. \E t, values : Become(a, t, values)
  <2>1. CASE ReshapeArg(a)
    BY <2>1, Zenon DEF ReshapeArg
  <2>2. CASE PermuteArg(a)
    BY <2>2, Zenon DEF PermuteArg
  <2>3. CASE SliceArg(a)
    BY <2>3, Zenon DEF SliceArg
  <2>4. CASE BroadcastArg(a)
    BY <2>4, Zenon DEF BroadcastArg
  <2>5. CASE CopyArg(a)
    BY <2>5, Zenon DEF CopyArg
  <2>6. CASE CastArg(a)
    BY <2>6, Zenon DEF CastArg
  <2>7. QED
    BY <2>1, <2>2, <2>3, <2>4, <2>5, <2>6
<1>2. PICK t, values : Become(a, t, values)
  BY <1>1
<1>3. QED
  BY <1>2, NothingComputed

\* A call of an op is of that op.
LEMMA CallNames ==
  ASSUME NEW op, NEW accepted, NEW denoted, NEW got, Call(op, accepted, denoted, got)
  PROVE  last'.op = op
BY DEF Call

\* The calls that need nothing of the caller.
LEMMA CallsCompute ==
  ASSUME GInv,
         \/ Copy \/ Cast \/ Binary \/ Unary \/ Reduce \/ Mean \/ Argmax \/ Gather \/ DequantizeAffine
         \/ Rope \/ RmsNorm \/ Softmax \/ Matmul \/ Concat \/ SliceUpdate
  PROVE  DispatchComputes'
<1>0. IInv
  BY DEF GInv
<1>1. CASE Copy
  BY <1>0, <1>1, CopyCall
<1>2. CASE Cast
  BY <1>0, <1>2, CastCall
<1>3. CASE Binary
  BY <1>0, <1>3, BinaryCall
<1>4. CASE Unary
  BY <1>0, <1>4, UnaryCall
<1>5. CASE Reduce
  BY <1>0, <1>5, ReduceCall
<1>6. CASE Mean
  BY <1>0, <1>6, MeanCall
<1>7. CASE Argmax
  BY <1>0, <1>7, ArgmaxCall
<1>8. CASE Gather
  BY <1>8, GatherCall
<1>9. CASE DequantizeAffine
  BY <1>0, <1>9, DequantizeCall
<1>10. CASE Rope
  BY <1>0, <1>10, RopeCall
<1>11. CASE RmsNorm
  BY <1>0, <1>11, RmsNormCall
<1>12. CASE Softmax
  BY <1>0, <1>12, SoftmaxCall
<1>13. CASE Matmul
  BY <1>0, <1>13, MatmulCall
<1>14. CASE Concat
  BY <1>0, <1>14, ConcatCall
<1>15. CASE SliceUpdate
  BY <1>0, <1>15, SliceUpdateStep
<1>16. QED
  BY <1>1, <1>2, <1>3, <1>4, <1>5, <1>6, <1>7, <1>8, <1>9, <1>10, <1>11, <1>12, <1>13, <1>14, <1>15

\* Every step leaves an op that computed what it denotes, or refused.
LEMMA StepComputes ==
  ASSUME GInv, OpsCompute, [Next]_vars
  PROVE  OpsCompute'
<1>0. IInv
  BY DEF GInv
<1>1. DispatchComputes' => OpsCompute'
  BY DEF OpsCompute
<1>2. CASE UNCHANGED vars
  BY <1>2 DEF vars, OpsCompute, DispatchComputes
<1>3. CASE \E a \in Arg : \/ ReshapeArg(a) \/ PermuteArg(a) \/ SliceArg(a) \/ BroadcastArg(a)
                          \/ CopyArg(a) \/ CastArg(a)
  BY <1>1, <1>3, ViewsCompute
<1>4. CASE \/ Copy \/ Cast \/ Binary \/ Unary \/ Reduce \/ Mean \/ Argmax \/ Gather \/ DequantizeAffine
           \/ Rope \/ RmsNorm \/ Softmax \/ Matmul \/ Concat \/ SliceUpdate
  BY <1>1, <1>4, CallsCompute
<1>5. CASE Sdpa
  <2>1. CASE CallersOnly
    BY <1>0, <1>1, <1>5, <2>1, SdpaCall
  <2>2. CASE ~CallersOnly
    <3>1. \E accepted, denoted, got : Call("sdpa", accepted, denoted, got)
      BY <1>5, Zenon DEF Sdpa
    <3>2. last'.op = "sdpa"
      BY <3>1, CallNames
    <3>3. QED
      BY <2>2, <3>2 DEF OpsCompute, CallersKnow
  <2>3. QED
    BY <2>1, <2>2
<1>6. CASE QuantizedMatmul
  <2>1. CASE CallersOnly
    BY <1>0, <1>1, <1>6, <2>1, QuantizedMatmulCall
  <2>2. CASE ~CallersOnly
    <3>1. \E accepted, denoted, got : Call("quantized_matmul", accepted, denoted, got)
      BY <1>6, Zenon DEF QuantizedMatmul
    <3>2. last'.op = "quantized_matmul"
      BY <3>1, CallNames
    <3>3. QED
      BY <2>2, <3>2 DEF OpsCompute, CallersKnow
  <2>3. QED
    BY <2>1, <2>2
<1>7. QED
  BY <1>2, <1>3, <1>4, <1>5, <1>6, Zenon DEF Next

\* Whatever chain of views, copies, casts and in-place updates made its
\* operands, an op its builder accepts reads the elements those operands denote
\* and leaves what it denotes, or is refused: every op, except that a quantized
\* matmul and sdpa may go wrong on operands the models crate never makes.
THEOREM OpsAlwaysCompute ==
  Spec => [](CallersOnly \/ last.op \notin CallersKnow => DispatchComputes)
<1>1. Init => GInv /\ OpsCompute
  <2>1. Init => GInv
    BY InitHolds, InitIndexes DEF GInv
  <2>2. Init => last.got = last.denoted
    <3>1. Init => last = None
      BY Zenon DEF Init
    <3>2. QED
      BY <3>1 DEF None
  <2>3. QED
    BY <2>1, <2>2 DEF OpsCompute, DispatchComputes
<1>2. (GInv /\ OpsCompute) /\ [Next]_vars => (GInv /\ OpsCompute)'
  BY StepIndexes, StepComputes
<1>3. GInv /\ OpsCompute => (CallersOnly \/ last.op \notin CallersKnow => DispatchComputes)
  BY DEF OpsCompute
<1>4. QED
  BY <1>1, <1>2, <1>3, PTL DEF Spec

\* With operands as the models crate makes them every op computes what it denotes.
THEOREM DispatchAlwaysComputes ==
  ASSUME CallersOnly
  PROVE  Spec => []DispatchComputes
<1>1. (CallersOnly \/ last.op \notin CallersKnow => DispatchComputes) => DispatchComputes
  OBVIOUS
<1>2. QED
  BY <1>1, OpsAlwaysCompute, PTL
=============================================================================
