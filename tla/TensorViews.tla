---------------------------- MODULE TensorViews ----------------------------
(***************************************************************************)
(* Shapes, strides and zero-copy views (cider-press-runtime: shape.rs,     *)
(* strides.rs, layout.rs and the view builders of tensor.rs).              *)
(*                                                                         *)
(* A tensor is a record: dims and strides (sequences), off (the offset of  *)
(* its first element in the storage, counted in elements: every builder    *)
(* moves it by whole elements), view (is it a view of another tensor?),    *)
(* dtype, leaf (was it uploaded, not computed?), and store, the storage at *)
(* the end of its view chain, as the sequence of the values it holds.      *)
(* Only views have off # 0.  Multi-indices are sequences of numbers from   *)
(* 0, flat positions count from 0.                                         *)
(***************************************************************************)
EXTENDS Integers, Sequences, FiniteSets

CONSTANT Refused   \* an Err, of a builder, of eval or of a kernel wrapper

----------------------------------------------------------------------------
\* shape.rs, strides.rs, layout.rs

Product(s) == LET upto[i \in 0..Len(s)] == IF i = 0 THEN 1 ELSE upto[i - 1] * s[i]
              IN  upto[Len(s)]
Total(s) == LET upto[i \in 0..Len(s)] == IF i = 0 THEN 0 ELSE upto[i - 1] + s[i]
            IN  upto[Len(s)]

Rank(t) == Len(t.dims)
ElemCount(dims) == Product(dims)

\* Row-major strides.
Contiguous(dims) ==
  [a \in DOMAIN dims |-> Product(SubSeq(dims, a + 1, Len(dims)))]

IsContiguous(t) == t.strides = Contiguous(t.dims)

\* The stride of an axis of size 1 (or 0) is never looked at, and such an axis
\* leaves the expected stride of the next one alone.
IsContiguousIgnoringUnits(t) ==
  LET expected == Contiguous([a \in DOMAIN t.dims |-> IF t.dims[a] > 1 THEN t.dims[a] ELSE 1])
  IN  \A a \in DOMAIN t.dims : t.dims[a] > 1 => t.strides[a] = expected[a]

----------------------------------------------------------------------------
\* Where the elements are.

\* Row-major multi-index of flat position k.
Unflatten(dims, k) ==
  LET step == Contiguous(dims)
  IN  [a \in DOMAIN dims |-> (k \div step[a]) % dims[a]]

Flatten(dims, idx) ==
  Total([a \in DOMAIN dims |-> idx[a] * Contiguous(dims)[a]])

Address(t, idx) == t.off + Total([a \in DOMAIN idx |-> idx[a] * t.strides[a]])

\* The odometer of CpuIter: the last axis counts up and carries.
Advance(dims, idx) ==
  LET carry == {a \in DOMAIN dims : \A c \in a..Len(dims) : idx[c] + 1 >= dims[c]}
      stop == {a \in DOMAIN dims \ carry : \A c \in (a + 1)..Len(dims) : c \in carry}
  IN  [a \in DOMAIN dims |-> IF a \in carry THEN 0
                             ELSE IF a \in stop THEN idx[a] + 1 ELSE idx[a]]

\* The addresses cpu_iter reads, in the order it reads them.
CpuIter(t) ==
  LET odometer[k \in 1..ElemCount(t.dims)] ==
        IF k = 1 THEN [a \in DOMAIN t.dims |-> 0] ELSE Advance(t.dims, odometer[k - 1])
  IN  [k \in 1..ElemCount(t.dims) |-> Address(t, odometer[k])]

\* The window cpu_bytes lends, or nothing: Vec::get refuses a range past the end.
CpuBytes(t) ==
  IF IsContiguous(t) /\ t.off + ElemCount(t.dims) <= Len(t.store)
  THEN [k \in 1..ElemCount(t.dims) |-> t.off + k - 1]
  ELSE Refused

Fetch(t, addresses) == [k \in DOMAIN addresses |-> t.store[addresses[k] + 1]]

----------------------------------------------------------------------------
\* The builders.  A view of a view is built over the storage owner
\* (flatten_view folds the chain): nothing but the offset is left of it.

\* Tensor::op_tensor, dense leaves: dense row-major storage of their own.
Dense(dims, dtype, store) ==
  [dims |-> dims, strides |-> Contiguous(dims), off |-> 0, view |-> FALSE,
   dtype |-> dtype, leaf |-> FALSE, store |-> store]

View(t, off, dims, strides) ==
  [t EXCEPT !.off = off, !.dims = dims, !.strides = strides, !.view = TRUE,
            !.leaf = FALSE]

Reshape(t, dims) ==
  IF IsContiguous(t) /\ ElemCount(dims) = ElemCount(t.dims)
  THEN View(t, t.off, dims, Contiguous(dims)) ELSE Refused

Permute(t, axes) ==
  IF Len(axes) = Rank(t) /\ {axes[i] : i \in DOMAIN axes} = 1..Rank(t)
  THEN View(t, t.off, [i \in DOMAIN axes |-> t.dims[axes[i]]],
                      [i \in DOMAIN axes |-> t.strides[axes[i]]])
  ELSE Refused

\* ranges[a] is the half-open range <<start, end>> of axis a.
Slice(t, ranges) ==
  LET off == t.off + Total([a \in DOMAIN ranges |-> ranges[a][1] * t.strides[a]])
  IN  IF /\ Len(ranges) = Rank(t)
         /\ \A a \in DOMAIN ranges : /\ ranges[a][1] <= ranges[a][2]
                                     /\ ranges[a][2] <= t.dims[a]
         /\ off >= 0
      THEN View(t, off, [a \in DOMAIN ranges |-> ranges[a][2] - ranges[a][1]], t.strides)
      ELSE Refused

\* Mutant: a stretched axis keeps the stride it had.
BroadcastSteps(t, dims) ==
  LET pad == Len(dims) - Rank(t)
      Stretched(a) == a <= pad \/ t.dims[a - pad] # dims[a]
  IN  IF pad >= 0 /\ \A a \in (pad + 1)..Len(dims) : Stretched(a) => t.dims[a - pad] = 1
      THEN View(t, t.off, dims,
                [a \in DOMAIN dims |-> IF a <= pad THEN 0 ELSE t.strides[a - pad]])
      ELSE Refused

\* Right-aligned: added axes and stretched axes of size 1 get stride 0.
BroadcastTo(t, dims) ==
  LET pad == Len(dims) - Rank(t)
      Stretched(a) == a <= pad \/ t.dims[a - pad] # dims[a]
  IN  IF pad >= 0 /\ \A a \in (pad + 1)..Len(dims) : Stretched(a) => t.dims[a - pad] = 1
      THEN View(t, t.off, dims,
                [a \in DOMAIN dims |-> IF Stretched(a) THEN 0 ELSE t.strides[a - pad]])
      ELSE Refused

\* Mutant: the offset of the view is forgotten when its copy is elided.
ElidesAnyOffset(t) ==
  /\ t.view /\ ~IsContiguous(t) /\ IsContiguousIgnoringUnits(t)

\* Does copy() hand back a view with canonical strides and no op?
CopyElides(t) ==
  /\ t.view /\ ~IsContiguous(t) /\ IsContiguousIgnoringUnits(t)
  /\ t.off = 0

Elided(t) == View(t, 0, t.dims, Contiguous(t.dims))

\* An axis counted from the end when negative, as a number from 1.
ResolveAxis(t, axis) ==
  LET resolved == IF axis < 0 THEN axis + Rank(t) ELSE axis
  IN  IF resolved \in 0..(Rank(t) - 1) THEN resolved + 1 ELSE Refused

\* NumPy's shape of a pair of operands.
BroadcastShape(a, b) ==
  LET rank == IF Len(a) > Len(b) THEN Len(a) ELSE Len(b)
      At(dims, i) == IF i <= rank - Len(dims) THEN 1 ELSE dims[i - (rank - Len(dims))]
  IN  IF \A i \in 1..rank : At(a, i) = At(b, i) \/ At(a, i) = 1 \/ At(b, i) = 1
      THEN [i \in 1..rank |-> IF At(a, i) = 1 THEN At(b, i) ELSE At(a, i)]
      ELSE Refused
=============================================================================
