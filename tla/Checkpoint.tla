----------------------------- MODULE Checkpoint -----------------------------
(***************************************************************************)
(* A checkpoint directory and what is read from it: safetensors_io.rs of   *)
(* the models crate, quantization.rs and quantized.rs of the runtime.      *)
(*                                                                         *)
(* A directory is [index, weight_map, files]: index says whether there is  *)
(* an index file, weight_map names the file of each tensor, and a file     *)
(* maps tensor names (sequences) to [dtype, shape, data].                  *)
(***************************************************************************)
EXTENDS TensorMath
LOCAL INSTANCE Functions
LOCAL INSTANCE SequencesExt

CONSTANTS
  WordBits,       \* the bits of a packed word (32)
  SupportedBits,  \* SUPPORTED_BITS
  PlainNames      \* names that are one component of a path

SingleFile == "model.safetensors"
DTypes == {"F32", "F16", "BF16", "I32", "U32"}

----------------------------------------------------------------------------
\* ShardSet and ShardedArchive.

\* The files a directory's index names, or its only one.  An index that cannot
\* be followed does not fall back on a file that happens to lie beside it.
ReadShards(dir) ==
  LET names == Range(dir.weight_map)
  IN  CASE dir.index = "none" /\ SingleFile \in DOMAIN dir.files ->
             [weight_map |-> <<>>, shards |-> [n \in {SingleFile} |-> dir.files[n]]]
        [] dir.index = "there" /\ names \subseteq PlainNames \cap DOMAIN dir.files ->
             [weight_map |-> dir.weight_map, shards |-> [n \in names |-> dir.files[n]]]
        [] OTHER -> Refused

\* The entry of a name, in the one file it is looked for.
Lookup(set, key) ==
  LET routed == IF set.weight_map = <<>>
                THEN {n \in DOMAIN set.shards : key \in DOMAIN set.shards[n]}
                ELSE {set.weight_map[k] : k \in {key} \cap DOMAIN set.weight_map}
      holding == {n \in routed : key \in DOMAIN set.shards[n]}
  IN  IF holding = {} THEN Refused ELSE set.shards[CHOOSE n \in holding : TRUE][key]

FromEntry(entry) ==
  IF entry = Refused \/ entry.dtype \notin DTypes THEN Refused
  ELSE Dense(entry.shape, entry.dtype, entry.data)

ReadDenseTensor(set, key) == FromEntry(Lookup(set, key))

----------------------------------------------------------------------------
\* Quantization and QuantizedWeight.

IsPowerOfTwo(n) == \E e \in 0..n : 2^e = n

\* A group is a whole number of words.
ValidQuantization(q) ==
  /\ q.bits \in SupportedBits
  /\ IsPowerOfTwo(q.group)
  /\ (q.group * q.bits) % WordBits = 0

\* The code of column o of the flattened weight, its group's scale and bias.
Decoded(w, o) ==
  LET lanes == WordBits \div w.q.bits
      code == (w.words[o \div lanes + 1] \div 2^(w.q.bits * (o % lanes))) % 2^w.q.bits
  IN  Plus(Times(w.scales[o \div w.q.group + 1], code), w.biases[o \div w.q.group + 1])

\* rows is what the kernels make of the three buffers.
FromBytesInner(dims, kLogical, q, words, scales, biases) ==
  LET n == dims[1]
      k == dims[2]
      w == [dims |-> dims, k |-> kLogical, q |-> q, rows |-> <<>>,
            words |-> words, scales |-> scales, biases |-> biases]
      Row(i) == Strict([j \in 1..k |-> Decoded(w, (i - 1) * k + j - 1)])
  IN  IF /\ ValidQuantization(q)
         /\ k % q.group = 0
         /\ (k * q.bits) % WordBits = 0
         /\ Len(words) = (n * k * q.bits) \div WordBits
         /\ Len(scales) = (n * k) \div q.group
         /\ Len(biases) = (n * k) \div q.group
      THEN [w EXCEPT !.rows = Strict([j \in 1..n |-> Row(j)])]
      ELSE Refused

FromBytesKPadded(dims, kLogical, q, words, scales, biases) ==
  IF kLogical > dims[2] \/ kLogical % q.group # 0 THEN Refused
  ELSE FromBytesInner(dims, kLogical, q, words, scales, biases)

\* The entries of weight, scales and biases.  K comes from the packed width; scales and biases must have a group for each.
FromEntries(w, s, b, q) ==
  LET k == (w.shape[2] * WordBits) \div q.bits
      aux == <<w.shape[1], k \div q.group>>
  IN  IF \/ w = Refused \/ s = Refused \/ b = Refused
         \/ <<w.dtype, s.dtype, b.dtype>> # <<"U32", "BF16", "BF16">>
         \/ Len(w.shape) # 2
         \/ (w.shape[2] * WordBits) % q.bits # 0
         \/ k % q.group # 0
         \/ s.shape # aux \/ b.shape # aux
      THEN Refused
      ELSE FromBytesInner(<<w.shape[1], k>>, k, q, w.data, s.data, b.data)

ReadQuantizedWeight(set, base, q) ==
  FromEntries(Lookup(set, Append(base, "weight")), Lookup(set, Append(base, "scales")),
              Lookup(set, Append(base, "biases")), q)

\* Each of n rows of width from becomes one of width to, zeros behind.
Widened(flat, n, from, to) ==
  Strict([p \in 1..(n * to) |-> LET row == (p - 1) \div to
                                col == (p - 1) % to
                            IN  IF col < from THEN flat[row * from + col + 1] ELSE 0])

\* The packed words and the groups of the padding are zero, row by row.
PadQuantizedK(w, kPad) ==
  LET n == w.dims[1]
      k == w.dims[2]
      InWords(cols) == (cols * w.q.bits) \div WordBits
      InGroups(cols) == cols \div w.q.group
  IN  [words  |-> Widened(w.words, n, InWords(k), InWords(kPad)),
       scales |-> Widened(w.scales, n, InGroups(k), InGroups(kPad)),
       biases |-> Widened(w.biases, n, InGroups(k), InGroups(kPad))]

BuildPaddedTwin(w, kPad) ==
  LET padded == PadQuantizedK(w, kPad)
  IN  IF w = Refused THEN Refused
      ELSE FromBytesKPadded(<<w.dims[1], kPad>>, w.k, w.q,
                            padded.words, padded.scales, padded.biases)
=============================================================================
