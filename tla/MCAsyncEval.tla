---------------------------- MODULE MCAsyncEval ----------------------------
\* Small instances of AsyncEval: a client, its tensors and one GPU queue.
EXTENDS AsyncEval, TLC

Interchangeable == Permutations(Buffers)
=============================================================================
