----------------------------- MODULE MCKvCache -----------------------------
\* A cache of a few rows, its client and the GPU.
EXTENDS KvCache
=============================================================================
