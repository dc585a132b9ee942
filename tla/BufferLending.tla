--------------------------- MODULE BufferLending ---------------------------
(***************************************************************************)
(* What the buffer pool promises to its clients, without its bookkeeping:  *)
(* every MTLBuffer is either unallocated, lent to exactly one client, or   *)
(* idle in the pool; a client asking for s bytes is lent a buffer whose    *)
(* Metal allocation was made for exactly s bytes; only idle buffers are    *)
(* released behind a client's back.                                        *)
(***************************************************************************)
EXTENDS Naturals

CONSTANTS Buffers,   \* identities of MTLBuffers
          Sizes      \* requested byte lengths

VARIABLES place,     \* place[b] \in {"absent", "idle", "lent"}
          len        \* byte length b was allocated for, 0 while absent

vars == <<place, len>>

Init == /\ place = [b \in Buffers |-> "absent"]
        /\ len = [b \in Buffers |-> 0]

\* A client is lent a buffer of exactly s bytes: an idle one, or a new one.
Lend(b, s) == /\ \/ place[b] = "idle" /\ len[b] = s /\ UNCHANGED len
                 \/ place[b] = "absent" /\ len' = [len EXCEPT ![b] = s]
              /\ place' = [place EXCEPT ![b] = "lent"]

\* A client gives its buffer back: the pool keeps it, or releases it.
Return(b) == /\ place[b] = "lent"
             /\ \/ place' = [place EXCEPT ![b] = "idle"] /\ UNCHANGED len
                \/ /\ place' = [place EXCEPT ![b] = "absent"]
                   /\ len' = [len EXCEPT ![b] = 0]

\* The pool releases some of the buffers that lie idle.
Evict(E) == /\ \A b \in E : place[b] = "idle"
            /\ place' = [b \in Buffers |-> IF b \in E THEN "absent" ELSE place[b]]
            /\ len' = [b \in Buffers |-> IF b \in E THEN 0 ELSE len[b]]

Next == \/ \E b \in Buffers : Return(b) \/ \E s \in Sizes : Lend(b, s)
        \/ \E E \in SUBSET Buffers : Evict(E)

Spec == Init /\ [][Next]_vars
=============================================================================
