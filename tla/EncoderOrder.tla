--------------------------- MODULE EncoderOrder ---------------------------
(***************************************************************************)
(* What the command layer promises to eval, without fences or a map:       *)
(* encoders are submitted in batches, in the order they were encoded, each *)
(* with the buffers it touches and those it writes; the GPU runs them in   *)
(* any overlap, except that an encoder starts only after every earlier one *)
(* that wrote a buffer it touches has finished (read-after-write and       *)
(* write-after-write); and everything submitted finishes.                  *)
(*                                                                         *)
(* A write may overlap an earlier READ of the same buffer: nothing here    *)
(* orders write-after-read.                                                *)
(***************************************************************************)
EXTENDS Naturals

CONSTANTS Encoders,   \* encoder numbers, in encoding order
          Keys        \* identities of the buffers encoders name

VARIABLES state,      \* state[e] \in {"out", "submitted", "running", "done"}
          touch,      \* touch[e]: the buffers e reads or writes
          writes      \* writes[e]: the buffers e writes

vars == <<state, touch, writes>>

Init == /\ state = [e \in Encoders |-> "out"]
        /\ touch = [e \in Encoders |-> {}]
        /\ writes = [e \in Encoders |-> {}]

\* A batch is submitted behind everything submitted before.
Submit(E) ==
  /\ \A e \in E : state[e] = "out"
  /\ \A e \in E, f \in Encoders : state[f] # "out" => f < e
  /\ state' = [e \in Encoders |-> IF e \in E THEN "submitted" ELSE state[e]]
  /\ touch' \in [Encoders -> SUBSET Keys]
  /\ writes' \in [Encoders -> SUBSET Keys]
  /\ \A e \in E : writes'[e] \subseteq touch'[e]
  /\ \A e \in Encoders \ E : touch'[e] = touch[e] /\ writes'[e] = writes[e]

\* The earlier writers e must not overlap.
Behind(e) == {f \in Encoders : /\ f < e /\ state[f] # "out"
                               /\ writes[f] \cap touch[e] # {}}

Start(e) == /\ state[e] = "submitted"
            /\ \A f \in Behind(e) : state[f] = "done"
            /\ state' = [state EXCEPT ![e] = "running"]
            /\ UNCHANGED <<touch, writes>>

Finish(e) == /\ state[e] = "running"
             /\ state' = [state EXCEPT ![e] = "done"]
             /\ UNCHANGED <<touch, writes>>

Next == \/ \E E \in SUBSET Encoders : Submit(E)
        \/ \E e \in Encoders : Start(e) \/ Finish(e)

Spec == /\ Init /\ [][Next]_vars
        /\ \A e \in Encoders : WF_vars(Start(e)) /\ WF_vars(Finish(e))
=============================================================================
