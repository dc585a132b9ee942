------------------------------ MODULE FenceMap ------------------------------
(***************************************************************************)
(* The command-buffer sessions of cider-press-kernels (Commands,           *)
(* CommandsInFlight) and the device's per-output-buffer fence map, the     *)
(* sole mechanism that orders encoders on the GPU: buffers are untracked,  *)
(* so Metal itself orders nothing.                                         *)
(*                                                                         *)
(* Encoders are numbered in the order they are opened, across sessions;    *)
(* encoder e owns fence e.  One session is open at a time and one thread   *)
(* drives it (the concurrency contract of Commands).  The GPU is Metal's:  *)
(* it starts a committed encoder when every fence it waits for has been    *)
(* updated, in any order and overlap the fences allow.                     *)
(***************************************************************************)
EXTENDS Integers, Sequences, FiniteSets, SequencesExt

CONSTANTS Keys,         \* identities of buffers (input_buffer_key)
          MaxEncoders,  \* bound: encoders ever opened
          MaxOutputs    \* bound: outputs recorded in one encoder

ASSUME FenceAssumption == MaxEncoders \in Nat /\ MaxOutputs \in Nat

Encoders == 1..MaxEncoders

VARIABLES
  prev_outputs,     \* prev_outputs[k]: the fence of k's last writer, 0 if absent
  session,          \* "none", "open", or "profiled" (one encoder per op)
  encoder,          \* the open encoder, 0 if none
  input_keys, output_keys, unresolved_input,
  restore,          \* the entries this session displaced, in publish order
  opened,           \* how many encoders were opened so far
  stage,            \* stage[e]: unused, open, closed, queued, running, done, dead
  waits,            \* waits[e]: the fences e waits for
  touch, writes,    \* the buffers the ops of e read or write, and write
  inflight,         \* the CommandsInFlight handles: the encoders of each
  awaited           \* what the host is blocked on, {} if it is not blocked

recorded == <<input_keys, output_keys, unresolved_input>>
host == <<prev_outputs, session, encoder, recorded, restore, opened, inflight>>
vars == <<host, stage, waits, touch, writes, awaited>>

Init == /\ prev_outputs = [k \in Keys |-> 0]
        /\ session = "none" /\ encoder = 0
        /\ input_keys = {} /\ output_keys = <<>> /\ unresolved_input = FALSE
        /\ restore = <<>>
        /\ opened = 0
        /\ stage = [e \in Encoders |-> "unused"]
        /\ waits = [e \in Encoders |-> {}]
        /\ touch = [e \in Encoders |-> {}]
        /\ writes = [e \in Encoders |-> {}]
        /\ inflight = {}
        /\ awaited = {}
-----------------------------------------------------------------------------
\* Mutants of FenceWaits: an absent key answered with a fence; an input without a
\* key waiting for nothing more.
FenceWaitsAbsent(map, keys, unresolved) ==
  {map[k] : k \in IF unresolved THEN Keys ELSE keys}

FenceWaitsResolvedOnly(map, keys, unresolved) == {map[k] : k \in keys} \ {0}

\* Device::fence_waits for the closing encoder: the last writers of what it
\* reads or overwrites, or the whole frontier if an input had no key.
FenceWaits(map, keys, unresolved) ==
  {map[k] : k \in IF unresolved THEN Keys ELSE keys} \ {0}

\* Device::publish_outputs: fence becomes the last writer of each key; what it
\* displaced is returned in publish order.  A key listed twice displaces the
\* fence itself the second time.
PublishOutputs(map, keys, fence) ==
  [k \in Keys |-> IF \E i \in DOMAIN keys : keys[i] = k THEN fence ELSE map[k]]

Displaced(map, keys, fence) ==
  [i \in 1..Len(keys) |->
     <<keys[i], IF \E j \in 1..(i - 1) : keys[j] = keys[i] THEN fence ELSE map[keys[i]]>>]

\* i is the earliest entry of d that displaced key k.
IsFirst(d, k, i) == /\ i \in 1..Len(d) /\ d[i][1] = k
                    /\ \A j \in 1..(i - 1) : d[j][1] # k

\* Mutants of RestoreOutputs: no undo; a replay in publish order.
RestoreNothing(map, d) == map

RestoreForward(map, d) ==
  [k \in Keys |-> IF \E i \in 1..Len(d) : d[i][1] = k
                  THEN d[CHOOSE i \in 1..Len(d) :
                           d[i][1] = k /\ \A j \in (i + 1)..Len(d) : d[j][1] # k][2]
                  ELSE map[k]]

\* Device::restore_outputs: replaying in reverse publish order leaves each key
\* with the value its earliest displacement saved.
RestoreOutputs(map, d) ==
  [k \in Keys |-> IF \E i \in 1..Len(d) : d[i][1] = k
                  THEN d[CHOOSE i \in 1..Len(d) : IsFirst(d, k, i)][2]
                  ELSE map[k]]

\* Mutant of WaitKeys: outputs are not waited as inputs.
WaitKeysInputsOnly == input_keys

\* The buffers of the open encoder: inputs, and outputs waited as inputs.
WaitKeys == input_keys \cup ToSet(output_keys)
-----------------------------------------------------------------------------
Idle == awaited = {}      \* the host thread is not blocked

\* Commands::new and new_profiled.
Open(mode) ==
  /\ Idle /\ session = "none"
  /\ session' = mode
  /\ UNCHANGED <<prev_outputs, encoder, recorded, restore, opened, inflight,
                 stage, waits, touch, writes, awaited>>

\* One op of eval: it records the buffers its dispatch reads and the one it
\* writes, then dispatches; the first dispatch after a close opens an encoder.
\* (Failing to get the encoder or its fence, like any other error of the op, is
\* answered with Abandon.)
Dispatch(ins, out, unresolved) ==
  /\ Idle /\ session # "none"
  /\ Len(output_keys) < MaxOutputs
  /\ input_keys' = input_keys \cup ins
  /\ output_keys' = Append(output_keys, out)
  /\ unresolved_input' = (unresolved_input \/ unresolved)
  /\ IF encoder = 0
     THEN /\ opened < MaxEncoders
          /\ opened' = opened + 1
          /\ encoder' = opened + 1
          /\ stage' = [stage EXCEPT ![opened + 1] = "open"]
     ELSE UNCHANGED <<opened, encoder, stage>>
  /\ UNCHANGED <<prev_outputs, session, restore, inflight,
                 waits, touch, writes, awaited>>

\* Commands::close_encoder: wait, update the fence, publish, forget the keys.
\* The map is read before it is updated.
CloseEncoder ==
  IF encoder = 0
  THEN UNCHANGED <<prev_outputs, encoder, waits, touch, writes>>
  ELSE /\ waits' = [waits EXCEPT ![encoder] =
                      FenceWaits(prev_outputs, WaitKeys, unresolved_input)]
       /\ prev_outputs' = PublishOutputs(prev_outputs, output_keys, encoder)
       /\ touch' = [touch EXCEPT ![encoder] =
                      IF unresolved_input THEN Keys ELSE WaitKeys]
       /\ writes' = [writes EXCEPT ![encoder] = ToSet(output_keys)]
       /\ encoder' = 0

\* Recorded keys never outlive their encoder, nor their session.
Forget == input_keys' = {} /\ output_keys' = <<>> /\ unresolved_input' = FALSE

\* Commands::begin_profiled_op: each op of a profiled session gets an encoder
\* of its own.
BeginProfiledOp ==
  /\ Idle /\ session = "profiled"
  /\ encoder # 0
  /\ CloseEncoder /\ Forget
  /\ restore' = restore \o Displaced(prev_outputs, output_keys, encoder)
  /\ stage' = [stage EXCEPT ![encoder] = "closed"]
  /\ UNCHANGED <<session, opened, inflight, awaited>>

\* The encoders of the session that is being encoded.
Mine == {e \in Encoders : stage[e] \in {"open", "closed"}}

\* The common part of the commits: close, disarm the undo, hand to the GPU.
Submit ==
  /\ Idle /\ session # "none"
  /\ CloseEncoder /\ Forget
  /\ restore' = <<>>
  /\ stage' = [e \in Encoders |-> IF e \in Mine THEN "queued" ELSE stage[e]]
  /\ session' = "none"
  /\ UNCHANGED opened

Commit == Submit /\ inflight' = inflight \cup {Mine} /\ UNCHANGED awaited

CommitAndWait == Submit /\ awaited' = Mine /\ UNCHANGED inflight

\* Commands::drop of an uncommitted session: its work is discarded, so are its
\* fences, and the map is put back.
Abandon ==
  /\ Idle /\ session # "none"
  /\ prev_outputs' = RestoreOutputs(prev_outputs, restore)
  /\ restore' = <<>>
  /\ encoder' = 0
  /\ stage' = [e \in Encoders |-> IF e \in Mine THEN "dead" ELSE stage[e]]
  /\ session' = "none"
  /\ Forget
  /\ UNCHANGED <<opened, waits, touch, writes, inflight, awaited>>

\* CommandsInFlight::wait and its Drop: block until the batch has finished.  A
\* handle may be dropped while a later session is still being encoded.
Wait(batch) ==
  /\ Idle /\ batch \in inflight
  /\ awaited' = batch
  /\ inflight' = inflight \ {batch}
  /\ UNCHANGED <<prev_outputs, session, encoder, recorded, restore, opened,
                 stage, waits, touch, writes>>

Wake == /\ awaited # {}
        /\ \A e \in awaited : stage[e] = "done"
        /\ awaited' = {}
        /\ UNCHANGED <<host, stage, waits, touch, writes>>

\* Metal runs a committed encoder once its fences are updated; its own fence
\* is updated when it ends, whether or not its command buffer failed.
Start(e) == /\ stage[e] = "queued"
            /\ \A f \in waits[e] : stage[f] = "done"
            /\ stage' = [stage EXCEPT ![e] = "running"]
            /\ UNCHANGED <<host, waits, touch, writes, awaited>>

Finish(e) == /\ stage[e] = "running"
             /\ stage' = [stage EXCEPT ![e] = "done"]
             /\ UNCHANGED <<host, waits, touch, writes, awaited>>

Next == \/ \E mode \in {"open", "profiled"} : Open(mode)
        \/ \E ins \in SUBSET Keys, out \in Keys, u \in BOOLEAN : Dispatch(ins, out, u)
        \/ BeginProfiledOp
        \/ Commit \/ CommitAndWait \/ Abandon
        \/ \E batch \in inflight : Wait(batch)
        \/ Wake
        \/ \E e \in Encoders : Start(e) \/ Finish(e)

Spec == Init /\ [][Next]_vars

\* The GPU makes progress on what was committed and may run; waitUntilCompleted
\* returns.  The host is never obliged to do anything.
Fairness == /\ \A e \in Encoders : WF_vars(Start(e)) /\ WF_vars(Finish(e))
            /\ WF_vars(Wake)

FairSpec == Spec /\ Fairness
-----------------------------------------------------------------------------
\* TypeOK: the shape of a session and of the device's map (commands.rs:56-92).
TypeOK == /\ prev_outputs \in [Keys -> 0..MaxEncoders]
          /\ session \in {"none", "open", "profiled"}
          /\ encoder \in 0..MaxEncoders
          /\ input_keys \subseteq Keys
          /\ output_keys \in Seq(Keys)
          /\ unresolved_input \in BOOLEAN
          /\ restore \in Seq(Keys \X (0..MaxEncoders))
          /\ opened \in 0..MaxEncoders
          /\ stage \in [Encoders -> {"unused", "open", "closed", "queued",
                                    "running", "done", "dead"}]
          /\ waits \in [Encoders -> SUBSET Encoders]
          /\ touch \in [Encoders -> SUBSET Keys]
          /\ writes \in [Encoders -> SUBSET Keys]
          /\ inflight \subseteq SUBSET Encoders
          /\ awaited \subseteq Encoders

Committed(e) == stage[e] \in {"queued", "running", "done"}
Published(e) == stage[e] = "closed" \/ Committed(e)
Started(e) == stage[e] \in {"running", "done"}

\* m is the last of the encoders in S that wrote k, 0 if none did.
IsLastWriter(m, k, S) ==
  /\ m # 0 => m \in S /\ k \in writes[m]
  /\ \A f \in S : k \in writes[f] => m # 0 /\ f <= m

\* WritersFirst: the ordering the GPU must respect although nothing is tracked:
\* an encoder that has started finds every earlier write to a buffer it reads
\* or overwrites finished.  Sessions that were abandoned in between, sessions
\* of one encoder per op and inputs without a key included (device.rs:42-43).
WritersFirst ==
  \A e, f \in Encoders :
    (Started(e) /\ f < e /\ Published(f) /\ writes[f] \cap touch[e] # {})
      => stage[f] = "done"

\* NoDeadWait: nothing that may still run waits for a fence that was discarded
\* with its session: that fence is never updated (commands.rs:68-71).
NoDeadWait ==
  /\ \A e \in Encoders : Published(e) => \A f \in waits[e] : stage[f] # "dead"
  /\ \A k \in Keys : prev_outputs[k] # 0 => stage[prev_outputs[k]] # "dead"

\* MapIsLastWriter: at every moment the map names, for each buffer, the last
\* encoder that will really have written it, as if the abandoned sessions had
\* never been opened (device.rs:139-142).
MapIsLastWriter ==
  \A k \in Keys : IsLastWriter(prev_outputs[k], k, {e \in Encoders : Published(e)})

\* WaitReturns: a host blocked in commit_and_wait, wait or drop is released: no
\* batch ever hangs on the GPU (commands.rs:336-342, 408-431).
WaitReturns == (awaited # {}) ~> (awaited = {})

\* The layer keeps the promise of EncoderOrder.
Order == INSTANCE EncoderOrder WITH
           state <- [e \in Encoders |-> CASE stage[e] = "queued" -> "submitted"
                                          [] Started(e) -> stage[e]
                                          [] OTHER -> "out"],
           touch <- [e \in Encoders |-> IF Committed(e) THEN touch[e] ELSE {}],
           writes <- [e \in Encoders |-> IF Committed(e) THEN writes[e] ELSE {}]

\* ImplementsOrder: sessions, fences and the map together behave as an ordered
\* queue that respects writers first and finishes everything submitted.
ImplementsOrder == Order!Spec
=============================================================================
