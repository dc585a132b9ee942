----------------------------- MODULE Generator -----------------------------
(***************************************************************************)
(* The greedy decoder (models/generator.rs) over a model's per-layer       *)
(* caches: chunked prefill, the pipeline that commits forwards ahead of    *)
(* the token it returns, deferred errors, abandonment, and recovery on the *)
(* next call.                                                              *)
(*                                                                         *)
(* Tokens are named by their place in the sequence: the prompt is          *)
(* 1..prompt, and a forward over rows that hold 1..q computes token q + 1. *)
(* A forward is named by the position it starts at.  The GPU runs batches  *)
(* in the order they were committed: each reads the id tensor and the      *)
(* cache state its predecessor writes (EncoderOrder).                      *)
(***************************************************************************)
EXTENDS Integers, Sequences, FiniteSets, FiniteSetsExt

CONSTANTS Kinds,    \* per layer: "full" (KvCache) or "linear" (LinearState)
          Window,   \* context_window
          Chunk,    \* prefill_chunk_len, 0 for None
          Prompts,  \* lengths of the prompts
          News,     \* values of max_new_tokens
          Depths,   \* values of inflight_depth
          Huge,     \* usize::MAX
          MaxCalls  \* bound: calls

ASSUME GeneratorAssumption ==
  /\ Window \in Nat \ {0} /\ Chunk \in Nat
  /\ Prompts \subseteq Nat \ {0} /\ News \subseteq Nat \ {0}
  /\ Huge \in Nat /\ 1 \in Depths /\ Depths \subseteq 0..Huge /\ MaxCalls \in Nat
  /\ Kinds \in Seq({"full", "linear"}) /\ \E l \in DOMAIN Kinds : Kinds[l] = "full"

Layers == DOMAIN Kinds
FullLayers == {l \in Layers : Kinds[l] = "full"}

Error == 0
Garbage == 1    \* an id computed from wrong state; token 1 belongs to the prompt

VARIABLES
  caches,          \* per layer: the tokens absorbed, and whether the latest update
                   \* is not committed yet; <<>> after a failed replacement
  inflight_depth,
  phase,           \* "none" (no call), "prefill", "idle" (the client has the
                   \* iterator), "commit" and "wait" (in next), "drop", "refused"
  plan,            \* the call and what will happen to it, see Plans
  start,           \* prompt tokens prefilled so far
  depth, inflight, next_id, yielded, done, deferred_err,
  front,           \* the batch next() waits for, <<>> if none
  gpu,             \* committed batches that have not run
  result,          \* result[s]: the id the batch of position s left, or Error
  bad,             \* the GPU failed a batch since the last reset
  items,           \* what the caller received
  calls

iter == <<depth, inflight, next_id, yielded, done, deferred_err, front>>
vars == <<caches, inflight_depth, phase, plan, start, iter, gpu, result, bad, items, calls>>

\* The forwards of a call, by position.
Starts(prompt, new) ==
  {s \in 0..(prompt - 1) : IF Chunk = 0 THEN s = 0 ELSE s % Chunk = 0}
    \cup prompt..(prompt + new - 2)

\* The call, and what will happen: the forward that fails on the host, the one
\* the GPU fails (Window for neither), the token that is EOS (0 for none), and
\* whether allocations may fail.  With new = 0 the call only prefills and waits
\* (prefill_sync, profiled_prefill).
Plans ==
  UNION {{[prompt |-> p, new |-> n, host |-> h, gpu |-> g, eos |-> e, oom |-> o] :
            h, g \in Starts(p, n) \cup {Window}, e \in {0} \cup (p + 1)..(p + n),
            o \in BOOLEAN} : p \in Prompts, n \in News \cup {0}}

NoCall == [prompt |-> 0, new |-> 0, host |-> Window, gpu |-> Window, eos |-> 0, oom |-> FALSE]

Fresh == [l \in Layers |-> [rows |-> <<>>, dirty |-> FALSE]]

NoIterator == /\ depth' = 0 /\ inflight' = <<>> /\ next_id' = 0 /\ yielded' = 0
              /\ done' = FALSE /\ deferred_err' = FALSE /\ front' = <<>>

Init == /\ caches = Fresh /\ inflight_depth = 1
        /\ phase = "none" /\ plan = NoCall /\ start = 0
        /\ depth = 0 /\ inflight = <<>> /\ next_id = 0 /\ yielded = 0
        /\ done = FALSE /\ deferred_err = FALSE /\ front = <<>>
        /\ gpu = <<>> /\ result = [s \in 0..Window |-> 0] /\ bad = FALSE
        /\ items = <<>> /\ calls = 0
-----------------------------------------------------------------------------
\* Mutant: the capacity check is forgotten.
TakesAny(l, n) == Kinds[l] = "linear" \/ ~caches[l].dirty

\* KvCache::update accepts n more rows; a LinearState always does.
Takes(l, n) == \/ Kinds[l] = "linear"
               \/ ~caches[l].dirty /\ Len(caches[l].rows) + n <= Window

\* rope_offset: the caches agree on their position.
Agree == \A l, m \in FullLayers : Len(caches[l].rows) = Len(caches[m].rows)

\* How many layers a forward over n tokens can get through.
Reach(n) == {k \in 0..Len(Kinds) : k > 0 => /\ caches # <<>> /\ Agree
                                            /\ \A l \in 1..k : Takes(l, n)}

\* The caches after k layers absorbed ts; torn: the keys of the next one too.
Grown(ts, k, torn) ==
  [l \in DOMAIN caches |->
     IF l <= k THEN [rows |-> caches[l].rows \o ts, dirty |-> TRUE]
     ELSE IF l = k + 1 /\ torn THEN [caches[l] EXCEPT !.dirty = TRUE] ELSE caches[l]]

\* The outcomes of a forward over ts and the start of its evaluation: a faulty
\* one fails in some layer, or after all of them.
Forward(ts, faulty) ==
  IF faulty
  THEN {[ok |-> FALSE, caches |-> Grown(ts, k, torn)] :
          k \in Reach(Len(ts)), torn \in BOOLEAN}
  ELSE LET k == Max(Reach(Len(ts)))
       IN  {[ok |-> k = Len(Kinds), caches |-> Grown(ts, k, FALSE)]}

\* An evaluation commits every update.
Committed(c) == [l \in DOMAIN c |-> [c[l] EXCEPT !.dirty = FALSE]]

\* The token the last position's logits select.
Argmax(c) == LET q == Len(c[1].rows)
             IN  IF \A l \in Layers : c[l].rows = [r \in 1..q |-> r] THEN q + 1 ELSE Garbage
-----------------------------------------------------------------------------
\* reset_caches: every KvCache agrees, and every LinearState is zeroed anew.
InPlace == caches # <<>> /\ \A l \in FullLayers : ~caches[l].dirty

\* Mutant: only the KV caches are reset.
ResetKvOnly(oom) ==
  {IF InPlace THEN [l \in Layers |-> IF Kinds[l] = "full" THEN Fresh[l] ELSE caches[l]]
   ELSE Fresh}

\* Generator::reset: in place, or by replacement, which may fail to allocate.
Reset(oom) == {Fresh} \cup
  IF oom /\ (~InPlace \/ FullLayers # Layers) THEN {<<>>} ELSE {}

\* set_inflight_depth, and reset called by the client.
SetDepth(d) == /\ phase = "none"
               /\ inflight_depth' = d
               /\ UNCHANGED <<caches, phase, plan, start, iter, gpu, result, bad, items, calls>>

ClientReset(oom) ==
  /\ phase = "none"
  /\ caches' \in Reset(oom)
  /\ bad' = FALSE
  /\ UNCHANGED <<inflight_depth, phase, plan, start, iter, gpu, result, items, calls>>

\* generate's check of the window (its others cannot fail here); the callers of
\* prefill_sync keep to it by themselves.
Admits(p) == p.prompt + p.new <= Window

\* The call starts: generate, or prefill_sync and profiled_prefill.
Begin(p) ==
  /\ phase = "none" /\ calls < MaxCalls /\ Admits(p)
  /\ calls' = calls + 1
  /\ plan' = p /\ start' = 0
  /\ caches' \in Reset(p.oom)
  /\ bad' = FALSE
  /\ IF caches' = <<>> THEN phase' = "refused" /\ items' = <<Error>>
                       ELSE phase' = "prefill" /\ items' = <<>>
  /\ UNCHANGED <<inflight_depth, iter, gpu, result>>

Prompt(from, n) == [i \in 1..n |-> from + i]

MoreChunks == Chunk > 0 /\ plan.prompt - start > Chunk

Refuse == phase' = "refused" /\ items' = <<Error>>

\* prefill_last_logits: fill_cache over a chunk, evaluated at once.
FillChunk ==
  /\ phase = "prefill" /\ MoreChunks
  /\ \E o \in Forward(Prompt(start, Chunk), plan.host = start) :
       IF o.ok /\ plan.gpu # start
       THEN /\ caches' = Committed(o.caches)
            /\ start' = start + Chunk
            /\ UNCHANGED <<phase, items>>
       ELSE caches' = o.caches /\ Refuse /\ UNCHANGED start
  /\ UNCHANGED <<inflight_depth, plan, iter, gpu, result, bad, calls>>

\* The call is over and its outcome forgotten.
Over == /\ phase' = "none" /\ plan' = NoCall /\ start' = 0 /\ items' = <<>>
        /\ NoIterator /\ result' = [s \in 0..Window |-> 0]

\* The last chunk of a synchronous prefill.
PrefillSync ==
  /\ phase = "prefill" /\ ~MoreChunks /\ plan.new = 0
  /\ \E o \in Forward(Prompt(start, plan.prompt - start), plan.host = start) :
       IF o.ok /\ plan.gpu # start
       THEN caches' = Committed(o.caches) /\ Over
       ELSE caches' = o.caches /\ Refuse /\ UNCHANGED <<plan, start, iter, result>>
  /\ UNCHANGED <<inflight_depth, gpu, bad, calls>>

\* A batch is committed: its id tensor feeds the next one.
Push(c, s) ==
  /\ caches' = Committed(c)
  /\ inflight' = Append(inflight, [at |-> s, id |-> Argmax(c)])
  /\ gpu' = Append(gpu, [at |-> s, id |-> Argmax(c)])
  /\ next_id' = Argmax(c)

\* The last chunk of generate, and the iterator.
FirstToken ==
  /\ phase = "prefill" /\ ~MoreChunks /\ plan.new # 0
  /\ \E o \in Forward(Prompt(start, plan.prompt - start), plan.host = start) :
       IF o.ok
       THEN /\ Push(o.caches, start)
            /\ depth' = inflight_depth
            /\ phase' = "idle" /\ UNCHANGED items
       ELSE caches' = o.caches /\ Refuse /\ UNCHANGED <<inflight, gpu, next_id, depth>>
  /\ UNCHANGED <<inflight_depth, plan, start, yielded, done, deferred_err, front, result,
                 bad, calls>>

Refused == /\ phase = "refused"
           /\ Over
           /\ UNCHANGED <<caches, inflight_depth, gpu, bad, calls>>
-----------------------------------------------------------------------------
\* The client calls next(); after the end it returns None at once.
Call == /\ phase = "idle" /\ ~done
        /\ phase' = "commit"
        /\ UNCHANGED <<caches, inflight_depth, plan, start, iter, gpu, result, bad, items, calls>>

\* depth.saturating_add(1)
Saturating(d) == IF d = Huge THEN Huge ELSE d + 1

\* Mutants: one batch too many; a failed lookahead is tried again.
CommitOneMore == /\ ~deferred_err
                 /\ Len(inflight) <= Saturating(depth)
                 /\ yielded + Len(inflight) < plan.new
CommitAgain == /\ Len(inflight) < Saturating(depth)
               /\ yielded + Len(inflight) < plan.new

\* The condition of the commit-ahead loop.
CommitMore == /\ ~deferred_err
              /\ Len(inflight) < Saturating(depth)
              /\ yielded + Len(inflight) < plan.new

\* advance: one decode forward from the chained id; a failure is stashed.
Advance ==
  /\ phase = "commit" /\ CommitMore
  /\ LET s == plan.prompt + yielded + Len(inflight) - 1 IN
       \E o \in Forward(<<next_id>>, plan.host = s) :
         IF o.ok THEN Push(o.caches, s) /\ UNCHANGED deferred_err
         ELSE /\ caches' = o.caches /\ deferred_err' = TRUE
              /\ UNCHANGED <<inflight, gpu, next_id>>
  /\ UNCHANGED <<inflight_depth, phase, plan, start, depth, yielded, done, front, result,
                 bad, items, calls>>

\* Mutant: a stashed error is returned before the committed tokens have drained.
PopEager ==
  /\ phase = "commit" /\ ~CommitMore
  /\ IF inflight = <<>> \/ deferred_err
     THEN /\ done' = TRUE /\ deferred_err' = FALSE /\ phase' = "idle"
          /\ items' = IF deferred_err THEN Append(items, Error) ELSE items
          /\ UNCHANGED <<front, inflight>>
     ELSE /\ front' = <<Head(inflight)>> /\ inflight' = Tail(inflight)
          /\ phase' = "wait" /\ UNCHANGED <<done, deferred_err, items>>
  /\ UNCHANGED <<caches, inflight_depth, plan, start, depth, next_id, yielded, gpu, result,
                 bad, calls>>

\* The oldest batch is next; when none is left, the stashed error, once.
Pop ==
  /\ phase = "commit" /\ ~CommitMore
  /\ IF inflight = <<>>
     THEN /\ done' = TRUE /\ deferred_err' = FALSE /\ phase' = "idle"
          /\ items' = IF deferred_err THEN Append(items, Error) ELSE items
          /\ UNCHANGED <<front, inflight>>
     ELSE /\ front' = <<Head(inflight)>> /\ inflight' = Tail(inflight)
          /\ phase' = "wait" /\ UNCHANGED <<done, deferred_err, items>>
  /\ UNCHANGED <<caches, inflight_depth, plan, start, depth, next_id, yielded, gpu, result,
                 bad, calls>>

Ran(b) == \A i \in DOMAIN gpu : gpu[i] # b

\* The wait returns: its error, or the id.
Read ==
  /\ phase = "wait" /\ Ran(front[1])
  /\ LET id == result[front[1].at] IN
       /\ items' = Append(items, id)
       /\ yielded' = IF id = Error THEN yielded ELSE yielded + 1
       /\ done' = (id \in {Error, plan.eos} \/ yielded' >= plan.new)
  /\ front' = <<>> /\ phase' = "idle"
  /\ UNCHANGED <<caches, inflight_depth, plan, start, depth, inflight, next_id,
                 deferred_err, gpu, result, bad, calls>>

\* The iterator is dropped, at its end or before it.
Drop == /\ phase = "idle"
        /\ phase' = "drop"
        /\ UNCHANGED <<caches, inflight_depth, plan, start, iter, gpu, result, bad, items, calls>>

\* Mutant: dropping a PendingEval does not block.
DroppedAtOnce == /\ phase = "drop"
                 /\ Over
                 /\ UNCHANGED <<caches, inflight_depth, gpu, bad, calls>>

\* Each PendingEval still in the queue blocks until its batch has run.
Dropped == /\ phase = "drop"
           /\ \A i \in DOMAIN inflight : Ran(inflight[i])
           /\ Over
           /\ UNCHANGED <<caches, inflight_depth, gpu, bad, calls>>

\* profiled_decode_step: one more forward, waited for; it may fail anywhere.
ProfiledDecodeStep ==
  /\ phase = "none" /\ caches # <<>>
  /\ Len(caches[1].rows) <= Window
  /\ \E faulty \in BOOLEAN : \E o \in Forward(<<Garbage>>, faulty) :
       caches' \in IF o.ok THEN {o.caches, Committed(o.caches)} ELSE {o.caches}
  /\ UNCHANGED <<inflight_depth, phase, plan, start, iter, gpu, result, bad, items, calls>>

\* The GPU runs the next batch; one that follows a failed batch computes garbage.
Run ==
  /\ gpu # <<>>
  /\ LET b == Head(gpu) IN
       /\ result' = [result EXCEPT ![b.at] = IF plan.gpu = b.at THEN Error
                                             ELSE IF bad THEN Garbage ELSE b.id]
       /\ bad' = (bad \/ plan.gpu = b.at)
  /\ gpu' = Tail(gpu)
  /\ UNCHANGED <<caches, inflight_depth, phase, plan, start, iter, items, calls>>

\* What the library does by itself inside a call.
Host == \/ FillChunk \/ PrefillSync \/ FirstToken
        \/ Advance \/ Pop \/ Read \/ Dropped

Next == \/ \E d \in Depths : SetDepth(d)
        \/ \E oom \in BOOLEAN : ClientReset(oom)
        \/ \E p \in Plans : Begin(p)
        \/ Refused \/ Call \/ Drop \/ ProfiledDecodeStep
        \/ Host
        \/ Run

\* The GPU works through what was committed; the library goes on when it can; the
\* client is free to stop calling.
Spec == Init /\ [][Next]_vars /\ WF_vars(Run) /\ WF_vars(Host)
-----------------------------------------------------------------------------
Batches == [at : 0..Window, id : 0..Window]

\* TypeOK: the fields of Generator and GenerateIter (generator.rs:26-32, 275-297)
\* have their ranges, and no KvCache holds more than the context window (a
\* LinearState folds any number of tokens).
TypeOK ==
  /\ \/ caches = <<>>
     \/ /\ caches \in [Layers -> [rows : Seq(Nat), dirty : BOOLEAN]]
        /\ \A l \in FullLayers : Len(caches[l].rows) <= Window
  /\ inflight_depth \in Depths /\ depth \in Depths \cup {0}
  /\ phase \in {"none", "prefill", "idle", "commit", "wait", "drop", "refused"}
  /\ plan = NoCall \/ plan \in Plans
  /\ start \in 0..Window
  /\ next_id \in 0..Window /\ yielded \in 0..Window
  /\ done \in BOOLEAN /\ deferred_err \in BOOLEAN /\ bad \in BOOLEAN
  /\ inflight \in Seq(Batches) /\ front \in Seq(Batches) /\ gpu \in Seq(Batches)
  /\ result \in [0..Window -> 0..Window] /\ items \in Seq(0..Window)
  /\ calls \in 0..MaxCalls

\* LookaheadBounded: never more than max_new_tokens forwards are committed, and at
\* most depth of them are wasted when the sequence ends (generator.rs:303-306).
LookaheadBounded ==
  /\ yielded + Len(inflight) + Len(front) <= plan.new
  /\ phase = "idle" /\ items # <<>> => Len(inflight) <= depth

\* InStep: as long as the call is going well, every layer has absorbed exactly the
\* prompt and the tokens committed after it, in order, and nothing is left
\* uncommitted: whatever the last call, its failure or its abandonment left
\* behind is gone.
InStep ==
  (phase \in {"idle", "commit", "wait"} /\ ~deferred_err /\ ~done) =>
    \A l \in Layers :
      caches[l] = [rows |-> [r \in 1..(plan.prompt + yielded + Len(inflight) + Len(front) - 1)
                               |-> r],
                   dirty |-> FALSE]

\* RewindQuiet: when a cache is rewound or thrown away, nothing is in flight that
\* could still write the old slab: "every command buffer an eval submitted was
\* waited" (generator.rs:96-103, and the caller's duty of kv_cache.rs:330-333).
Shrinks == \/ caches # <<>> /\ caches' = <<>>
           \/ \E l \in DOMAIN caches \cap DOMAIN caches' :
                Len(caches'[l].rows) < Len(caches[l].rows)
RewindQuiet == [][Shrinks => gpu = <<>>]_vars

\* ImplementsGreedy: at every depth the caller receives exactly what a decoder
\* without lookahead would give it, the place of an error included, whatever
\* became of the calls before: "the yielded prefix is the same at every
\* inflight_depth" (generator.rs:188-190, 700-759).
Greedy == INSTANCE GreedyDecode WITH
            over <- done \/ (items # <<>> /\ items[Len(items)] = Error)
ImplementsGreedy == Greedy!Spec

\* NextReturns: generate, next and the drop of an iterator return.
NextReturns == phase \in {"prefill", "commit", "wait", "drop"}
                 ~> phase \in {"none", "idle", "refused"}
=============================================================================
