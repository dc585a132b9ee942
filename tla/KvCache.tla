------------------------------ MODULE KvCache ------------------------------
(***************************************************************************)
(* The per-layer key/value cache (kv_cache.rs) and what its clients do     *)
(* with it: append rows (a lazy slice_update per slab), take views of the  *)
(* populated prefix, evaluate them with the attention that reads them, and *)
(* reset.  A committed evaluation is a few jobs on the GPU, where a job    *)
(* follows the earlier writers of its slab but not the earlier readers     *)
(* (EncoderOrder), so the next step's write may overtake this step's       *)
(* attention.                                                              *)
(*                                                                         *)
(* An update is named by a number; the rows it appends hold that number.   *)
(***************************************************************************)
EXTENDS Integers, Sequences, FiniteSets, SequencesExt

CONSTANTS MaxTokens,   \* max_tokens: rows of a slab
          Steps,       \* row counts of the updates
          MaxUpdates,  \* bound: slice_update nodes built
          MaxResets,   \* bound: resets
          MaxKept,     \* bound: views the client keeps for later
          MaxJobs      \* bound: jobs on the GPU

ASSUME KvAssumption == /\ MaxTokens \in Nat \ {0} /\ Steps \subseteq Nat
                       /\ MaxUpdates \in Nat /\ MaxResets \in Nat /\ MaxKept \in Nat
                       /\ MaxJobs \in Nat

Slabs == {"k", "v"}

VARIABLES
  position,
  latest,    \* keys_latest, values_latest: an update, 0 for None
  updates,   \* the updates built: slab, offset, rows, committed
  slab,      \* slab[s][r]: the update that wrote row r, 0 if none
  gen,       \* resets so far
  appended,  \* appended[s]: the updates that appended the rows of the prefix
  kept,      \* views kept: slab, node sliced, rows expected, resets before it
  queue      \* queue[s]: committed jobs on slab s that have not run

vars == <<position, latest, updates, slab, gen, appended, kept, queue>>

Init == /\ position = 0 /\ latest = [s \in Slabs |-> 0]
        /\ updates = <<>>
        /\ slab = [s \in Slabs |-> [r \in 1..MaxTokens |-> 0]]
        /\ gen = 0 /\ appended = [s \in Slabs |-> <<>>]
        /\ kept = {} /\ queue = [s \in Slabs |-> <<>>]

Committed(u) == u # 0 => updates[u].committed
-----------------------------------------------------------------------------
\* Mutant: only the keys are looked at.
PriorKeysCommitted == Committed(latest["k"])

PriorUpdateCommitted == \A s \in Slabs : Committed(latest[s])

\* Mutant: the last row is left out.
NodeShort(s, t) == [slab |-> s, offset |-> position, rows |-> t - 1, committed |-> FALSE]

\* slice_update of t rows, built on the slab itself.
Node(s, t) == [slab |-> s, offset |-> position, rows |-> t, committed |-> FALSE]

\* Mutant: only the first row is checked against the capacity.
FitsFirst(t) == position < MaxTokens

\* update's capacity check.
Fits(t) == position + t <= MaxTokens

\* KvCache::update of t rows.
Update(t) ==
  /\ Fits(t) /\ PriorUpdateCommitted
  /\ Len(updates) + 2 <= MaxUpdates
  /\ LET k == Len(updates) + 1
         v == k + 1
     IN  /\ updates' = updates \o <<Node("k", t), Node("v", t)>>
         /\ latest' = [s \in Slabs |-> IF s = "k" THEN k ELSE v]
         /\ appended' = [s \in Slabs |-> appended[s] \o
                           [i \in 1..t |-> IF s = "k" THEN k ELSE v]]
  /\ position' = position + t
  /\ UNCHANGED <<slab, gen, kept, queue>>

\* The same call failing half-way: the keys' slice_update is in place when the
\* values' one refuses its source (a stride that update does not check).
UpdateFails(t) ==
  /\ Fits(t) /\ PriorUpdateCommitted
  /\ Len(updates) + 1 <= MaxUpdates
  /\ updates' = Append(updates, Node("k", t))
  /\ latest' = [latest EXCEPT !["k"] = Len(updates) + 1]
  /\ UNCHANGED <<position, slab, gen, appended, kept, queue>>

\* keys_view, values_view: a slice of the latest update, or of the slab.
View(s) == [slab |-> s, upd |-> latest[s], want |-> appended[s], gen |-> gen]

\* The client keeps a view for later, or drops one.
KeepView(s) == /\ Cardinality(kept \cup {View(s)}) <= MaxKept
               /\ kept' = kept \cup {View(s)}
               /\ UNCHANGED <<position, latest, updates, slab, gen, appended, queue>>

DropView(v) == /\ kept' = kept \ {v}
               /\ UNCHANGED <<position, latest, updates, slab, gen, appended, queue>>

\* Mutant: an update is dispatched again with every view that slices it.
ToDoAlways(V) == {v.upd : v \in V} \ {0}

\* The updates an evaluation of the views V dispatches.
ToDo(V) == {u \in {v.upd : v \in V} : ~Committed(u)}

Write(u) == [op |-> "write", upd |-> u, want |-> <<>>, gen |-> gen]
Read(v) == [op |-> "read", upd |-> 0, want |-> v.want, gen |-> v.gen]

\* What evaluating the views V commits for slab s: writes, then attention.
Jobs(s, V) ==
  SetToSeq({Write(u) : u \in {w \in ToDo(V) : updates[w].slab = s}})
    \o SetToSeq({Read(v) : v \in {w \in V : w.slab = s}})

\* The views V are evaluated with the attention that reads them (eval_async, or
\* eval, which also waits).
Eval(V) ==
  /\ queue' = [s \in Slabs |-> queue[s] \o Jobs(s, V)]
  /\ Len(queue'["k"]) + Len(queue'["v"]) <= MaxJobs
  /\ updates' = [u \in DOMAIN updates |->
                   IF u \in ToDo(V) THEN [updates[u] EXCEPT !.committed = TRUE] ELSE updates[u]]
  /\ UNCHANGED <<position, latest, slab, gen, appended, kept>>

Written(s, W) == [r \in 1..MaxTokens |->
                    LET by == {u \in W : /\ updates[u].slab = s
                                         /\ r - updates[u].offset \in 1..updates[u].rows}
                    IN  IF by = {} THEN slab[s][r] ELSE CHOOSE u \in by : TRUE]

\* The evaluation fails while it is encoded, after the writes W were committed:
\* it waits for them, and keeps nothing.
EvalFails(V) ==
  /\ \A s \in Slabs : \A i \in DOMAIN queue[s] : queue[s][i].op = "read"
  /\ \E W \in SUBSET ToDo(V) : slab' = [s \in Slabs |-> Written(s, W)]
  /\ UNCHANGED <<position, latest, updates, gen, appended, kept, queue>>

Idle == \A s \in Slabs : queue[s] = <<>>

\* KvCache::reset.  Its caller has waited for the GPU.
Reset ==
  /\ PriorUpdateCommitted
  /\ Idle /\ gen < MaxResets
  /\ position' = 0
  /\ latest' = [s \in Slabs |-> 0]
  /\ gen' = gen + 1 /\ appended' = [s \in Slabs |-> <<>>]
  /\ UNCHANGED <<updates, slab, kept, queue>>

\* Mutant: a job waits for nothing.
ClearAtOnce(s, i) == TRUE

Clear(s, i) == \A j \in 1..(i - 1) : queue[s][j].op = "read"

\* The GPU runs job i of slab s.
Run(s, i) ==
  /\ Clear(s, i)
  /\ queue' = [queue EXCEPT ![s] = RemoveAt(@, i)]
  /\ slab' = IF queue[s][i].op = "write"
             THEN [slab EXCEPT ![s] = Written(s, {queue[s][i].upd})]
             ELSE slab
  /\ UNCHANGED <<position, latest, updates, gen, appended, kept>>

Next == \/ \E t \in Steps : Update(t) \/ UpdateFails(t)
        \/ \E s \in Slabs : KeepView(s)
        \/ \E v \in kept : DropView(v)
        \/ \E V \in SUBSET (kept \cup {View(s) : s \in Slabs}) \ {{}} : Eval(V) \/ EvalFails(V)
        \/ Reset
        \/ \E s \in Slabs : \E i \in DOMAIN queue[s] : Run(s, i)

Spec == Init /\ [][Next]_vars
-----------------------------------------------------------------------------
\* TypeOK: the fields of KvCache (kv_cache.rs:71-91) have their ranges, every
\* update lies within the slab, and the position counts the rows appended.
TypeOK ==
  /\ position \in 0..MaxTokens
  /\ latest \in [Slabs -> 0..Len(updates)]
  /\ \A s \in Slabs : latest[s] # 0 => updates[latest[s]].slab = s
  /\ \A u \in DOMAIN updates : updates[u].offset + updates[u].rows <= MaxTokens
  /\ slab \in [Slabs -> [1..MaxTokens -> 0..Len(updates)]]
  /\ gen \in 0..MaxResets
  /\ \A s \in Slabs : Len(appended[s]) = position

Intact(s, want) == \A r \in DOMAIN want : slab[s][r] = want[r]

\* AttentionReadsPrefix: whenever an attention of this sequence may run, the
\* rows of its view hold what was appended before the view was taken, even if
\* later updates have overtaken it, and whatever failed or was retried.
AttentionReadsPrefix ==
  \A s \in Slabs : \A i \in DOMAIN queue[s] :
    queue[s][i].op = "read" /\ queue[s][i].gen = gen /\ Clear(s, i) =>
      Intact(s, queue[s][i].want)

\* LatestHoldsPrefix: once the GPU is idle and the latest update is committed,
\* the slab holds the whole prefix: no update was dropped.
LatestHoldsPrefix ==
  Idle /\ PriorUpdateCommitted => \A s \in Slabs : Intact(s, appended[s])

\* NothingToReplay: an update that is not committed is the latest of its slab,
\* so no view kept from earlier can write into rows used again
\* (kv_cache.rs:44-48).
NothingToReplay == \A u \in DOMAIN updates : ~Committed(u) => u = latest[updates[u].slab]

\* PrefixSurvives: within a sequence no step changes a row of the populated
\* prefix that had its final content.
PrefixSurvives ==
  [][gen' = gen =>
       \A s \in Slabs : \A r \in 1..position :
         slab[s][r] = appended[s][r] => slab'[s][r] = appended[s][r]]_vars
=============================================================================
