---------------------------- MODULE EngramPrefetch ----------------------------
(***************************************************************************)
(* Engram rows fetched on side streams (fleet/adapter/engram_prefetch.py   *)
(* over the synchronous lookup of fleet/adapter/engram_backend.py).        *)
(*                                                                         *)
(* The Python side only queues work: on the main stream, where the model   *)
(* runs, and on one side stream per Engram layer.  A stream runs its queue *)
(* in order; two streams are ordered by nothing but wait_stream, which     *)
(* makes one wait for what the other had been given by then.  All lookups  *)
(* of a layer share the staging buffers of one capacity: ids and rows on   *)
(* the host, rows on the device.  A buffer's contents are the number of    *)
(* the forward pass whose ids or rows it holds.  The hash ids of a pass    *)
(* are freed when it was queued: the next pass's may get the same memory   *)
(* or other memory.                                                        *)
(*                                                                         *)
(* A forward over no token queues nothing and is left out; so is the       *)
(* first use that allocates staging buffers, but for its failure.          *)
(***************************************************************************)
EXTENDS Integers, Sequences

CONSTANTS
  Layers,      \* number of Engram layers
  MaxSteps,    \* bound: forward passes
  MaxErrors,   \* bound: errors raised while queueing
  MaxOthers    \* bound: lookups of other ids than the hashed ones

ASSUME PrefetchAssumption ==
  /\ Layers \in Nat \ {0}
  /\ MaxSteps \in Nat
  /\ MaxErrors \in Nat
  /\ MaxOthers \in Nat

VARIABLES
  step,        \* forward passes begun
  at,          \* where the Python thread is: "idle", "prefetch", "layer", "failed"
  layer,       \* the Engram layer it is at
  pending,     \* _pending: the layer's rows are on their way
  disabled,    \* no prefetching: DSV41_ENGRAM_PREFETCH unset, or _state["disabled"]
  check,       \* DSV41_ENGRAM_PREFETCH_CHECK, which is nothing without the other
  queue,       \* what each stream still has to run
  done,        \* how many operations each stream has run
  slot,        \* where the hash_ids of this pass are
  hash,        \* contents of the memory hash_ids is allocated from
  ids, rows, device,  \* contents of a layer's staging buffers
  out,         \* the last gather of each layer: what it was for, what it got
  differed,    \* _check_acc > 0 for some layer
  errors, others

python == <<step, slot, at, layer, pending, disabled, errors, others>>
memory == <<hash, ids, rows, device, out, differed>>
vars == <<python, check, queue, done, memory>>

Embeds == 1 .. Layers
Main == 0
Streams == {Main} \cup Embeds
Steps == 0 .. MaxSteps
Slots == {1, 2}

\* Ids that are not the hashed ones of step n.
Other(n) == -n

Init ==
  /\ step = 0 /\ slot = 1 /\ at = "idle" /\ layer = 1
  /\ pending = [e \in Embeds |-> FALSE]
  /\ disabled \in BOOLEAN
  /\ check \in (IF disabled THEN {FALSE} ELSE BOOLEAN)
  /\ queue = [s \in Streams |-> <<>>]
  /\ done = [s \in Streams |-> 0]
  /\ hash = [a \in Slots |-> 0]
  /\ ids = [e \in Embeds |-> 0]
  /\ rows = [e \in Embeds |-> 0]
  /\ device = [e \in Embeds |-> 0]
  /\ out = [e \in Embeds |-> [want |-> 0, got |-> 0]]
  /\ differed = FALSE
  /\ errors = 0 /\ others = 0

-----------------------------------------------------------------------------
(* Operations a stream runs: what, for which layer (or on which stream),   *)
(* with which number and, as history, in which forward pass.               *)

OpOf(pass, do, e, n) == [do |-> do, e |-> e, n |-> n, pass |-> pass]
Op(do, e, n) == OpOf(step, do, e, n)

\* Operations a stream has been given.
Issued(s) == done[s] + Len(queue[s])

\* Mutant: the side stream does not wait for the ids.
ForkNothing(e) == <<>>

\* side.wait_stream(main)
Fork(e) == <<Op("wait", Main, Issued(Main))>>

\* Mutant: the gather does not wait for the side stream.
JoinNothing(e) == <<>>

\* main.wait_stream(side)
Join(e) == <<Op("wait", e, Issued(e))>>

\* The lookup proper, from the copy of the ids, in a slot of hash ids or of
\* others, to the copies of the rows.
Lookup(e, from) == <<Op("ids", e, from), Op("serve", e, 0), Op("rows", e, 0)>>

\* engram_backend's owned, with the gather or the comparison at its end.
Synchronous(e, from, last, n) == Lookup(e, from) \o <<Op(last, e, n)>>

-----------------------------------------------------------------------------
(* The Python thread. *)

\* On to the next layer; after the last, from prefetching to the model and
\* from the model to the next forward pass.
Advance(from) ==
  IF layer < Layers
  THEN at' = from /\ layer' = layer + 1
  ELSE at' = (IF from = "prefetch" THEN "layer" ELSE "idle") /\ layer' = 1

\* Hasher.forward: the hash ids are computed on the main stream.
Forward ==
  /\ at = "idle"
  /\ step < MaxSteps
  /\ step' = step + 1
  /\ slot' \in Slots
  /\ queue' = [queue EXCEPT ![Main] = Append(@, OpOf(step + 1, "hash", slot', step + 1))]
  /\ at' = IF disabled THEN "layer" ELSE "prefetch"
  /\ UNCHANGED <<layer, pending, disabled, errors, others, check, done, memory>>

\* Mutant: a layer whose earlier prefetch nobody took is not fetched again.
PrefetchOnce ==
  /\ at = "prefetch"
  /\ queue' = IF pending[layer] THEN queue
              ELSE [queue EXCEPT ![layer] = @ \o Fork(layer) \o Lookup(layer, slot)]
  /\ pending' = [pending EXCEPT ![layer] = TRUE]
  /\ Advance("prefetch")
  /\ UNCHANGED <<step, slot, disabled, errors, others, check, done, memory>>

\* _prefetch of one layer.
Prefetch ==
  /\ at = "prefetch"
  /\ queue' = [queue EXCEPT ![layer] = @ \o Fork(layer) \o Lookup(layer, slot)]
  /\ pending' = [pending EXCEPT ![layer] = TRUE]
  /\ Advance("prefetch")
  /\ UNCHANGED <<step, slot, disabled, errors, others, check, done, memory>>

\* _prefetch raises, before it queues anything or when the host callback is
\* launched; forward disables the prefetch and forgets every pending one.
PrefetchFails ==
  /\ at = "prefetch"
  /\ errors < MaxErrors
  /\ errors' = errors + 1
  /\ \/ UNCHANGED queue
     \/ queue' = [queue EXCEPT
                    ![layer] = @ \o Fork(layer) \o <<Op("ids", layer, slot)>>]
  /\ disabled' = TRUE
  /\ pending' = [e \in Embeds |-> FALSE]
  /\ at' = "layer" /\ layer' = 1
  /\ UNCHANGED <<step, slot, others, check, done, memory>>

\* owned, with the rows of these very ids pending: join and gather.  In CHECK
\* mode the synchronous lookup follows and the two outputs are compared.
Gather ==
  /\ at = "layer"
  /\ pending[layer]
  /\ pending' = [pending EXCEPT ![layer] = FALSE]
  /\ queue' = [queue EXCEPT ![Main] =
                 @ \o Join(layer) \o <<Op("gather", layer, step)>>
                   \o (IF check THEN Synchronous(layer, slot, "compare", step)
                         ELSE <<>>)]
  /\ Advance("layer")
  /\ UNCHANGED <<step, slot, disabled, errors, others, check, done, memory>>

\* owned, with nothing pending: the synchronous lookup on the main stream.
LookUp ==
  /\ at = "layer"
  /\ ~pending[layer]
  /\ queue' = [queue EXCEPT ![Main] = @ \o Synchronous(layer, slot, "gather", step)]
  /\ Advance("layer")
  /\ UNCHANGED <<step, slot, pending, disabled, errors, others, check, done, memory>>

\* owned, asked for other ids than the pending ones: the same lookup, and what
\* is pending stays pending.
LookUpOther ==
  /\ at = "layer"
  /\ pending[layer]
  /\ others < MaxOthers
  /\ others' = others + 1
  /\ queue' = [queue EXCEPT ![Main] =
                 @ \o Synchronous(layer, Other(step), "gather", Other(step))]
  /\ Advance("layer")
  /\ UNCHANGED <<step, slot, pending, disabled, errors, check, done, memory>>

\* The host callback of a synchronous lookup, with nothing pending or to check
\* a gather, is not launched: the forward raises.
LookUpFails ==
  /\ at = "layer"
  /\ pending[layer] => check
  /\ errors < MaxErrors
  /\ errors' = errors + 1
  /\ LET gathered == IF pending[layer]
                     THEN Join(layer) \o <<Op("gather", layer, step)>> ELSE <<>>
     IN queue' = [queue EXCEPT ![Main] = @ \o gathered \o <<Op("ids", layer, slot)>>]
  /\ pending' = [pending EXCEPT ![layer] = FALSE]
  /\ at' = "failed"
  /\ UNCHANGED <<step, slot, layer, disabled, others, check, done, memory>>

-----------------------------------------------------------------------------
(* The streams. *)

\* The stream's first operation may run.
Ready(s) ==
  /\ queue[s] # <<>>
  /\ LET op == Head(queue[s]) IN op.do = "wait" => done[op.e] >= op.n

\* What an operation does to the buffers.
Effect(op) ==
  \/ /\ op.do = "wait"
     /\ UNCHANGED memory
  \/ /\ op.do = "hash"
     /\ hash' = [hash EXCEPT ![op.e] = op.n]
     /\ UNCHANGED <<ids, rows, device, out, differed>>
  \/ /\ op.do = "ids"
     /\ ids' = [ids EXCEPT ![op.e] = IF op.n > 0 THEN hash[op.n] ELSE op.n]
     /\ UNCHANGED <<hash, rows, device, out, differed>>
  \/ /\ op.do = "serve"
     /\ rows' = [rows EXCEPT ![op.e] = ids[op.e]]
     /\ UNCHANGED <<hash, ids, device, out, differed>>
  \/ /\ op.do = "rows"
     /\ device' = [device EXCEPT ![op.e] = rows[op.e]]
     /\ UNCHANGED <<hash, ids, rows, out, differed>>
  \/ /\ op.do = "gather"
     /\ out' = [out EXCEPT ![op.e] = [want |-> op.n, got |-> device[op.e]]]
     /\ UNCHANGED <<hash, ids, rows, device, differed>>
  \/ /\ op.do = "compare"
     /\ differed' = (differed \/ out[op.e].got # device[op.e])
     /\ UNCHANGED <<hash, ids, rows, device, out>>

Run(s) ==
  /\ Ready(s)
  /\ Effect(Head(queue[s]))
  /\ queue' = [queue EXCEPT ![s] = Tail(@)]
  /\ done' = [done EXCEPT ![s] = @ + 1]
  /\ UNCHANGED <<python, check>>

\* Every pass of the bound was queued, or one raised, and all work is done.
Finished ==
  /\ \A s \in Streams : queue[s] = <<>>
  /\ at = "failed" \/ (at = "idle" /\ step = MaxSteps)
  /\ UNCHANGED vars

Next ==
  \/ Forward
  \/ Prefetch \/ PrefetchFails
  \/ Gather \/ LookUp \/ LookUpOther \/ LookUpFails
  \/ \E s \in Streams : Run(s)
  \/ Finished

Spec == Init /\ [][Next]_vars

-----------------------------------------------------------------------------
(* Properties. *)

\* Each gather delivers the rows of the ids it was called with: never those of
\* an earlier pass still in the staging buffers, never half of two lookups.
GatherExact == \A e \in Embeds : out[e].got = out[e].want

\* No error was raised while queueing and no layer asked for other ids.
Smooth == errors = 0 /\ others = 0

\* The same where it does hold: as long as every prefetch is joined by the
\* gather it was queued for; CHECK mode then never counts a gather that differs
\* from the synchronous lookup of the same ids.
GatherExactWhenSmooth == Smooth => GatherExact /\ ~differed

\* Other ids do not outlive their call: a lookup of them leaves a prefetch
\* pending that nobody joins in this pass, and still every gather of hashed ids,
\* of the same layer in a later pass too, gets its own rows.
HashedExact ==
  errors = 0 =>
    /\ \A e \in Embeds : out[e].want > 0 => out[e].got = out[e].want
    /\ ~differed

\* The buffers an operation writes and all it touches.
Writes(op) ==
  CASE op.do = "hash"  -> {<<"hash", op.e>>}
    [] op.do = "ids"   -> {<<"ids", op.e>>}
    [] op.do = "serve" -> {<<"rows", op.e>>}
    [] op.do = "rows"  -> {<<"device", op.e>>}
    [] OTHER           -> {}
Touches(op) ==
  Writes(op) \cup
  CASE op.do = "ids"   -> IF op.n > 0 THEN {<<"hash", op.n>>} ELSE {}
    [] op.do = "serve" -> {<<"ids", op.e>>}
    [] op.do = "rows"  -> {<<"rows", op.e>>}
    [] op.do \in {"gather", "compare"} -> {<<"device", op.e>>}
    [] OTHER           -> {}

\* No two streams may be at a buffer at once when one of them writes it: a
\* staging buffer is reused only after the gather that read it, and the hash
\* ids of the next pass are not written under a side stream's copy.
NoStreamRace ==
  Smooth => \A s \in Streams : \A u \in Streams \ {s} :
    Ready(s) /\ Ready(u) =>
      Writes(Head(queue[s])) \cap Touches(Head(queue[u])) = {}
===============================================================================
