# Models and proofs of the DeepSeek-V4.1 deployment

This directory holds TLA+ modules of the program under `src/`: an adapter loaded
into sglang on every rank (`fleet/adapter`), the program that runs in each
container (`fleet/boot.py`), and the shell scripts that bring a head and its
workers up and down (`fleet/start.sh`, `scripts/svc.sh`, `scripts/svc-boot.sh`).
TLC checks the modules on small instances; TLAPS proves the theorems of the
`*Proofs` modules for every value of the constants. `PROJECT.json` maps each
definition to the lines it stands for and lists runs, hazards, findings and
theorems.

    tlc -config RowStore.cfg MCRowStore.tla         # one run
    tlapm IoPoolProofs.tla                          # one component's proofs

## 1. Inventory

| Component | State it keeps | Operations | Hard behaviour | Correct when |
|---|---|---|---|---|
| I/O pool (`row_store.cpp`, class Pool) | one published job, ticket/remaining/active counters, generation | `run`, `drain`, `loop` | callers and workers on one mutex, two condition variables and relaxed atomics; late workers | every id served once; no worker holds a returned Work; `run` returns |
| Row store (`row_store.cpp`) | rank's range, pinned scales, attached shard, set-associative cache under mutexes, one for each stripe of sets | open, range, attach, lookup, stats | concurrent misses and evictions, read failures, wrong shards | a lookup is the exact row, or zeros for another rank's row |
| Geometry (`row_store.cpp`, `engram_backend.py`) | none | shard bounds, budgets, page reads | division, boundaries | shards partition the table; cache and reads stay in their bounds |
| Engram backend (`engram_backend.py`) | store handles, staging buffers per capacity | load, synchronous lookup | shares the staging with the prefetch | rows of the ids asked for |
| Engram prefetch (`engram_prefetch.py`) | pending lookups, side streams, disabled flag | issue, join, check mode, error path | host runs ahead of four streams | same rows as the synchronous lookup |
| Autotune keeper (`autotune_keep.py`) | cache and sidecar file per rank | install, digest, tuning context | crashes between two files, ranks disagreeing | caches loaded by all ranks or none, and only by the launch they were tuned for |
| Launcher (`start.sh`, `boot.py`) | containers of all nodes, head's log | `cmd_serve`, `serve` (boot.py) | ssh failures, name conflicts, smoke failing after health, timeouts | ranks of one launch only; ends up, or fails and says so |
| Service control (`svc.sh`, `svc-boot.sh`, `dsv41.service`) | none of its own; reads containers and `/health` | start, stop, restart, verify, boot | a serve left in the background, partial stops, workers ssh does not reach, reboots | what it announces is true |
| Verify cap (`verify_cap.py`) | live-length buffer, last confidence | cutoff, run, accept | consumed and stale confidence, rank agreement | accept never passes what was verified; ranks agree |
| Folded fence (`folded_result_fence.py`) | none | clone of folded results | copy stream against next replay | the copied result is this step's |
| wo_a twins (`wo_a_w8.py`) | twins keyed by data pointer, dropped set, speculative flag | install, build, drop, dispatch | address reuse, import order, two kinds of engine | each product reads its own weight; prefill keeps its numerics |
| TP=3 padding (`tp3_pad.py`, `mxfp8_b12x.py`) | none | padded counts, shard loading, scale repair | last shard partly or wholly padding | shards cover, padding is neutral, kernels accept its scales |
| Loop abort (`loop_abort.py`) | none | repetition detection | trimming at the start of the sequence | equals its definition |
| Block verify (`block_verify.py`) | none | tau and correction | saturating recursion | distribution preserved |
| Encoding (`encoding_compat.py`) | none | thinking aliases, token cap | two optional limits | cap always applied |
| Chunked indexer (`indexer_chunked.py`) | none | row chunks under a budget | masks of tail rows published by one layer and consumed by later ones, padding, requests without keys | equals the unchunked selection |
| Import hooks (`sitecustomize.py`) | none of its own; Python's module table | find, exec, install | import order; a module missing from the list | each enabled adapter is installed once, after its module |
| Boot prepare (`boot.py`) | checkpoint directory, receipt | download, verify, wait | files rewritten while hashed, receipts of earlier releases, partial checkpoints | a receipt vouches for the files |
| NFS share, patch and bench scripts | external only | one-shot commands | -- | not modelled |

Interactions. `start.sh` removes and starts containers over ssh; each container
runs `boot.py`, which starts sglang; sglang imports `sitecustomize.py`, whose
hooks put the adapter's patches in. `engram_backend` opens one row store per
Engram layer and serves lookups from a CUDA host callback, which calls the pool;
`engram_prefetch` queues the same lookups on side streams. `autotune_keep` wraps
the engine's tuning context on every rank. `svc.sh` drives `start.sh` and reads
`docker ps` and `/health`; `svc-boot.sh` drives `svc.sh` after a reboot.

## 2. Modules

### IoPool, abstract ParallelFor
One variable per field of `Pool` (`job`, `next`, `chunks`, `remaining`,
`active`, `generation`) and a program counter per thread. A critical section is
one step, except that a wait which finds its predicate false keeps the mutex
until it sleeps (`Block`), so that a notification sent outside the lock can be
lost as in the code. Wakeups may be spurious. `served` is history. `ParallelFor`
is the promise to callers: one loop at a time, each id once, return when all are
done; `ImplementsLoop` is the refinement.

Left out: the destructor (the pool is a leaked static) and `row_store_lookup`'s
serial path for fewer than eight ids, which calls `serve` directly. Relaxed
memory orders are modelled as sequentially consistent: `chunks_` and the reset
of `next_` are published by the mutex, which `NoResetUnderDrain` shows to be
enough, and the decrement of `remaining_` is acquire-release.

### RowGeometry, RowLayouts
The arithmetic as operators; `RowLayouts` picks one layout per behaviour and
states what the arithmetic is to achieve. Its run is AdapterRules'.

### RowStore, abstract RowTable
Loading (`Open`, `SetRange`, `Attach`, their failures) and lookups (`Hit`,
`CopyHit`, `Miss`, `Read`, `ReadScale`, `CountMiss`, `Fill`, `SetKey`, `Deliver`)
by several threads. A miss is one read or two, each counted when it is done, and is
itself counted after them, so `row_store_stats`, which reads the counters while
others look up, may see reads whose miss is still to come: `ReadsAccounted` says
exactly how many. A row's bytes are `<<layer, weight row, scale row>>`, so a wrong offset, a weight
with another row's scale and a torn copy are different values. `RowTable` is an
immutable table; `ImplementsTable` the refinement. The adapter loads a store
once, so a second range call is not an action; `row_store_close` is never called.

### EngramPrefetch
The Python thread only appends operations to the queues of the main stream and
one side stream per layer; the streams run them in order, and `wait_stream`
appends a wait for what the other stream had been given. Buffers hold the number
of the pass whose ids or rows they contain, so `GatherExact` compares passes. An
operation also carries the pass that queued it, as history for the proofs.

### AutotuneKeep
Files survive boots; a boot takes a launch per rank, the switch on or off, runs
every rank through enter, gate, load, tune, save and sidecar, and may crash in
between or fail to write a sidecar. The gate and the cache file are sglang's,
modelled as the adapter relies on them.

### Launch
Containers, `start.sh serve` processes and one svc command interleave. A serve
goes through check, prepare, clean (head, then workers), push, start (workers,
then head) and poll; a container through created, loading (GPU taken), serving
(`/health`) and exited. An exited container keeps its name, so `docker run`
fails on it. Node by node loops stay node by node. `stop.sh` is not in the
repository: it may leave the containers of `Stubborn`. The looks of `svc.sh` at a
node of `Unreachable` may fail with their ssh: `cmd_stop` takes the empty answer for
a node without containers (`SeesNothing`), `preflight`, which compares it with `0`,
for a running service (`SeesService`), and `verify` fails. Not modelled: a docker
daemon that does not answer on a node that does, and GPU processes outside the
containers. Verification's GPU, IB
port and kernel checks are outcomes (`failed`); `SKIP_SMOKE` and `FORCE` have
their defaults.

### VerifyCap
The verify steps of all ranks: `Schedule` gives them one batch, `Draft` keeps the
confidence, `Run` is `run_non_compact` with `set_live_from_confidence` and its
broadcast, `Verify` the forward with its remapped router ids and the capped
acceptance. A confidence is the number of leading drafts that reach the
threshold; ranks may differ in it. What a dead row tells is arbitrary
(`Confirmed`), so acceptance past the cap would show. `Copy` is the scheduler's
copy stream; folded results are clones, the fence being on. Without it
(`DSV41_FOLDED_FENCE=0`, the default) `HostReadsItsStep` fails, as the file's
own comment says: that is the mutant `Detached`. Left out: graph padding, the
measurement log, the building of the confidence head, and live buffers created
under capture, which an assertion refuses.

### ImportHooks, WoATwin
`ImportHooks` has the finder's list (`Watched`), the branches of `exec_module` with
the switch each install waits for (`Chain`), and imports that may nest: the draft
model's module imports the target's before its own body is done. Its `Finish`
installs what the module's branch lists (an install that raises is not modelled: it
ends the import and with it the boot); `Serves` says, from the adapters
themselves, which module each is for. `WoATwin` extends it: when a model's module
is done, `install_model` or `install_dspark` runs in the same step (`Import`).
An engine has small-batch kernels for wo_a or it does not, and everything else
follows: who dispatches, whose load is wrapped, whether the draft may be dropped.
`Load` writes the weights and registers those twins that reproduce their weight,
`Drop` frees one bf16 copy or keeps it, `Enter`, `Call` and `Leave` are a forward
pass. A tensor is an address and what its bytes are, a product the weight whose
bytes it read and who computed it, so a wrong twin, a tag taken for a weight and a
kernel used where the stock one is wanted are different values. Freed addresses
are given out again. Weights are loaded once, two passes never overlap on the host,
and an activation has the standard layout or not (one flag). Weights are
contiguous: the copy `_wo_a_view` makes of one that is not (`wo_a_w8.py:46`) is left
out.

### PrepareCheckpoint
Rank 0's `prepare()` over the life of a node: download, four hashing threads as
interleaved `Stat`, `Hash` and `Recheck` of each file, the receipt. Files may be
rewritten and the container may end at any moment, and a later release may pin
another revision. Assumed: a rewrite changes size, mtime or inode, and files of two
revisions have different digests. `SKIP_PREPARE` and `SKIP_VERIFY` are the
parameters of `Boot` and `Downloaded`. Left out: the check of the index against the
siblings (it compares names alone), and the other ranks' wait for `config.json`.

### BlockVerify (with Rationals), IndexerChunked, Tp3Pad, Mxfp8Scales, LoopAbort, EncodingCompat
Pure algorithms as operators. `BlockVerify` gives the probability of each accepted
length and the distribution of the correction as exact fractions. `IndexerChunked`
keeps which row is scored in which chunk, against which keys, and where its mask
and selection go; a kernel's result depends on those alone. A layer that is the
source of candidates publishes a mask for each request (`CandidateMasks`, empty
without keys), for the rows that survive `enter_late_layer_tail`; a later layer
scores those rows only, in its own chunks, and selects under the mask's rows
(`MaskRow`, `Allowed`). What `select_candidate_blocks` picks for a row is an input
(`pick`), and `mask_topk_scores`, also outside the repository, drops what the mask
forbids. The early return of a batch without keys is the same as every request
being empty. `Tp3Pad` has the
padded counts, the vocabulary and the loaders; `Mxfp8Scales` what becomes of the
block scales of padding, by kind of float. `LoopAbort` has the detectors over
tokens, one of which is a newline and one a blank, each decoding to one character.
`EncodingCompat` has the two rewrites of a chat request.

`AdapterRules` extends all of these, `RowLayouts` and `PrepareCheckpoint`: a behaviour
is one input of one part, kept for good, or `prepare()` over some boots.

## 3. Runs

| Run | Question | Bounds and why they are enough |
|---|---|---|
| io_pool | tickets, pointers, counters, refinement, `run` returns | 2 workers, 2 callers, 2 jobs of 1 or 5 ids, chunk 2, 1 spurious wakeup: a worker can sleep through a job, arrive late for the next, and meet a partial chunk. Safety is proved for all bounds |
| row_store | exact rows, coherent cache, every read accounted for, nobody waits for ever | 2 threads, 4 lookups, two two-way sets under one stripe, 4 owned rows: a row missed by both threads fills both ways, and the next miss evicts it while the other thread hits it; five shard files of which one fits. Safety is proved for all bounds |
| prefetch | exact gathers, also of hashed ids after foreign ones, no races | 2 layers, 2 passes (staging and hash memory are reused), with the switch on or off, 1 error, 1 lookup of other ids. Safety is proved for all layers and passes |
| autotune | all ranks or none, reuse, caches belong to their launch | 2 ranks, 2 configurations, 3 boots (one to tune, one to disturb, one to load), 1 crash, 1 failed write. Safety is proved for all bounds |
| launch | launches never mix, announcements are true, everything ends | head and 1 worker, 2 serves, 2 commands, 1 wait given up, 1 lost removal, 1 reboot, a worker that stop leaves and svc.sh may not reach. With two workers the state space triples and the run still passes. Safety is proved for all bounds and workers |
| verify_cap | confidences of their step, rank agreement, exact commits, the host's copy | 2 ranks, 2 requests, 2 drafts, 3 steps (one result outstanding while the next is overwritten, and a step without confidence after one with): rows, cap and bonus meet at each boundary. Proved for all bounds |
| adapter_rules | layouts, lossless sampling, chunks against one pass, shards against the checkpoint, scales accepted, loops found, caps, honest receipts | edges of layouts: indivisible tables, budgets around one set, reads that straddle pages; 2 tokens, 2 drafts, probabilities in thirds (0 and 1 among them), live 0 to 2; 2 requests of 0 to 10 tokens, budgets of 1 to 4 rows of the smallest, tails of those lengths, candidates that differ from row to row and request to request; 1 to 16 groups of 1 to 8 heads on 2 to 8 ranks; 1 to 16 rows of scales, of each kind of memory; outputs of up to 5 of 4 tokens under 24 configurations, with limits just reached or not; tokens and caps around 32768; 2 files, 2 revisions and 4 writes: enough for a receipt, a rewrite while a later boot hashes, and another release. Proved for all bounds, `PaddedExact` for models whose heads fit their padding |
| wo_a | adapters in place, twins under live addresses, products of their own weight, prefill numerics | 2 target weights and 1 draft weight on 5 addresses (a freed address is used by a tag, a scratch buffer or the draft), both kinds of engine, 17 sets of switches, 3 import orders, 4 modes, 4 sizes of a pass, standard activations or not. Proved for all bounds |
| hooks_indexer | does a switch install its adapter? | the attention modules, `DSV41_INDEXER_CHUNKED` on |

`PaddedExact` demands nothing of the loader of `ColumnParallelLinear` where a rank's
shard begins past the end of the checkpoint: `0 <= real` (`tp3_pad.py:182`) then
leaves block scales unwritten, although the comment below it wants a power of two.
`ScalesAccepted` shows that the repair in `mxfp8_b12x.py` makes up for it, whatever
the memory held but for an infinity: its mantissa bits are zero and it is above
zero, so `_repair_padded_scales` takes it for a power of two, and the property
leaves it out. Probabilities are exact in the model; what rounding of floats does
to `Lossless` is not covered.

CHECK_DEADLOCK is off only for the launch runs, where the system may rest after
the last command.

Some properties hold on a condition, named in the formula and shown necessary by
a counterexample: `Smooth` (no error while queueing, no foreign ids) in
EngramPrefetch (`HashedExact` has foreign ids, and no error only), the nodes that
stop reached in `StopIsClean`, an undisturbed sidecar in `KeptForLaunch`, `Patient` (no wait
given up while its serve prepares) in Launch. The last one is worth knowing:
`svc.sh` gives up 40 s after the spawn when the head's container is not there
yet; the serve goes on, a second start passes its checks, and since `start.sh`
looks at the GPU long before it removes the head, one serve can remove the
other's. Nor does it hold when stop leaves the head itself (run launch_restart).
`svc.sh` announces the service at `/health`, before the smoke request that
`start.sh` waits for; this is its own definition of ready, not counted a finding.

Four runs end in a counterexample; each is a finding:

* **prefetch_error** -- after an exception the prefetch is disabled, but what it
  queued is never joined and can overwrite the staging of a synchronous lookup.
* **autotune_stale** -- a cache stays beside another launch's sidecar after a boot
  with the switch off (or one that ended between the two writes). The ranks still
  agree: `AllOrNone` holds.
* **launch_restart** -- a restart whose stop left the old containers announces
  them as new (socket transport; with RoCE the log check fails instead).
* **hooks_indexer** -- `sitecustomize.py` neither watches `deepseek_v4_backend` nor has a
  branch for it, so the chunked indexer is never installed, though `NOTICE` says
  that the branch was added and `start.sh` passes its switch. What IndexerChunked
  models is what the adapter does once it is called.

After a reboot of the head alone the workers' containers still run; `svc-boot.sh`
looks at the head only and `svc.sh start` then refuses. `Launch` has this outcome
(`Reboot`, then `Preflight`), and no property forbids it.

`svc.sh stop` counts a worker that its ssh does not reach as empty (`svc.sh:205-208`) and
says that everything is stopped while a container may run there, although `svc.sh:16`
wants every node checked. `StopIsClean` leaves out exactly the nodes that this stop did
not reach; without `n \in op.blind` TLC finds it violated.

## 4. Fairness

* IoPool: weak fairness for callers inside `run`, threads draining and workers
  that joined. None for a waiting worker, since the code claims that progress
  never depends on a wakeup.
* RowStore: each thread inside `serve` is scheduled. A thread that waits for a
  stripe's `std::mutex` gets it because lookups are finite (`MaxLookups`); the
  mutex promises no order, and under an endless stream of others the property would
  need more.
* EngramPrefetch, WoATwin, PrepareCheckpoint, VerifyCap, AutotuneKeep: none, safety
  only.
* Launch: the shells go on with their scripts, whose loops are bounded by a count
  or a clock. Nothing is assumed of engines, nodes or users.

## 5. Theorems

| Theorem | For all | Argument |
|---|---|---|
| PoolInvariant | finite worker sets, callers, counts, chunk sizes, bounds | `PoolInv` is inductive: the counters equal cardinalities (`remaining` = outstanding tickets, `active` = joined workers), so `remaining = active = 0` means that all is done. The counters alone are not inductive: the tickets held and the pointers of joined workers are needed beside them |
| NoStaleWorkerHolds, NoResetUnderDrainHolds, ServedOnceHolds | same | consequences of `PoolInv` |
| RunCompleteHolds | same | `ReturnInv` gives all tickets; the spans of the tickets cover the ids by the ceiling division |
| PoolImplementsLoop | same | each step is a step of ParallelFor or a stutter, under `PoolInv` |
| ShardsPartitionHolds, CacheFitsHolds, HostBudgetUsedHolds, ReadCoveredHolds | every table, rank count, budget, associativity, offset | integer division bounds |
| StoreInvariant, CacheCoherentHolds | every geometry and thread set | `StoreInv` adds to coherence who holds a stripe and what a thread past its lock has seen |
| StoreImplementsTable | same | each `Deliver` answers the row by `StoreInv`; other steps stutter or load |
| AllOrNoneHolds | any rank set, launches and bounds | `KeepInv`: past the gate every rank's cache is present and equal, or none is |
| ConfidenceOfStepHolds | any ranks, batch, block size | a conjunct of `CapInv`: run consumes what draft left |
| RanksAgreeHolds | any ranks, batch, block size, confidences | `CapInv`: in the middle of a step the ranks past `run` have what the others will have once they fill in what the root sent; no rank gets there before the root |
| CommitsAsIfShorterHolds | same, whatever dead rows tell | all rows below the live length are computed (`LiveComputed`), so the cap leaves the shorter verify's count (`CapExact`) |
| HostReadsItsStepHolds | any ranks, batch, results outstanding | `OwnInv`: every result on its way to the host is a clone, so no later verify writes it |
| ReadsAccountedHolds | every geometry, file and thread set | `ReadsInv`: nothing is read before the store serves, so every read was made under the final scales and shard; a read whose miss is not counted yet, and a lookup not counted yet, are counted by where their threads are |
| GatherExactWhenSmoothHolds, NoStreamRaceHolds | any layers and passes | `PrefetchInv`: beside what the buffers hold when a stream comes to read them (`Reads`), each wait of a side stream is for the ids of its pass (`Forked`), a gather's wait for its rows (`Fetching`), and whatever a side stream still has to run is waited for within its pass (`Joined`), which keeps the next pass off the staging |
| KeptForLaunchHolds | any ranks, launches, boots and bounds | `KeptInv`: without a disturbance a sidecar beside a cache is the launch it was tuned for, except between the two writes |
| ReusedWhenUnchangedHolds | same, whatever came before | `ReusedInv`: a boot that repeats a completed one has a loadable cache on every rank, so the gate drops none |
| LaunchInvariant | any workers, serves, commands, lost removals, reboots; `0 \notin Stubborn` | `LaunchInv`: while `Patient`, a serve that prepares is the one its command waits for and the head is down (`Alone`), as it has been since the command looked (`Cleared`); what that serve has started is its own (`Ours`) |
| OneLaunchHolds, AnnouncedIsMineHolds, StopIsCleanHolds, NoTakeoverHolds | same | consequences of `LaunchInv`; for `StopIsClean` a running container is on a node not looked at yet, one seen, or one that could not be reached; the last is the action property, from one step of it |
| TwinInvariant | any weights, addresses, switches and orders of imports | `TwinInv`: beside the properties, a freed weight belongs to a model whose every product is dispatched (`Routes`: the installs agree with the switches and with each other, although the draft's depends on the target's having run), twins and storages do not share addresses (`Placed`), and a prefill never finds the flag set (`Speculation`) |
| KeysLiveHolds, OwnWeightHolds, PrefillStockHolds | same | `TwinFound` gives the twin a dispatch finds, `ProductRight` follows each path of a product |
| HooksInPlaceHolds | any switches and order of imports | `HookInv`: a module whose body runs is not loaded, so it installs once; branch by branch, what `exec_module` installs is what the adapters say |
| ChatCappedHolds | any caps, tokens and switches | by cases on the two limits |
| ColumnShardExact, LinearShardExact | any checkpoint, rank and shard size | row by row what a loader leaves in a rank's shard, for shards inside, across and past the end |
| PaddedExactHolds | any tensor-parallel degree; `PaddableHeads` | the legal per-rank counts are multiples of the groups' rounding, and the two lemmas above |
| ScalesAcceptedHolds | any rows and ranks, any kind of memory but an infinity | the repair turns each kind of float the loader can leave into a power of two |
| LoopFoundHolds | any outputs and limits | a least number `p` of tokens by which an end of the output repeats is a cycle; copies of a cycle are what the two detectors count (`CopiesCycle`, `CycleFinds`, `IdenticalFinds`) |
| ChunksExactHolds | any contexts, rows, budgets, tails and picked candidates; requests without keys or rows included | `ChunksCover`: chunks are consecutive intervals of the rows; `KeysOffered`: the keys of the requests lie one after the other, so a row's window holds its own request's (`PlainSelected`); `TailPublished` and `MaskKept`: row `r` of a mask has what was picked for the `r`-th surviving row, wherever the chunks of the two layers begin (`PickySelected`) |
| LosslessHolds | any vocabulary, drafts, verified drafts and rational distributions | below |
| PrepareHonestHolds | any files, revisions, writes and boots | `PrepareInv`: a stat noted earlier is never used again, so a file that still has it has the bytes hashed between the two looks, or those of a fitting receipt |

`LosslessHolds` says of `block_verify.py` what a sampling test can only estimate. After
drafts `z`, let `w` be the weight, `S` the mass of the residual, `K` how likely the draft
model's next token is drawn and its weight kept, and `N` how likely every later draw
fails. Then:

1. `S + K = w` (`MassBalance`): the residual is `max(w p - q, 0)` and what is kept
   `min(w p, q)`, token by token (`TokenBalance`).
2. `N + K = 1` (`FailingBalance`), by a downward induction on the length of `z`. The
   draw after one more token passes with `S / (S + 1 - w)`; with 1. and the claim for that token the
   chance to fail there and later is `1 - w` of that token (`DrawBalance`).
3. So `n` drafts are accepted and `y` comes out with the chance that the draft model
   draws the first `n` tokens of `y`, times the residual of the next one, times the
   target's chance of the rest (`GivenIs`): the pass cancels the mass that the
   correction divides by.
4. With what is left for larger `n` this makes what was left for `n` (`GivenBalance`), so the
   sum over all `n` telescopes to the target's chance of `y` (`GivenTotal`).

The cases that a division hides are proved with the rest: a token the draft model cannot
draw, a weight of 0 after the last verified draft, an empty residual. Below lies a theory
of fractions in lowest terms (`GcdStep` to `PartOfWhole`), of their sums and products, and
of sums over drafts taken token after token (`TreeExists` to `TreeUnder`).

The proofs rest on the named ASSUME of the component's module. Two have a
hypothesis beyond it:

* the theorems of LaunchProofs assume `0 \notin Stubborn`: stop leaves no container
  on the head. That is the boundary and not a convenience, since run
  launch_restart shows `AnnouncedIsMine` violated when it leaves one there, and
  TLC finds the same of `StopIsClean`. Workers may be stubborn.
* `PaddedExactHolds` assumes `PaddableHeads`: a group has 1, 2, 4 or 8 heads and a
  rank not more than 128. The first is what 8-head padding divides, the second where
  the list of legal counts in `tp3_pad.py` ends: past its last entry the padded
  count is cut below the heads there are, and TLC finds `PaddedExact` violated
  (64 groups of 8 heads on 2 ranks, or one group of 16).

Where a proof needs an induction over numbers it takes the least counterexample
instead (`LeastNumber`, from the well-foundedness of `<`); in this way the sums and
slots of IndexerChunked, and the greatest common divisor, sums, products and weights of
BlockVerify, which are recursive functions, are shown to exist and to have the
values their definitions say.

Left to TLC:

* `RunReturns`, `LookupEnds`, `ServeEnds`, `CommandEnds`: liveness under
  fairness, and with it ENABLED;
* `HashedExact`: the proved invariant of EngramPrefetch is about passes without
  foreign ids, and a prefetch left pending over passes needs another.

## 6. Plan

Done in this order: IoPool, RowGeometry/RowLayouts, RowStore, EngramPrefetch,
AutotuneKeep, Launch, VerifyCap (with the folded fence), BlockVerify,
IndexerChunked, Tp3Pad, ImportHooks and WoATwin, PrepareCheckpoint, LoopAbort,
EncodingCompat, Mxfp8Scales. Next, most important first:

1. Proofs: that twins of WoATwin and the row store's loading refine abstract
   specifications of their own.
2. Two models on two streams in WoATwin: passes that overlap on the device.

Not modelled:

* the wait of ranks other than 0 for `config.json` (`boot.py:49-55`): what they see
  is decided by NFS and the downloader's order of files, both outside the code;
* the blocks of `pin_scales` (`row_store.cpp:268-305`): offsets linear in the row and a
  loop that ends the process on a failed read; RowStore has its outcomes;
* the fallback of a rejected MXFP8 shape to cutlass, and the forced padded loading
  of experts: they pick a kernel or a constant;
* the draft head in fp8, the draft temperature and `empty_cache` per prefill:
  numerics or one call, without control of their own;
* NFS and docker volume commands, patch scripts, benchmarks and probes: pure I/O
  against files or a running service.
