------------------------------- MODULE RowStore -------------------------------
(***************************************************************************)
(* One rank's Engram row store (fleet/adapter/row_store.cpp), loaded and   *)
(* used the way engram_backend.py does: open the checkpoint file, take the *)
(* owned range and pin its scales, attach the repacked shard when there is *)
(* one, then look rows up from several threads at once through a set-      *)
(* associative cache whose sets share striped locks.                       *)
(*                                                                         *)
(* A row's bytes are <<layer, row of the weight, row of the scale>>, so    *)
(* that a wrong offset, a weight paired with another row's scale or a torn *)
(* copy are different values.  Files do not change, so a pread is one step *)
(* with its count; the lock-protected copies are split so that the locks   *)
(* matter, and the row is counted as a miss in a step after its reads.     *)
(***************************************************************************)
EXTENDS RowGeometry, FiniteSets

CONSTANTS
  Threads,      \* threads inside serve(): the pool's and the caller
  Rows,         \* num_embeddings
  Rank, Tp,     \* this process among the tensor-parallel ranks
  Layer,        \* layer_id
  Sets, Ways,   \* geometry of the cache in nvme mode
  Stripes,      \* number of locks (256)
  Shards,       \* what the file of the repacked shard may hold
  MaxLookups,   \* bound: how many ids are ever looked up
  NoThread, NoRow, Zero

ASSUME StoreAssumption ==
  /\ Rows \in Nat
  /\ Tp \in Nat \ {0} /\ Rank \in 0 .. Tp - 1
  /\ Sets \in Nat /\ Ways \in 1 .. 16
  /\ Stripes \in Nat \ {0}
  /\ MaxLookups \in Nat
  /\ IsFiniteSet(Threads) /\ NoThread \notin Threads
  /\ NoRow \notin Nat

VARIABLES
  stage,        \* "new", "opened", "ranged", "ready" or "aborted"
  ram,          \* OFFLOAD_MODE=ram: the file is resident, there is no cache
  row_lo, row_hi,
  scales,       \* pinned scale rows: index -> row, the empty function if none
  packed,       \* the attached shard's header, or NoRow
  keys,         \* keys[set][way]: id + 1, or 0 when empty
  cache,        \* cache[set][way]: the bytes of a row
  victim,       \* victim[set]: round-robin replacement cursor
  locks,        \* locks[stripe]: the thread inside, or NoThread
  pc, id, way,  \* where each thread is, the id it serves, the way it copies
  buf,          \* the 264-byte row buffer of each thread
  out,          \* the last row each thread wrote to the caller's buffers
  lookups,      \* how many ids were looked up
  wanted,       \* how many of them were this rank's rows (history)
  hits, misses, reads

table == <<stage, ram, row_lo, row_hi, scales, packed>>
slots == <<keys, cache, victim>>
stats == <<wanted, hits, misses, reads>>
vars == <<table, slots, locks, pc, id, way, buf, out, lookups, stats>>

None == [i \in {} |-> i]
SetIndices == 0 .. Sets - 1
WayIndices == 0 .. Ways - 1
Cached == Sets > 0 /\ ~ram
SetOf(i) == i % Sets
StripeOf(i) == SetOf(i) % Stripes

\* The bytes the table holds for row i.
Row(i) == <<Layer, i, i>>

Init ==
  /\ stage = "new" /\ ram = FALSE
  /\ row_lo = 0 /\ row_hi = 0
  /\ scales = None /\ packed = NoRow
  /\ keys = [s \in SetIndices |-> [w \in WayIndices |-> 0]]
  /\ cache = [s \in SetIndices |-> [w \in WayIndices |-> Zero]]
  /\ victim = [s \in SetIndices |-> 0]
  /\ locks = [l \in 0 .. Stripes - 1 |-> NoThread]
  /\ pc = [t \in Threads |-> "idle"]
  /\ id = [t \in Threads |-> 0]
  /\ way = [t \in Threads |-> 0]
  /\ buf = [t \in Threads |-> Zero]
  /\ out = [t \in Threads |-> NoRow]
  /\ lookups = 0 /\ wanted = 0
  /\ hits = 0 /\ misses = 0 /\ reads = 0

Goto(t, place) == pc' = [pc EXCEPT ![t] = place]

-----------------------------------------------------------------------------
(* Loading. *)

\* fail(): the process aborts.
Abort ==
  /\ stage' = "aborted"
  /\ UNCHANGED <<ram, row_lo, row_hi, scales, packed, slots, locks, pc, id, way,
                 buf, out, lookups, stats>>

\* row_store_open.
Open(mode) ==
  /\ stage = "new"
  /\ stage' = "opened"
  /\ ram' = (mode = "ram")
  /\ row_lo' = 0 /\ row_hi' = Rows
  /\ UNCHANGED <<scales, packed, slots, locks, pc, id, way, buf, out, lookups,
                 stats>>

\* The file is missing, too short for the table, or cannot be mapped.
OpenFails == stage = "new" /\ Abort

\* pin_scales: the owned scale rows, indexed from row_lo.
Pinned(lo, hi) == [k \in 0 .. hi - lo - 1 |-> lo + k]

\* row_store_range, with the bounds engram_backend computes; pinning may be
\* switched off or fail, and then a miss costs a second read.
SetRange(pins) ==
  LET lo == RowStart(Rows, Rank, Tp)
      hi == RowStart(Rows, Rank + 1, Tp)
  IN  /\ stage = "opened"
      /\ stage' = "ranged"
      /\ row_lo' = lo /\ row_hi' = hi
      /\ scales' = IF pins /\ hi > lo THEN Pinned(lo, hi) ELSE None
      /\ UNCHANGED <<ram, packed, slots, locks, pc, id, way, buf, out, lookups,
                     stats>>

\* Mutant: the header's range is not compared.
ShardFitsAnyRange(h) == h.layer = Layer /\ h.rows = Rows /\ h.whole

\* The header and length checks of row_store_attach_packed.
ShardFits(h) ==
  /\ h.layer = Layer /\ h.rows = Rows
  /\ h.lo = row_lo /\ h.hi = row_hi
  /\ h.whole

Attach(h) ==
  /\ stage = "ranged"
  /\ ShardFits(h)
  /\ stage' = "ready"
  /\ packed' = h
  /\ UNCHANGED <<ram, row_lo, row_hi, scales, slots, locks, pc, id, way, buf,
                 out, lookups, stats>>

\* Present but wrong: never served.
RejectShard(h) == stage = "ranged" /\ ~ShardFits(h) /\ Abort

\* No packed directory, or no shard in it: the checkpoint serves the rows.
NoShard ==
  /\ stage = "ranged"
  /\ stage' = "ready"
  /\ UNCHANGED <<ram, row_lo, row_hi, scales, packed, slots, locks, pc, id, way,
                 buf, out, lookups, stats>>

-----------------------------------------------------------------------------
(* Lookups. *)

Owned(i) == row_lo <= i /\ i < row_hi

\* serve(): the id is in the table; another rank's row is zeros.
Begin(t, i) ==
  /\ stage = "ready"
  /\ pc[t] = "idle"
  /\ lookups < MaxLookups
  /\ lookups' = lookups + 1
  /\ id' = [id EXCEPT ![t] = i]
  /\ \/ /\ ~Owned(i)
        /\ buf' = [buf EXCEPT ![t] = Zero]
        /\ Goto(t, "deliver")
        /\ UNCHANGED wanted
     \/ /\ Owned(i)
        /\ wanted' = wanted + 1
        /\ Goto(t, IF Cached THEN "probe" ELSE "read")
        /\ UNCHANGED buf
  /\ UNCHANGED <<table, slots, locks, way, out, hits, misses, reads>>

\* serve(): an id outside the table aborts the process.
BeginBadId == stage = "ready" /\ lookups < MaxLookups /\ Abort

\* The ways of the set of id i that hold its key.
Matches(i) == {w \in WayIndices : keys[SetOf(i)][w] = i + 1}

Lock(t) ==
  /\ locks[StripeOf(id[t])] = NoThread
  /\ locks' = [locks EXCEPT ![StripeOf(id[t])] = t]

Unlock(t) == locks' = [locks EXCEPT ![StripeOf(id[t])] = NoThread]

\* Mutant: the probe does not take the stripe's lock.
HitUnlocked(t) ==
  /\ stage = "ready"
  /\ pc[t] = "probe"
  /\ \E w \in Matches(id[t]) : way' = [way EXCEPT ![t] = w]
  /\ Goto(t, "copy")
  /\ UNCHANGED <<table, slots, locks, id, buf, out, lookups, stats>>

\* fetch_row: the first way whose key matches is copied under the lock.
Hit(t) ==
  /\ stage = "ready"
  /\ pc[t] = "probe"
  /\ Lock(t)
  /\ \E w \in Matches(id[t]) :
        /\ \A v \in Matches(id[t]) : w <= v
        /\ way' = [way EXCEPT ![t] = w]
  /\ Goto(t, "copy")
  /\ UNCHANGED <<table, slots, id, buf, out, lookups, stats>>

CopyHit(t) ==
  /\ stage = "ready"
  /\ pc[t] = "copy"
  /\ buf' = [buf EXCEPT ![t] = cache[SetOf(id[t])][way[t]]]
  /\ hits' = hits + 1
  /\ Unlock(t)
  /\ Goto(t, "deliver")
  /\ UNCHANGED <<table, slots, id, way, out, lookups, wanted, misses, reads>>

\* fetch_row: no way matches; the lock is released before the read.
Miss(t) ==
  /\ stage = "ready"
  /\ pc[t] = "probe"
  /\ locks[StripeOf(id[t])] = NoThread
  /\ Matches(id[t]) = {}
  /\ Goto(t, "read")
  /\ UNCHANGED <<table, slots, locks, id, way, buf, out, lookups, stats>>

\* Mutant: the packed shard is indexed by id, not from row_lo.
SourceFromZero(i) ==
  IF packed # NoRow
  THEN <<packed.layer, packed.lo + i, packed.lo + i>>
  ELSE <<Layer, i, IF scales = None THEN NoRow ELSE scales[i - row_lo]>>

\* What the row buffer holds after the first read of a miss: the whole row of
\* the packed shard, or the checkpoint's weight with its pinned scale, or that
\* weight alone.
Source(i) ==
  IF packed # NoRow
  THEN LET at == packed.lo + (i - row_lo) IN <<packed.layer, at, at>>
  ELSE <<Layer, i, IF scales = None THEN NoRow ELSE scales[i - row_lo]>>

\* Mutant: a row of this rank is taken to have its scale pinned.
OneReadAssumed == packed # NoRow \/ row_lo < row_hi

\* One read brings the row: it is packed, or only the weight is to be read.
OneRead == packed # NoRow \/ scales # None

\* A pread goes to the drive, except in the resident file.
FromDrive == packed # NoRow \/ ~ram

\* read_from counts its pread when it is done, before the miss is counted.
CountRead == reads' = reads + (IF FromDrive THEN 1 ELSE 0)

Read(t) ==
  /\ stage = "ready"
  /\ pc[t] = "read"
  /\ buf' = [buf EXCEPT ![t] = Source(id[t])]
  /\ CountRead
  /\ Goto(t, IF OneRead THEN "count" ELSE "scale")
  /\ UNCHANGED <<table, slots, locks, id, way, out, lookups, wanted, hits, misses>>

\* fetch_row: the scales are not pinned, so the scale is a second read.
ReadScale(t) ==
  /\ stage = "ready"
  /\ pc[t] = "scale"
  /\ buf' = [buf EXCEPT ![t] = <<Layer, buf[t][2], id[t]>>]
  /\ CountRead
  /\ Goto(t, "count")
  /\ UNCHANGED <<table, slots, locks, id, way, out, lookups, wanted, hits, misses>>

\* A short or failed read, of a file that is read at all, aborts the process.
ReadFails(t) ==
  /\ stage = "ready"
  /\ pc[t] \in {"read", "scale"}
  /\ FromDrive
  /\ Abort

\* fetch_row: the row is complete, and only now is the miss counted.
CountMiss(t) ==
  /\ stage = "ready"
  /\ pc[t] = "count"
  /\ misses' = misses + 1
  /\ Goto(t, IF Cached THEN "fill" ELSE "deliver")
  /\ UNCHANGED <<table, slots, locks, id, way, buf, out, lookups, wanted, hits, reads>>

\* fetch_row: the victim way takes the row's bytes and then its key.  A row
\* two threads missed at once is filled twice.
Fill(t) ==
  LET s == SetOf(id[t])
      w == victim[s] % Ways
  IN  /\ stage = "ready"
      /\ pc[t] = "fill"
      /\ Lock(t)
      /\ victim' = [victim EXCEPT ![s] = (@ + 1) % Ways]
      /\ cache' = [cache EXCEPT ![s][w] = buf[t]]
      /\ way' = [way EXCEPT ![t] = w]
      /\ Goto(t, "key")
      /\ UNCHANGED <<table, keys, id, buf, out, lookups, stats>>

\* Mutant: the second critical section never releases the stripe.
SetKeyHoldingLock(t) ==
  /\ stage = "ready"
  /\ pc[t] = "key"
  /\ keys' = [keys EXCEPT ![SetOf(id[t])][way[t]] = id[t] + 1]
  /\ Goto(t, "deliver")
  /\ UNCHANGED <<table, cache, victim, locks, id, way, buf, out, lookups, stats>>

\* Mutant: the key is stored without the + 1 that keeps 0 for empty.
SetKeyBare(t) ==
  /\ stage = "ready"
  /\ pc[t] = "key"
  /\ keys' = [keys EXCEPT ![SetOf(id[t])][way[t]] = id[t]]
  /\ Unlock(t)
  /\ Goto(t, "deliver")
  /\ UNCHANGED <<table, cache, victim, id, way, buf, out, lookups, stats>>

SetKey(t) ==
  /\ stage = "ready"
  /\ pc[t] = "key"
  /\ keys' = [keys EXCEPT ![SetOf(id[t])][way[t]] = id[t] + 1]
  /\ Unlock(t)
  /\ Goto(t, "deliver")
  /\ UNCHANGED <<table, cache, victim, id, way, buf, out, lookups, stats>>

\* serve(): the row is copied to the caller's weights and scales.
Deliver(t) ==
  /\ stage = "ready"
  /\ pc[t] = "deliver"
  /\ out' = [out EXCEPT ![t] = buf[t]]
  /\ Goto(t, "idle")
  /\ UNCHANGED <<table, slots, locks, id, way, buf, lookups, stats>>

\* The process aborted, or every lookup of the bound came back.
Finished ==
  /\ \/ stage = "aborted"
     \/ stage = "ready" /\ lookups = MaxLookups /\ \A t \in Threads : pc[t] = "idle"
  /\ UNCHANGED vars

-----------------------------------------------------------------------------

Load ==
  \/ \E mode \in {"nvme", "ram"} : Open(mode)
  \/ OpenFails
  \/ \E pins \in BOOLEAN : SetRange(pins)
  \/ \E h \in Shards : Attach(h) \/ RejectShard(h)
  \/ NoShard

Fetch(t) ==
  \/ Hit(t) \/ CopyHit(t) \/ Miss(t)
  \/ Read(t) \/ ReadScale(t) \/ ReadFails(t) \/ CountMiss(t)
  \/ Fill(t) \/ SetKey(t)
  \/ Deliver(t)

Next ==
  \/ Load
  \/ \E t \in Threads : Fetch(t) \/ \E i \in 0 .. Rows - 1 : Begin(t, i)
  \/ BeginBadId
  \/ Finished

Spec == Init /\ [][Next]_vars

\* A thread inside fetch_row keeps being scheduled.
FairSpec == Spec /\ \A t \in Threads : WF_vars(Fetch(t))

-----------------------------------------------------------------------------
(* Properties. *)

Places ==
  {"idle", "probe", "copy", "read", "scale", "count", "fill", "key", "deliver"}

\* All that a slot of the cache or the caller's buffers may hold.
Contents == {Zero} \cup {Row(i) : i \in 0 .. Rows - 1}

\* A row buffer whose scale is still to be read.
Weight(i) == <<Layer, i, NoRow>>
Weights == {Weight(i) : i \in 0 .. Rows - 1}

TypeOK ==
  /\ stage \in {"new", "opened", "ranged", "ready", "aborted"}
  /\ ram \in BOOLEAN
  /\ row_lo \in 0 .. Rows /\ row_hi \in 0 .. Rows
  /\ packed \in Shards \cup {NoRow}
  /\ keys \in [SetIndices -> [WayIndices -> 0 .. Rows]]
  /\ cache \in [SetIndices -> [WayIndices -> Contents]]
  /\ victim \in [SetIndices -> WayIndices]
  /\ locks \in [0 .. Stripes - 1 -> Threads \cup {NoThread}]
  /\ pc \in [Threads -> Places]
  /\ id \in [Threads -> 0 .. Rows]
  /\ way \in [Threads -> WayIndices]
  /\ buf \in [Threads -> Contents \cup Weights]
  /\ out \in [Threads -> Contents \cup {NoRow}]
  /\ lookups \in 0 .. MaxLookups
  /\ wanted \in Nat /\ hits \in Nat /\ misses \in Nat /\ reads \in Nat

\* Thread t is between writing the bytes of a slot and writing its key.
Filling(t, s, w) == pc[t] = "key" /\ SetOf(id[t]) = s /\ way[t] = w

\* Every key of the cache stands for its row's bytes, in the set that row is
\* looked for in, except in the one slot a thread is filling under its lock:
\* a hit, an eviction and two concurrent misses never leave a key over another
\* row's bytes.
CacheCoherent ==
  \A s \in SetIndices, w \in WayIndices :
    keys[s][w] # 0 /\ (\A t \in Threads : ~Filling(t, s, w)) =>
      /\ cache[s][w] = Row(keys[s][w] - 1)
      /\ SetOf(keys[s][w] - 1) = s
      /\ Owned(keys[s][w] - 1)

\* How many threads are at one of the places.
At(places) == Cardinality({t \in Threads : pc[t] \in places})

\* What row_store_stats may see, to the row.  Of each counted miss the drive
\* paid one read from the packed shard or with the scale pinned, two when
\* pinning was off or failed, none from the resident file; the only other reads
\* are those of the rows in flight, whose miss is not counted yet.  And each
\* lookup of a row of this rank is one hit, one miss, or still on its way.
ReadsAccounted ==
  LET paid == CASE packed # NoRow               -> 1
                [] packed = NoRow /\ ram        -> 0
                [] packed = NoRow /\ ~ram       -> IF scales # None THEN 1 ELSE 2
  IN  /\ reads = paid * (misses + At({"count"})) + (IF ram THEN 0 ELSE At({"scale"}))
      /\ wanted = hits + misses + At({"probe", "copy", "read", "scale", "count"})

\* Every id is answered unless the process aborts: no thread waits for ever on
\* a stripe.
LookupEnds ==
  \A t \in Threads : pc[t] # "idle" ~> (pc[t] = "idle" \/ stage = "aborted")

\* The store is an exact immutable table.
Table == INSTANCE RowTable WITH
           RowLo <- RowStart(Rows, Rank, Tp),
           RowHi <- RowStart(Rows, Rank + 1, Tp),
           up <- CASE stage = "ready" -> "serving"
                   [] stage = "aborted" -> "down"
                   [] OTHER -> "loading",
           asked <- [t \in Threads |-> IF pc[t] = "idle" THEN NoRow ELSE id[t]],
           answer <- out

\* Each lookup answers the very row of this rank's shard, or zeros for a row
\* of another rank, whatever the threads interleave, and nothing is answered
\* after a failure.
ImplementsTable == Table!Spec
===============================================================================
