------------------------------ MODULE RowLayouts ------------------------------
(***************************************************************************)
(* Every layout a deployment can ask of the row store: a table cut over    *)
(* the ranks, a cache of some budget and associativity, a read at some     *)
(* offset.  A behaviour picks one and keeps it.                            *)
(***************************************************************************)
EXTENDS RowGeometry

CONSTANTS
  TableSizes,    \* num_embeddings
  RankCounts,    \* tensor-parallel degrees
  HostCounts,    \* NNODES
  CacheBudgets,  \* bytes of cache
  WayCounts,     \* DSV41_CACHE_WAYS after its clamp
  ReadOffsets,   \* byte offsets of a read
  ReadLengths    \* bytes of a read: a weight, a scale or a packed row

ASSUME LayoutAssumption ==
  /\ TableSizes \subseteq Nat
  /\ RankCounts \subseteq Nat \ {0}
  /\ HostCounts \subseteq Nat \ {0}
  /\ CacheBudgets \subseteq Nat
  /\ WayCounts \subseteq 1 .. 16
  /\ ReadOffsets \subseteq Nat
  /\ ReadLengths \subseteq {kWeightBytes, kScaleBytes, kRowBytes}

VARIABLES tableRows, ranks, hosts, cacheBudget, cacheWays, readOffset, readLength

layout == <<tableRows, ranks, hosts, cacheBudget, cacheWays, readOffset, readLength>>

LayoutInit ==
  /\ tableRows \in TableSizes
  /\ ranks \in RankCounts
  /\ hosts \in HostCounts
  /\ cacheBudget \in CacheBudgets
  /\ cacheWays \in WayCounts
  /\ readOffset \in ReadOffsets
  /\ readLength \in ReadLengths

\* The shards of the ranks partition the table: whatever the remainder, each
\* row has one owner, so the all-reduce over ranks adds each row exactly once.
ShardsPartition ==
  \A i \in 0 .. tableRows - 1 :
     \E r \in 0 .. ranks - 1 :
        /\ Owns(i, tableRows, r, ranks)
        /\ \A q \in 0 .. ranks - 1 : Owns(i, tableRows, q, ranks) => q = r

\* Rows, keys and victim cursors together stay within the budget.
CacheFits == CacheBytes(cacheBudget, cacheWays) <= cacheBudget

\* When the ranks divide evenly over the hosts, the stores of a host (two
\* layers for each of its ranks) share the whole budget of the host: together
\* they stay within it and leave less than a byte each.
HostBudgetUsed ==
  ranks % hosts = 0 =>
    LET stores == 2 * (ranks \div hosts)
        each == StoreBudget(cacheBudget, ranks, hosts)
    IN  stores * each <= cacheBudget /\ cacheBudget < stores * (each + 1)

\* The pages of a read start at or below its offset, reach its end, and fit the
\* two-page buffer on the stack wherever the row lies in the file.
ReadCovered ==
  /\ PageBase(readOffset) <= readOffset
  /\ readOffset + readLength <= PageBase(readOffset) + PagedBytes(readOffset, readLength)
  /\ PagedBytes(readOffset, readLength) <= PageBuffer
===============================================================================
