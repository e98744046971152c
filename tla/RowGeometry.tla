----------------------------- MODULE RowGeometry -----------------------------
(***************************************************************************)
(* The arithmetic of the Engram row store: which rows a rank owns, how big *)
(* the row cache is, which pages a read covers                             *)
(* (fleet/adapter/engram_backend.py and fleet/adapter/row_store.cpp).      *)
(***************************************************************************)
EXTENDS Integers

\* Sizes in bytes of a row, its two parts, its cache key and a page.
kWeightBytes == 256
kScaleBytes == 8
kRowBytes == 264
KeyBytes == 8
kPage == 4096

\* Mutant: every rank gets n \div tp rows, the remainder nobody.
RowStartEven(n, rank, tp) == (n \div tp) * rank

\* The first row rank owns of a table of n rows cut in tp.
RowStart(n, rank, tp) == (n * rank) \div tp

\* Row i belongs to rank: row_lo <= i < row_hi.
Owns(i, n, rank, tp) ==
  RowStart(n, rank, tp) <= i /\ i < RowStart(n, rank + 1, tp)

\* Mutant: the budget is cut by every rank of the cluster, not of the host.
StoreBudgetPerRank(bytes, tp, nnodes) == bytes \div (2 * tp)

\* engram_backend: a host's cache budget, cut over the two Engram layers and
\* the ranks that share the host.
AtLeast(k, m) == IF m < k THEN k ELSE m
RanksPerHost(tp, nnodes) == AtLeast(1, tp \div AtLeast(1, nnodes))
StoreBudget(bytes, tp, nnodes) == bytes \div (2 * RanksPerHost(tp, nnodes))

\* Mutant: the victim cursors are left out of the footprint.
CacheSetsNoCursor(budget, ways) == budget \div ((kRowBytes + KeyBytes) * ways)

\* row_store_open: sets of the cache that fit a budget of bytes.
CacheSets(budget, ways) == budget \div ((kRowBytes + KeyBytes) * ways + 1)

\* row_store_stats: bytes of rows, keys and victim cursors.
CacheBytes(budget, ways) ==
  CacheSets(budget, ways) * ways * (kRowBytes + KeyBytes) + CacheSets(budget, ways)

\* Mutant: the length is rounded up without the offset into the page.
PagedBytesFromBase(offset, length) == ((length + kPage - 1) \div kPage) * kPage

\* read_from: a read of length bytes at offset covers whole pages, starting at
\* the page that holds the offset.
PageBase(offset) == (offset \div kPage) * kPage
PagedBytes(offset, length) ==
  ((offset - PageBase(offset) + length + kPage - 1) \div kPage) * kPage

\* Bytes of read_from's buffer on the stack.
PageBuffer == 8192
===============================================================================
