---------------------------- MODULE IndexerChunked ----------------------------
(***************************************************************************)
(* The dense prefill indexer in row chunks                                 *)
(* (fleet/adapter/indexer_chunked.py): which query rows are scored against *)
(* which keys, in which chunk, and where the results go.                   *)
(*                                                                         *)
(* A batch is a sequence of requests.  Request b has seq[b] tokens of      *)
(* context, of which the last q[b] are this chunk's query rows, laid out   *)
(* request after request.  What the kernels compute for a row depends only *)
(* on the row, its keys and its mask, so those stand for the result:       *)
(* a selection is the set of keys a row may choose from.                   *)
(***************************************************************************)
EXTENDS Integers, Sequences, FiniteSets

CONSTANT CompressRatio      \* compress_ratio

ASSUME IndexerAssumption == CompressRatio \in Nat \ {0}

\* ceil_align(lc, 4)
Aligned(lc) == ((lc + 3) \div 4) * 4

\* Keys of request b.
Keys(seq, b) == seq[b] \div CompressRatio

\* Sum of the first n entries of s.
Before(s, n) ==
  LET sum[i \in 0 .. Len(s)] == IF i = 0 THEN 0 ELSE sum[i - 1] + s[i] IN sum[n]

\* starts[b]: where the keys of request b begin in k_slots.
Start(seq, b) == Before([r \in DOMAIN seq |-> Keys(seq, r)], b - 1)

\* k_slots: the keys of all requests, one after the other.
KSlots(seq) ==
  LET slots[b \in 0 .. Len(seq)] == IF b = 0 THEN <<>>
        ELSE slots[b - 1] \o [j \in 1 .. Keys(seq, b) |-> <<b, j - 1>>]
  IN  slots[Len(seq)]

\* compress_lens of row t (counting from 0) of request b: the keys before it.
Lens(seq, q, b, t) == (seq[b] - q[b] + t + 1) \div CompressRatio

\* rows_per_chunk: a row at least, and no more than the budget's bytes allow.
RowsPerChunk(lc, budget) ==
  LET n == budget \div (Aligned(lc) * 4) IN IF n >= 1 THEN n ELSE 1

\* The chunks of request b: the rows from c0 up to c1, counting from 0.
Chunks(seq, q, b, budget) ==
  LET n == RowsPerChunk(Keys(seq, b), budget)
  IN  {[c0 |-> c, c1 |-> IF c + n <= q[b] THEN c + n ELSE q[b]] :
         c \in {c \in 0 .. q[b] - 1 : c % n = 0}}

\* Rows of request b whose mask is published: the tail that survives, or all.
PubRows(q, b, tail) == IF tail = <<>> \/ tail[b] > q[b] THEN q[b] ELSE tail[b]

FirstPub(q, b, tail) == q[b] - PubRows(q, b, tail)

\* Mutant: a chunk publishes from its own first row on.
PublishedFromChunk(c, first) ==
  LET p0 == IF c.c0 >= first THEN c.c0 ELSE first
  IN  {[row |-> p0 - first + i, of |-> c.c0 + i] : i \in 0 .. c.c1 - p0 - 1}

\* What chunk c writes to the mask, whose first row is the request's row `first`:
\* row `row` gets the blocks selected by the scores of query row `of`.
Published(c, first) ==
  LET p0 == IF c.c0 >= first THEN c.c0 ELSE first
  IN  {[row |-> p0 - first + i, of |-> p0 + i] : i \in 0 .. c.c1 - p0 - 1}

\* mask_b, or empty_mask for a request without keys or rows: the keys of its rows.
\* select_candidate_blocks picks pick[b][t] for row t of request b.
Mask(seq, q, b, budget, tail, pick) ==
  IF Keys(seq, b) = 0 \/ q[b] = 0 THEN {}
  ELSE {[row |-> w.row, keys |-> pick[b][w.of]] :
          w \in UNION {Published(c, FirstPub(q, b, tail)) : c \in Chunks(seq, q, b, budget)}}

\* candidate_masks, as a source layer publishes them: each request appends one.
CandidateMasks(seq, q, budget, tail, pick) ==
  LET masks[b \in 0 .. Len(seq)] == IF b = 0 THEN <<>>
        ELSE Append(masks[b - 1], Mask(seq, q, b, budget, tail, pick))
  IN  masks[Len(seq)]

\* Mutant: a chunk takes the first rows of the mask.
MaskRowFromZero(c, i) == i

\* consume[b][c0:c1]: the row of the mask for score row i of chunk c.
MaskRow(c, i) == c.c0 + i

\* The rows of request b a layer scores, each with the row of its mask.
ScoreRows(seq, q, b, budget) ==
  UNION {{[row |-> c.c0 + i, mask |-> MaskRow(c, i)] : i \in 0 .. c.c1 - c.c0 - 1}
           : c \in Chunks(seq, q, b, budget)}

MaskKeys(mask, row) == UNION {w.keys : w \in {w \in mask : w.row = row}}

\* The keys of request b a row may choose: all, unless the layer consumes masks.
Allowed(seq, b, consume, row) ==
  IF consume = <<>> THEN 0 .. Keys(seq, b) - 1 ELSE MaskKeys(consume[b], row)

\* What row t of request b selects of the allowed keys before it, as page_indices
\* names it; mask_topk_scores drops what is not allowed.
PageKeys(seq, q, b, t, allowed) ==
  {KSlots(seq)[Start(seq, b) + j + 1] :
     j \in {j \in 0 .. Lens(seq, q, b, t) - 1 : j \in allowed}}

\* What the rows of request b select in a layer: -1 throughout without keys.
Selected(seq, q, b, budget, consume) ==
  IF Keys(seq, b) = 0 THEN {[row |-> t, keys |-> {}] : t \in 0 .. q[b] - 1}
  ELSE {[row |-> s.row, keys |-> PageKeys(seq, q, b, s.row, Allowed(seq, b, consume, s.mask))] :
          s \in ScoreRows(seq, q, b, budget)}
===============================================================================
