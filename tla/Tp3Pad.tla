------------------------------- MODULE Tp3Pad --------------------------------
(***************************************************************************)
(* Padding a checkpoint whose sizes the ranks do not divide                *)
(* (fleet/adapter/tp3_pad.py): the padded counts of the configuration and  *)
(* the shards the loaders cut.  A tensor is the sequence of its rows along *)
(* the dimension that is cut; in the others a parameter and its checkpoint *)
(* agree.                                                                  *)
(***************************************************************************)
EXTENDS Integers, Sequences, FiniteSets

\* Local head counts the SM120 kernels exist for.
LegalLocal == {8, 16, 32, 64, 128}

\* The rows of padding.
ZeroRow == 0
OneRow == -1

\* _ceil_to
CeilTo(n, d) == ((n + d - 1) \div d) * d

\* Heads and groups when the ranks do not divide the heads.
Divisible(heads, groups, per, tp) ==
  IF heads % tp = 0
  THEN [heads |-> heads, groups |-> groups]
  ELSE LET g == CeilTo(groups, tp) IN [heads |-> g * per, groups |-> g]

\* The smallest legal local count, or the largest there is.
TargetLocal(local) ==
  LET fits == {h \in LegalLocal : h >= local}
  IN  IF fits = {} THEN 128 ELSE CHOOSE h \in fits : \A k \in fits : h <= k

\* pad_dsv41_hf_config: attention heads and output groups.
PadHeads(heads, groups, tp) ==
  LET per == IF heads \div groups >= 1 THEN heads \div groups ELSE 1
      c == Divisible(heads, groups, per, tp)
      wide == TargetLocal(c.heads \div tp) * tp
      g == wide \div per
  IN  IF c.heads \div tp \in LegalLocal THEN c
      ELSE IF g * per = wide THEN [heads |-> wide, groups |-> g]
      ELSE LET up == CeilTo(g, tp) IN [heads |-> up * per, groups |-> up]

\* dspark_n_routed_experts, and the heads of the vision tower.
PadCount(n, tp) == IF n % tp = 0 THEN n ELSE CeilTo(n, tp)

\* ModelConfig: the configuration is padded, then the one of its text part, which may
\* be the same object.
PadConfig(c, tp, same) ==
  LET once == PadHeads(c.heads, c.groups, tp)
  IN  IF same THEN PadHeads(once.heads, once.groups, tp) ELSE once

\* pad_vocab_size: the engine's rounding, to a multiple of tp as well.
Lcm(a, b) == CHOOSE m \in 1 .. a * b : m % a = 0 /\ m % b = 0
                                      /\ \A k \in 1 .. m - 1 : k % a # 0 \/ k % b # 0
PadVocab(size, padTo, tp) == CeilTo(size, IF tp > 1 THEN Lcm(padTo, tp) ELSE padTo)

\* narrow(dim, from, size), counting from 0.
Narrow(rows, from, size) == SubSeq(rows, from + 1, from + size)

\* External: sglang's pad_or_narrow_weight fills up with zero rows.
PadOrNarrow(rows, from, size) ==
  [i \in 1 .. size |-> IF from + i <= Len(rows) THEN rows[from + i] ELSE ZeroRow]

\* fill_(1.0) from row `from` (counting from 0) to the end.
FillOnes(rows, from) == [i \in DOMAIN rows |-> IF i > from THEN OneRow ELSE rows[i]]

\* Mutant: rows are counted from the beginning of the checkpoint.
RealFromZero(rows, start) == Len(rows)

\* Rows of the checkpoint from the shard's start on.
Real(rows, start) == IF Len(rows) >= start THEN Len(rows) - start ELSE 0

\* load_column_parallel_weight: the shard of `size` rows of a rank; a scale is a
\* tensor of float32 block scales.
LoadColumn(rows, rank, size, scale) ==
  LET start == rank * size
      end == start + size
      padded == PadOrNarrow(rows, start, size)
  IN  IF end > Len(rows)
      THEN IF scale /\ Real(rows, start) < size
           THEN FillOnes(padded, Real(rows, start))
           ELSE padded
      ELSE Narrow(rows, start, size)

\* column_weight_loader, where a shard reaches past the checkpoint; elsewhere it is
\* the engine's own loader.
LoadLinear(rows, rank, size, scale) ==
  LET start == rank * size
      real == Len(rows) - start
      padded == PadOrNarrow(rows, start, size)
  IN  IF start + size > Len(rows)
      THEN IF scale /\ 0 <= real /\ real < size THEN FillOnes(padded, real) ELSE padded
      ELSE Narrow(rows, start, size)

\* default_weight_loader: a parameter of another size is zero but for the overlap.
LoadDefault(rows, size) ==
  IF Len(rows) = size THEN rows
  ELSE [i \in 1 .. size |-> IF i <= Len(rows) THEN rows[i] ELSE ZeroRow]
===============================================================================
