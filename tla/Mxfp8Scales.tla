----------------------------- MODULE Mxfp8Scales -----------------------------
(***************************************************************************)
(* The block scales of a padded shard on their way to the MXFP8 kernels    *)
(* (fleet/adapter/mxfp8_b12x.py): repaired when the layer is prepared, and *)
(* once more when they are encoded.  Only what a scale is matters: a       *)
(* positive power of two or not.                                           *)
(***************************************************************************)
EXTENDS Sequences

\* A float32 in the memory of a block scale.
ScaleKinds == {"power", "one", "odd", "zero", "negative", "nan", "infinite"}

Positive(s) == s \in {"power", "one", "odd", "infinite"}

\* The bits of a mantissa are zero and the value is positive.
PowerOfTwo(s) == s \in {"power", "one", "infinite"}

\* Mutant: only scales that are not positive count as bad.
BadScalesNotPositive(scales) == {i \in DOMAIN scales : ~Positive(scales[i])}

BadScales(scales) == {i \in DOMAIN scales : ~PowerOfTwo(scales[i])}

\* _repair_padded_scales: bad scales of blocks whose weights are all zero become one,
\* when the scales tile the weight.
RepairPaddedScales(scales, zero, tiles) ==
  IF ~tiles THEN scales
  ELSE [i \in DOMAIN scales |-> IF i \in BadScales(scales) /\ zero[i] THEN "one" ELSE scales[i]]

\* encode: with a scale that is not above zero, every scale that is not positive
\* (a NaN too) becomes one.
EncodedScales(scales) ==
  IF \E i \in DOMAIN scales : scales[i] \in {"zero", "negative"}
  THEN [i \in DOMAIN scales |-> IF Positive(scales[i]) THEN scales[i] ELSE "one"]
  ELSE scales

\* External: block_fp8_scale_to_mxfp8_e8m0 raises unless every scale is a power of two.
Accepted(scales) == \A i \in DOMAIN scales : scales[i] \in {"power", "one"}

\* prepare and the encoding it leads to.
PreparedScales(scales, zero, tiles) == EncodedScales(RepairPaddedScales(scales, zero, tiles))
===============================================================================
