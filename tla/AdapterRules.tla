----------------------------- MODULE AdapterRules -----------------------------
(***************************************************************************)
(* The parts that work by themselves against what they are to compute: the *)
(* row store's layout, block verification, the chunked indexer, the padded *)
(* loaders and the scales of their shards, the loop stop, the chat fields. *)
(* A behaviour is one input of one of them, or prepare() over some boots.  *)
(***************************************************************************)
EXTENDS RowLayouts, BlockVerify, Tp3Pad, IndexerChunked, Mxfp8Scales, LoopAbort,
        EncodingCompat, PrepareCheckpoint

CONSTANTS
  Unit,         \* probabilities are multiples of 1 / Unit
  Contexts,     \* tokens of context of a request
  Budgets,      \* bytes of logits of a chunk
  Picks,        \* candidates: of a request and a row of it, the keys picked
  GroupCounts,  \* o_groups of a checkpoint
  PerGroup,     \* heads of a group
  TpSizes,      \* tensor-parallel degrees
  BlockRows,    \* rows of scale blocks of a checkpoint's weight
  Letters,      \* tokens of a text other than Newline and Blank
  MaxOutput,    \* bound on the tokens of an output
  LoopConfigs,  \* DSV41_LOOP_ variables
  TokenCaps,    \* values of a token field and of DSV41_MAX_NEW_TOKENS
  Switches      \* values of a thinking switch

ASSUME RulesAssumption ==
  /\ Contexts \subseteq Nat /\ Budgets \subseteq Nat
  /\ TokenCaps \subseteq Int
  /\ Unit \in Nat \ {0}
  /\ BlockRows \subseteq Nat
  /\ TpSizes \subseteq Nat \ {0}
  /\ MaxOutput \in Nat
  /\ LoopConfigs \subseteq [abort : Int, ngram : Int, ngram_max : Int, repeats : Int,
                           identical : Int, line_repeats : Int, line_min : Int]

VARIABLE input

Distributions ==
  {d \in [Tokens -> {Frac(n, Unit) : n \in 0 .. Unit}] : Total(d, Vocab) = One}

DraftsUpTo(n) == UNION {[1 .. m -> Tokens] : m \in 0 .. n}

\* After Gamma tokens the target is as at the start.
VerifyInput ==
  \E p \in [DraftsUpTo(Gamma - 1) -> Distributions],
     q \in [DraftsUpTo(Gamma - 1) -> Distributions], live \in 0 .. Gamma :
     input = [kind |-> "verify", live |-> live, q |-> q,
              p |-> [x \in DraftsUpTo(Gamma) |-> IF Len(x) = Gamma THEN p[<<>>] ELSE p[x]]]

\* Two requests; tail is <<>> when there is no bounded replay.
IndexerInput ==
  \E seq \in [1 .. 2 -> Contexts], budget \in Budgets, pick \in Picks :
  \E q \in [1 .. 2 -> Contexts], tail \in [1 .. 2 -> Contexts] \cup {<<>>} :
     /\ \A b \in 1 .. 2 : q[b] <= seq[b]
     /\ input = [kind |-> "index", seq |-> seq, q |-> q, budget |-> budget, tail |-> tail,
                 pick |-> pick]

PadInput ==
  \E groups \in GroupCounts, per \in PerGroup, tp \in TpSizes, scale \in BOOLEAN :
     input = [kind |-> "pad", groups |-> groups, per |-> per, tp |-> tp, scale |-> scale]

\* A weight's scale blocks cut over the ranks; memory is what the scales of padding
\* hold, or "loaded" when the loader wrote them.
ScaleInput ==
  \E rows \in BlockRows, tp \in TpSizes, tiles \in BOOLEAN,
     memory \in ScaleKinds \cup {"loaded"} :
     input = [kind |-> "scale", rows |-> rows, tp |-> tp, tiles |-> tiles, memory |-> memory]

LoopInput ==
  \E n \in 0 .. MaxOutput, raw \in LoopConfigs, decodes \in BOOLEAN :
  \E ids \in [1 .. n -> Letters \cup {Newline, Blank}] :
     input = [kind |-> "loop", ids |-> ids, cfg |-> LoopConfig(raw), decodes |-> decodes]

ChatInput ==
  \E completion, tokens, cap \in TokenCaps \cup {Unset},
     keys \in SUBSET {"thinking", "enable_thinking", "other"} :
  \E kwargs \in [keys -> Switches] :
     input = [kind |-> "chat", cap |-> cap, kwargs |-> kwargs,
              request |-> [max_completion_tokens |-> completion, max_tokens |-> tokens]]

AlgorithmInput ==
  VerifyInput \/ IndexerInput \/ PadInput \/ ScaleInput \/ LoopInput \/ ChatInput

\* A layout to keep while something else is looked at.
AnyLayout ==
  /\ tableRows = 0 /\ ranks = 1 /\ hosts = 1 /\ cacheBudget = 0 /\ cacheWays = 1
  /\ readOffset = 0 /\ readLength = kRowBytes

Init ==
  /\ \/ LayoutInit /\ input = [kind |-> "layout"]
     \/ AnyLayout /\ (AlgorithmInput \/ input = [kind |-> "prepare"])
  /\ PrepareInit
  /\ input.kind # "prepare" => pinned = CHOOSE r \in Revisions : TRUE

Next ==
  \/ input.kind # "prepare" /\ UNCHANGED <<layout, input, prepareVars>>
  \/ input.kind = "prepare" /\ PrepareNext /\ UNCHANGED <<layout, input>>

Spec == Init /\ [][Next]_<<layout, input, prepareVars>>

-----------------------------------------------------------------------------

\* The probability of the tokens y from n + 1 to m after those before them.
Chance(d, y, n, m) == Product([i \in 1 .. m |-> d[Prefix(y, i - 1)][y[i]]], n + 1, m)

\* How likely drafts x are accepted up to n, corrected and then continued by the
\* target to give y.
Outcome(x, n, y) ==
  LET p == input.p  q == input.q
  IN  IF Prefix(x, n) # Prefix(y, n) THEN Zero
      ELSE Times(Times(Chance(q, x, 0, Gamma), Tau(p, q, x, n, input.live)),
                 Times(Correction(p, q, x, n, input.live)[y[n + 1]],
                       Chance(p, y, n + 1, Gamma + 1)))

\* The sum of f over the drafts, token after token.
OverDrafts(f) ==
  LET sum[z \in DraftsUpTo(Gamma)] ==
        IF Len(z) = Gamma THEN f[z]
        ELSE Total([t \in Tokens |-> sum[Append(z, t)]], Vocab)
  IN  sum[<<>>]

\* Block verification is lossless: whatever the drafts are sampled from and
\* however many of them are verified, every continuation is as likely as the
\* target makes it.
Lossless ==
  input.kind = "verify" =>
    LET Given(y, n) == OverDrafts([x \in Drafted |->
                         IF Chance(input.q, x, 0, Gamma) = Zero THEN Zero ELSE Outcome(x, n, y)])
    IN  \A y \in [1 .. Gamma + 1 -> Tokens] :
           Total([k \in 1 .. Gamma + 1 |-> Given(y, k - 1)], Gamma + 1)
             = Chance(input.p, y, 0, Gamma + 1)

\* The chunks of a request score each row once and within the budget.  A row may
\* choose the keys of its own request before its token; in a layer that consumes
\* the candidates, only those picked for this very token: also when only a tail of
\* rows is left, and when another request has no keys or no rows.
ChunksExact ==
  input.kind = "index" =>
    LET seq == input.seq  q == input.q  budget == input.budget  pick == input.pick
        late == [b \in 1 .. 2 |-> PubRows(q, b, input.tail)]
        masks == CandidateMasks(seq, q, budget, input.tail, pick)
        Ready(b, n) == {j \in 0 .. Keys(seq, b) - 1 : (j + 1) * CompressRatio <= n}
    IN  \A b \in 1 .. 2 :
          /\ Keys(seq, b) > 0 =>
               LET chunks == Chunks(seq, q, b, budget)
               IN  /\ \A t \in 0 .. q[b] - 1 :
                        Cardinality({c \in chunks : c.c0 <= t /\ t < c.c1}) = 1
                   /\ \A c \in chunks :
                        c.c1 - c.c0 = 1 \/ (c.c1 - c.c0) * Aligned(Keys(seq, b)) * 4 <= budget
          /\ Selected(seq, q, b, budget, <<>>) =
               {[row |-> t, keys |-> {<<b, j>> : j \in Ready(b, seq[b] - q[b] + t + 1)}] :
                  t \in 0 .. q[b] - 1}
          /\ Selected(seq, late, b, budget, masks) =
               {[row |-> r, keys |->
                   {<<b, j>> : j \in {j \in Ready(b, seq[b] - late[b] + r + 1) :
                                        j \in pick[b][q[b] - late[b] + r]}}] :
                  r \in 0 .. late[b] - 1}

\* Heads and groups are padded to counts every rank has an equal legal share of,
\* once and for all; the shards of the ranks are the checkpoint's rows followed by
\* neutral padding, 0 for weights and 1 for scales.  Of the loader of
\* ColumnParallelLinear this holds when no rank's shard begins past the end.
PaddedExact ==
  input.kind = "pad" =>
    LET tp == input.tp  groups == input.groups  per == input.per
        pad == PadHeads(groups * per, groups, tp)
        rows == [i \in 1 .. groups |-> i]
        size == pad.groups \div tp
        fill == IF input.scale THEN OneRow ELSE ZeroRow
        Whole(i) == IF i <= groups THEN i ELSE fill
        Exact(shard(_)) == \A r \in 0 .. tp - 1 : \A i \in 1 .. size :
                              shard(r)[i] = Whole(r * size + i)
    IN  /\ pad.heads % tp = 0 /\ pad.groups % tp = 0
        /\ pad.heads \div tp \in LegalLocal
        /\ pad.heads = pad.groups * per /\ pad.groups >= groups
        /\ \A same \in BOOLEAN : PadConfig([heads |-> groups * per, groups |-> groups], tp, same) = pad
        /\ LET vocab == PadVocab(groups * per, per, tp)
           IN  vocab >= groups * per /\ vocab % tp = 0 /\ vocab % per = 0
                 /\ vocab - groups * per < tp * per
        /\ LoadDefault(rows, pad.groups) = [i \in 1 .. pad.groups |-> IF i <= groups THEN i ELSE ZeroRow]
        /\ PadCount(groups, tp) \in groups .. groups + tp - 1 /\ PadCount(groups, tp) % tp = 0
        /\ Exact(LAMBDA r : LoadColumn(rows, r, size, input.scale))
        /\ (tp - 1) * size <= groups => Exact(LAMBDA r : LoadLinear(rows, r, size, input.scale))

\* A stretch of the output that repeats: a run of one token, copies of a unit, the
\* same line again and again at the end of what was decoded.
Runs(ids, k) == \A i \in Len(ids) - k + 1 .. Len(ids) : ids[i] = ids[Len(ids)]
Cycles(ids, p, k) == \A i \in Len(ids) - k * p + p + 1 .. Len(ids) : ids[i] = ids[i - p]

\* A generation is stopped exactly when its end repeats itself as the configuration
\* says; it keeps at least one token and everything that is not a copy of what it
\* keeps; a request that ended for another reason is left alone.
LoopFound ==
  input.kind = "loop" =>
    LET ids == input.ids  cfg == input.cfg  n == Len(ids)
        req == [ids |-> ids, reason |-> "none", kept |-> n]
        new == UpdateFinishState(req, input.decodes, cfg)
        run == cfg.identical > 0 /\ n >= cfg.identical /\ Runs(ids, cfg.identical)
        cycle == cfg.ngram > 0 /\ cfg.repeats > 0 /\ \E p \in cfg.ngram .. cfg.ngram_max :
                    p * cfg.repeats <= n /\ Cycles(ids, p, cfg.repeats)
        lines == /\ input.decodes
                 /\ RepeatedLineSuffix(SubSeq(ids, IF n > LineWindow THEN n - LineWindow + 1 ELSE 1, n),
                                       cfg.line_repeats, cfg.line_min)
    IN  /\ new.reason = "repetition" <=> cfg.abort > 0 /\ n > 0 /\ (run \/ cycle \/ lines)
        /\ n > 0 => new.kept \in 1 .. n
        /\ \E p \in 1 .. new.kept \cup {n} : \A i \in new.kept + 1 .. n : ids[i] = ids[i - p]
        /\ \A r \in {"stop", "length"} :
             UpdateFinishState([req EXCEPT !.reason = r], input.decodes, cfg).reason = r

\* With a cap every chat request asks the engine for some number of tokens within it,
\* its own number where that is; without one it is left alone.  The engine thinks as
\* the request says under either name, `thinking` before `enable_thinking`, and
\* doing it twice changes nothing.
ChatCapped ==
  input.kind = "chat" =>
    LET request == input.request  limit == MaxNewTokens(input.cap)
        capped == ApplyMaxTokens(request, limit)
        kwargs == input.kwargs  normal == NormalizeKwargs(kwargs)
        said == {k \in {"thinking", "enable_thinking"} : k \in DOMAIN kwargs}
    IN  /\ limit <= 0 => capped = request
        /\ limit > 0 =>
             /\ Asked(capped) # Unset /\ Asked(capped) <= limit
             /\ Asked(request) # Unset /\ Asked(request) <= limit
                  => Asked(capped) = Asked(request)
        /\ ApplyMaxTokens(capped, limit) = capped /\ NormalizeKwargs(normal) = normal
        /\ Thinks(normal) = IF "thinking" \in said THEN Truth(kwargs["thinking"])
                            ELSE IF said # {} THEN Truth(kwargs["enable_thinking"]) ELSE "default"
        /\ said # {} => normal["enable_thinking"] = normal["thinking"]

\* The scales of a padded shard are accepted whatever the padding's memory held, but
\* for an infinity, also of a rank whose shard begins past the checkpoint's rows; the
\* checkpoint's own scales are what they were.  Where the scales do not tile the
\* weight this holds of what the loader wrote.
ScalesAccepted ==
  input.kind = "scale" /\ input.memory # "infinite" /\ (input.tiles \/ input.memory = "loaded") =>
    LET rows == [i \in 1 .. input.rows |-> i]
        size == PadCount(input.rows, input.tp) \div input.tp
        Kind(row) == IF row = ZeroRow THEN "zero" ELSE IF row = OneRow THEN "one" ELSE "power"
    IN  \A rank \in 0 .. input.tp - 1 :
          LET loaded == LoadLinear(rows, rank, size, TRUE)
              zero == [i \in 1 .. size |-> LoadLinear(rows, rank, size, FALSE)[i] = ZeroRow]
              scales == [i \in 1 .. size |->
                           IF zero[i] /\ input.memory # "loaded" THEN input.memory
                           ELSE Kind(loaded[i])]
              prepared == PreparedScales(scales, zero, input.tiles)
          IN  Accepted(prepared) /\ \A i \in 1 .. size : ~zero[i] => prepared[i] = "power"
===============================================================================
