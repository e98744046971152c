------------------------------ MODULE LoopAbort ------------------------------
(***************************************************************************)
(* Stopping a generation that repeats itself (fleet/adapter/loop_abort.py):*)
(* a run of one token, an n-gram that cycles, or the same line again and   *)
(* again.  A token stands for one character of the decoded text.           *)
(***************************************************************************)
EXTENDS Integers, FiniteSets, SequencesExt

CONSTANTS
  Newline, Blank,  \* tokens that end a line and that a line is stripped of
  LineWindow       \* LINE_WINDOW_TOKENS

\* load_config, for raw values of the variables.
LoopConfig(raw) == [raw EXCEPT !.ngram_max = IF @ < raw.ngram THEN raw.ngram ELSE @]

LoopEnabled(cfg) ==
  cfg.abort > 0 /\ ((cfg.ngram > 0 /\ cfg.repeats > 0) \/ cfg.identical > 0
                      \/ cfg.line_repeats > 0)

\* No length to keep: the output goes on.
NoLoop == 0

\* splitlines.
SplitLines(text) ==
  FoldLeft(LAMBDA lines, t : IF t = Newline THEN Append(lines, <<>>)
                             ELSE Append(Front(lines), Append(Last(lines), t)),
           <<<<>>>>, text)

Strip(line) == SubSeq(line, 1, Max({0} \cup {i \in DOMAIN line : line[i] # Blank}))

\* The lines of a text that are not blank, without their trailing blanks.
StrippedLines(text) ==
  LET split == SplitLines(text)
  IN  SelectSeq([i \in DOMAIN split |-> Strip(split[i])], LAMBDA s : s # <<>>)

\* repeated_line_suffix
RepeatedLineSuffix(text, repeats, minChars) ==
  LET lines == StrippedLines(text)
      n == Len(lines)
  IN  /\ repeats > 0 /\ minChars > 0 /\ n >= repeats /\ n > 0
      /\ Len(lines[n]) >= minChars
      /\ \A i \in n - repeats + 1 .. n : lines[i] = lines[n]

\* How long the run of one token is that the output ends in.
LastRun(ids) ==
  Cardinality({i \in 1 .. Len(ids) : \A j \in i .. Len(ids) : ids[j] = ids[Len(ids)]})

\* Mutant: the run goes with its first token.
IdenticalLoopAll(ids, cfg) ==
  IF cfg.identical > 0 /\ LastRun(ids) >= cfg.identical
  THEN Len(ids) - LastRun(ids) ELSE NoLoop

\* A run of one token: its first stays.
IdenticalLoop(ids, cfg) ==
  IF cfg.identical > 0 /\ LastRun(ids) >= cfg.identical
  THEN Len(ids) - LastRun(ids) + 1 ELSE NoLoop

\* The output ends in `repeats` copies of its last p tokens.
EndsInCopies(ids, p, repeats) ==
  LET n == Len(ids)
      Slice(from, to) == SubSeq(ids, from + 1, to)
  IN  /\ p * repeats <= n
      /\ \A r \in 1 .. repeats - 1 :
           Slice(n - (r + 1) * p, n - r * p) = Slice(n - p, n)

\* The shortest unit that the output ends in copies of: one copy stays.
CycleLoop(ids, cfg) ==
  LET hits == {p \in cfg.ngram .. cfg.ngram_max : EndsInCopies(ids, p, cfg.repeats)}
      shortest == CHOOSE p \in hits : \A q \in hits : p <= q
  IN  IF cfg.ngram > 0 /\ cfg.repeats > 0 /\ hits # {}
      THEN Len(ids) - (cfg.repeats - 1) * shortest ELSE NoLoop

\* detect_repetition: the length to keep; decoded is FALSE when there is no text.
DetectRepetition(ids, decoded, cfg) ==
  LET n == Len(ids)
      window == SubSeq(ids, IF n > LineWindow THEN n - LineWindow + 1 ELSE 1, n)
  IN  IF n = 0 \/ ~LoopEnabled(cfg) THEN NoLoop
      ELSE IF IdenticalLoop(ids, cfg) # NoLoop THEN IdenticalLoop(ids, cfg)
      ELSE IF CycleLoop(ids, cfg) # NoLoop THEN CycleLoop(ids, cfg)
      ELSE IF decoded /\ RepeatedLineSuffix(window, cfg.line_repeats, cfg.line_min) THEN n
      ELSE NoLoop

\* update_finish_state after the engine's own: the reason a request ends and the
\* length it keeps; decodes is FALSE without a tokenizer or when it fails.
UpdateFinishState(req, decodes, cfg) ==
  LET kept == DetectRepetition(req.ids, decodes /\ cfg.line_repeats > 0, cfg)
  IN  IF ~LoopEnabled(cfg) \/ req.reason # "none" \/ kept = NoLoop THEN req
      ELSE [req EXCEPT !.reason = "repetition", !.kept = kept]
===============================================================================
