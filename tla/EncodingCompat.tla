---------------------------- MODULE EncodingCompat ----------------------------
(***************************************************************************)
(* What the adapter makes of a chat request                                *)
(* (fleet/adapter/encoding_compat.py): the aliases of the thinking switch  *)
(* and the cap of the completion.                                          *)
(***************************************************************************)
EXTENDS Integers

CONSTANTS
  Unset,     \* a field that is None
  TrueLike   \* values bool() takes for True, "true" among them

ASSUME EncodingAssumption ==
  "true" \in TrueLike /\ "false" \notin TrueLike /\ Unset \notin Int

Truth(v) == IF v \in TrueLike THEN "true" ELSE "false"

\* normalize_chat_template_kwargs; kwargs is a function of the keys that are there.
NormalizeKwargs(kwargs) ==
  LET keys == DOMAIN kwargs
      Both(v) == [k \in keys \cup {"thinking", "enable_thinking"} |->
                    IF k \in {"thinking", "enable_thinking"} THEN v ELSE kwargs[k]]
  IN  IF "thinking" \in keys THEN Both(Truth(kwargs["thinking"]))
      ELSE IF "enable_thinking" \in keys THEN Both(Truth(kwargs["enable_thinking"]))
      ELSE kwargs

\* External: the engine looks at `thinking` only and has a default without it.
Thinks(kwargs) == IF "thinking" \in DOMAIN kwargs THEN kwargs["thinking"] ELSE "default"

\* configured_max_new_tokens; Unset is a value that is not a number.
MaxNewTokens(raw) == IF raw = Unset THEN 32768 ELSE raw

\* The field the engine takes: max_completion_tokens wins.
Asked(request) == IF request.max_completion_tokens # Unset THEN request.max_completion_tokens
                  ELSE request.max_tokens

\* Mutant: the cap is always written to max_tokens.
CapField(request, limit) == [request EXCEPT !.max_tokens = limit]

\* The field the request used is clamped.
Clamp(request, limit) ==
  IF request.max_completion_tokens # Unset
  THEN [request EXCEPT !.max_completion_tokens = limit]
  ELSE [request EXCEPT !.max_tokens = limit]

\* apply_request_max_tokens
ApplyMaxTokens(request, limit) ==
  IF limit <= 0 THEN request
  ELSE IF Asked(request) = Unset THEN [request EXCEPT !.max_tokens = limit]
  ELSE IF Asked(request) > limit THEN Clamp(request, limit)
  ELSE request
===============================================================================
