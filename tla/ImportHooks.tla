----------------------------- MODULE ImportHooks -----------------------------
(***************************************************************************)
(* How the adapters get into an engine process                             *)
(* (fleet/adapter/sitecustomize.py): a finder takes the import of some     *)
(* engine modules over and, when the module's own body has run, installs   *)
(* the adapters that patch it.  Engine modules go by the last part of      *)
(* their name, except deepseek_v4_backend and dsv4_metadata of             *)
(* layers/attention; a switch is a DSV41_ variable that is set to on.      *)
(***************************************************************************)
EXTENDS Naturals, Sequences, SequencesExt

CONSTANTS
  Configurations,  \* sets of switches that are on
  Orders           \* orders in which a process asks for engine modules

VARIABLES
  on,         \* the switches of this process
  todo,       \* modules the process has still to ask for
  running,    \* modules whose body runs, the innermost last
  loaded,     \* modules whose import is complete
  installed   \* adapters installed, in order

hookVars == <<on, todo, running, loaded, installed>>

\* External: the draft model is built on the target model's module.
Needs(m) == IF m = "deepseek_v4_dspark" THEN {"deepseek_v4"} ELSE {}

\* Mutant: one branch of exec_module has no entry in the finder's list.
WatchedForgetsFence ==
  {"engram", "fp8_utils", "fp8", "model_runner", "encoding_dsv41", "serving_chat",
   "schedule_batch", "flashinfer_autotune", "deepseek_v4", "deepseek_v4_dspark",
   "dspark_draft_sampler", "dspark_accept", "moe_fused_gate", "dspark_draft",
   "dspark_planner", "dsv4_metadata"}

\* find_spec: the modules whose loader is replaced.
Watched ==
  {"engram", "fp8_utils", "fp8", "model_runner", "encoding_dsv41", "serving_chat",
   "schedule_batch", "flashinfer_autotune", "deepseek_v4", "deepseek_v4_dspark",
   "dspark_draft_sampler", "dspark_accept", "dspark_verify", "moe_fused_gate",
   "dspark_draft", "dspark_planner", "dsv4_metadata"}

\* An install that waits for a switch.
Install(h, switch) == IF switch \in on THEN <<h>> ELSE <<>>

\* exec_module's branches: the installs after a module's body, in order.
Chain == [
  engram |-> Install("engram_backend", "SOURCE") \o Install("engram_prefetch", "ENGRAM_PREFETCH"),
  fp8_utils |-> Install("mxfp8_b12x", "MXFP8_BACKEND"),
  fp8 |-> Install("mxfp8_b12x.fp8", "MXFP8_BACKEND"),
  model_runner |-> Install("prefill_empty_cache", "PREFILL_EMPTY_CACHE"),
  encoding_dsv41 |-> Install("encoding_compat.encoder", "SOURCE"),
  serving_chat |-> Install("encoding_compat.chat", "SOURCE"),
  schedule_batch |-> Install("loop_abort", "LOOP_ABORT"),
  flashinfer_autotune |-> Install("autotune_keep", "AUTOTUNE_KEEP"),
  deepseek_v4 |-> Install("wo_a_w8.model", "WO_A_W8") \o Install("verify_cap.model", "VERIFY_CAP"),
  deepseek_v4_dspark |->
    Install("verify_cap.dspark", "VERIFY_CAP_CONF") \o Install("wo_a_w8.dspark", "WO_A_W8")
      \o Install("draft_head_fp8", "DRAFT_HEAD_FP8"),
  dspark_draft_sampler |-> Install("draft_tau", "DRAFT_TAU"),
  dspark_accept |-> Install("block_verify", "BLOCK_VERIFY"),
  dspark_verify |->
    Install("folded_result_fence", "FOLDED_FENCE") \o Install("verify_cap.verify", "VERIFY_CAP"),
  moe_fused_gate |-> Install("verify_cap.gate", "VERIFY_CAP"),
  dspark_draft |-> Install("verify_cap.draft", "VERIFY_CAP_CONF"),
  dspark_planner |-> Install("verify_cap.planner", "VERIFY_CAP_CONF")]

\* The engine's modules that the process asks for.
EngineModules == DOMAIN Chain \cup {"dsv4_metadata", "deepseek_v4_backend"}

\* What exec_module installs after the body of m; a watched module without a branch
\* is taken for the metadata module.
Installs(m) ==
  IF "SOURCE" \notin on \/ m \notin Watched THEN <<>>
  ELSE IF m \notin DOMAIN Chain THEN <<"indexer_metadata">>
  ELSE Chain[m]

\* exec_module calls install h after the body of m, and h does not return at once.
Runs(m, h) == \E i \in DOMAIN Installs(m) : Installs(m)[i] = h

HooksInit ==
  /\ on \in Configurations
  /\ todo \in Orders
  /\ running = <<>>
  /\ loaded = {}
  /\ installed = <<>>

Top == running[Len(running)]

\* The process asks for its next module.
Ask ==
  /\ running = <<>> /\ todo # <<>>
  /\ todo' = Tail(todo)
  /\ running' = IF Head(todo) \in loaded THEN <<>> ELSE <<Head(todo)>>
  /\ UNCHANGED <<on, loaded, installed>>

\* The body of the innermost module asks for a module it needs.
AskNested ==
  /\ running # <<>>
  /\ \E m \in Needs(Top) \ loaded : running' = Append(running, m)
  /\ UNCHANGED <<on, todo, loaded, installed>>

\* exec_module: the body of m is done; its adapters are installed.
Finish(m) ==
  /\ running # <<>> /\ m = Top
  /\ Needs(m) \subseteq loaded
  /\ running' = Front(running)
  /\ loaded' = loaded \cup {m}
  /\ installed' = installed \o Installs(m)
  /\ UNCHANGED <<on, todo>>

-----------------------------------------------------------------------------

\* What each adapter says of itself: the module it patches and its switch.
Serves == {
  <<"engram_backend", "engram", "SOURCE">>, <<"engram_prefetch", "engram", "ENGRAM_PREFETCH">>,
  <<"mxfp8_b12x", "fp8_utils", "MXFP8_BACKEND">>, <<"mxfp8_b12x.fp8", "fp8", "MXFP8_BACKEND">>,
  <<"prefill_empty_cache", "model_runner", "PREFILL_EMPTY_CACHE">>,
  <<"encoding_compat.encoder", "encoding_dsv41", "SOURCE">>,
  <<"encoding_compat.chat", "serving_chat", "SOURCE">>,
  <<"loop_abort", "schedule_batch", "LOOP_ABORT">>,
  <<"autotune_keep", "flashinfer_autotune", "AUTOTUNE_KEEP">>,
  <<"wo_a_w8.model", "deepseek_v4", "WO_A_W8">>,
  <<"wo_a_w8.dspark", "deepseek_v4_dspark", "WO_A_W8">>,
  <<"draft_head_fp8", "deepseek_v4_dspark", "DRAFT_HEAD_FP8">>,
  <<"draft_tau", "dspark_draft_sampler", "DRAFT_TAU">>,
  <<"block_verify", "dspark_accept", "BLOCK_VERIFY">>,
  <<"folded_result_fence", "dspark_verify", "FOLDED_FENCE">>,
  <<"verify_cap.model", "deepseek_v4", "VERIFY_CAP">>,
  <<"verify_cap.verify", "dspark_verify", "VERIFY_CAP">>,
  <<"verify_cap.gate", "moe_fused_gate", "VERIFY_CAP">>,
  <<"verify_cap.dspark", "deepseek_v4_dspark", "VERIFY_CAP_CONF">>,
  <<"verify_cap.draft", "dspark_draft", "VERIFY_CAP_CONF">>,
  <<"verify_cap.planner", "dspark_planner", "VERIFY_CAP_CONF">>,
  <<"indexer_metadata", "dsv4_metadata", "SOURCE">>,
  <<"indexer_chunked", "deepseek_v4_backend", "INDEXER_CHUNKED">>}

Installed(h) == \E i \in DOMAIN installed : installed[i] = h

\* Adapters that should be in place by now.
Due == {s \in Serves : "SOURCE" \in on /\ s[3] \in on /\ s[2] \in loaded}

\* Each adapter but the chunked indexer is installed once its module is imported and
\* its switch is on, never otherwise and never twice; the prefetch wraps the Engram
\* backend's lookups and not those the backend replaces.
HooksInPlace ==
  /\ \A s \in Serves : s[1] # "indexer_chunked" => (Installed(s[1]) <=> s \in Due)
  /\ \A i, j \in DOMAIN installed : installed[i] = installed[j] => i = j
  /\ \A i, j \in DOMAIN installed :
       installed[i] = "engram_backend" /\ installed[j] = "engram_prefetch" => i < j

\* A switch that is on has its adapter in place once the module is imported.
SwitchInstalls == \A s \in Due : Installed(s[1])
===============================================================================
