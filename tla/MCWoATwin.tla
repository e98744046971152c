----------------------------- MODULE MCWoATwin -----------------------------
EXTENDS WoATwin, TLC

CONSTANTS t1, t2, d1, a1, a2, a3, a4, a5

\* Switches that are on by default or change nothing about wo_a.
Defaults == {"SOURCE", "MXFP8_BACKEND", "PREFILL_EMPTY_CACHE", "LOOP_ABORT"}
Decode == {"ENGRAM_PREFETCH", "AUTOTUNE_KEEP", "VERIFY_CAP", "VERIFY_CAP_CONF",
           "DRAFT_HEAD_FP8", "DRAFT_TAU", "BLOCK_VERIFY", "FOLDED_FENCE"}
TwinSwitches == {"WO_A_W8_MID", "WO_A_W8_DROP", "WO_A_W8_DRAFT"}

\* Everything off, the defaults, one decode adapter at a time, every kind of twin.
SwitchSets ==
  {{}, Defaults} \cup {Defaults \cup {s} : s \in Decode \ {"VERIFY_CAP_CONF"}}
    \cup {Defaults \cup Decode \cup {"WO_A_W8"} \cup t : t \in SUBSET TwinSwitches}

ChunkedOn == {Defaults \cup {"INDEXER_CHUNKED"}}

Others == <<"encoding_dsv41", "serving_chat", "schedule_batch", "engram", "fp8_utils", "fp8",
            "model_runner", "flashinfer_autotune", "deepseek_v4_backend", "dsv4_metadata",
            "moe_fused_gate", "dspark_accept", "dspark_draft_sampler", "dspark_planner",
            "dspark_verify", "dspark_draft">>

\* The models in either order, after and before the rest.
AskOrders ==
  {Others \o <<"deepseek_v4", "deepseek_v4_dspark">>, Others \o <<"deepseek_v4_dspark">>,
   <<"deepseek_v4_dspark", "deepseek_v4">> \o Others}

\* The modules of attention first.
BackendFirst == {<<"deepseek_v4_backend", "dsv4_metadata">>}

Interchangeable == Permutations({a1, a2, a3, a4, a5})
=============================================================================
