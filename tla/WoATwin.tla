------------------------------- MODULE WoATwin -------------------------------
(***************************************************************************)
(* fp8 twins of the wo_a weights (fleet/adapter/wo_a_w8.py).  A twin is    *)
(* found by the address of the bf16 weight; with DROP the bf16 copy is     *)
(* freed, a one-element tag takes its place and the address may be used    *)
(* again.  The adapter is installed by the imports of ImportHooks, models  *)
(* are loaded, and forward passes multiply by the weights.                 *)
(***************************************************************************)
EXTENDS ImportHooks, FiniteSets

CONSTANTS
  TargetWeights, DraftWeights,  \* wo_a weights of the two models
  Addr,                         \* device addresses of weights, tags and scratch
  None                          \* no twin, no address, no call

Models == {"target", "draft"}
Modes == {"prefill", "decode", "verify", "draft"}
Passes == [model : Models, mode : Modes, prev : BOOLEAN]

ASSUME WeightsAssumption ==
  /\ TargetWeights \cap DraftWeights = {}
  /\ None \notin TargetWeights \cup DraftWeights \cup Addr \cup Passes

VARIABLES
  engine,    \* "kernels": wo_a has small-batch kernels; "einsum": it has none
  bridge,    \* _CTX["bridge"]
  loading,   \* what load_weights of a model's class does: "plain", "build", "drop"
  routed,    \* the draft module's torch is the proxy
  at,        \* address of a weight's storage: the bf16 copy or its tag
  twins,     \* _TWINS: the weight whose twin is found at an address
  dropped,   \* _DROPPED: addresses of tags
  dropping,  \* weights drop_bf16 has still to look at
  forward,   \* the forward pass that runs
  spec,      \* _CTX["spec"]
  last       \* the last wo_a product of that pass

twinVars == <<engine, bridge, loading, routed, at, twins, dropped, dropping,
              forward, spec, last>>
vars == <<hookVars, twinVars>>

Weights == TargetWeights \cup DraftWeights
WeightsOf(model) == IF model = "target" THEN TargetWeights ELSE DraftWeights
ModuleOf(model) == IF model = "target" THEN "deepseek_v4" ELSE "deepseek_v4_dspark"
\* Rows of an activation: 1, 2 to 8, 9 to 192, more.
Rows == {"one", "few", "mid", "many"}

Enabled(switch) == switch \in on
\* install_model has run.
Armed == loading["target"] # "plain"
Free == Addr \ {at[w] : w \in Weights}

Init ==
  /\ HooksInit
  /\ engine \in {"kernels", "einsum"}
  /\ bridge = FALSE /\ routed = FALSE
  /\ loading = [m \in Models |-> "plain"]
  /\ at = [w \in Weights |-> None]
  /\ twins = [a \in Addr |-> None]
  /\ dropped = {} /\ dropping = {}
  /\ forward = None /\ spec = FALSE /\ last = None

-----------------------------------------------------------------------------
(* The installs, at the end of an import.                                  *)

WrapLoad(drop) == IF drop THEN "drop" ELSE "build"

\* install_model
InstallModel ==
  /\ bridge' = (engine = "einsum")
  /\ loading' = [loading EXCEPT !["target"] = WrapLoad(Enabled("WO_A_W8_DROP"))]
  /\ UNCHANGED routed

\* Mutant: the draft is dropped like the target whatever its attention calls.
InstallDsparkAlike ==
  /\ loading' = [loading EXCEPT !["draft"] = WrapLoad(Enabled("WO_A_W8_DROP"))]
  /\ UNCHANGED <<bridge, routed>>

\* install_dspark: a draft that runs its own einsum is never dropped.
InstallDspark ==
  /\ IF ~bridge
     THEN /\ loading' = [loading EXCEPT !["draft"] = WrapLoad(Enabled("WO_A_W8_DROP"))]
          /\ UNCHANGED routed
     ELSE /\ routed' = Enabled("WO_A_W8_DRAFT")
          /\ loading' = IF Enabled("WO_A_W8_DRAFT")
                        THEN [loading EXCEPT !["draft"] = WrapLoad(FALSE)] ELSE loading
  /\ UNCHANGED bridge

Import(m) ==
  /\ Finish(m)
  /\ IF Runs(m, "wo_a_w8.model") THEN InstallModel
     ELSE IF Runs(m, "wo_a_w8.dspark") THEN InstallDspark
     ELSE UNCHANGED <<bridge, loading, routed>>
  /\ UNCHANGED <<engine, at, twins, dropped, dropping, forward, spec, last>>

-----------------------------------------------------------------------------
(* Loading a model.                                                        *)

\* load_weights and build_twins: the engine writes the bf16 weights; a twin that
\* reproduces its weight is registered under the weight's address.
Load(model) ==
  /\ ModuleOf(model) \in loaded
  /\ running = <<>> /\ forward = None /\ dropping = {}
  /\ \A w \in WeightsOf(model) : at[w] = None
  /\ \E f \in [WeightsOf(model) -> Free],
        exact \in IF loading[model] = "plain" THEN {{}} ELSE SUBSET WeightsOf(model) :
       /\ \A v, w \in WeightsOf(model) : f[v] = f[w] => v = w
       /\ at' = [w \in Weights |-> IF w \in WeightsOf(model) THEN f[w] ELSE at[w]]
       /\ twins' = [a \in Addr |-> IF \E w \in exact : f[w] = a
                                   THEN CHOOSE w \in exact : f[w] = a ELSE twins[a]]
       /\ dropping' = IF loading[model] = "drop" THEN exact ELSE {}
  /\ UNCHANGED <<hookVars, engine, bridge, loading, routed, dropped, forward, spec, last>>

\* Mutant: the twin stays registered under the freed address.
RetagKeeping(w, a) == twins' = [twins EXCEPT ![a] = w]

\* The twin of w moves from the bf16 copy's address to the tag's.
Retag(w, a) == twins' = [twins EXCEPT ![at[w]] = None, ![a] = w]

\* drop_bf16 for a weight with a twin: the weight becomes a view of a tag and its
\* bf16 storage is free, or is kept when the dequantized copy differs from it.
Drop(w) ==
  /\ w \in dropping
  /\ dropping' = dropping \ {w}
  /\ \/ UNCHANGED <<at, twins, dropped>>
     \/ \E a \in Free :
          /\ Retag(w, a)
          /\ at' = [at EXCEPT ![w] = a]
          /\ dropped' = dropped \cup {a}
  /\ UNCHANGED <<hookVars, engine, bridge, loading, routed, forward, spec, last>>

-----------------------------------------------------------------------------
(* A tensor is its address and what it holds; a product is the weight whose *)
(* bytes it read and who computed it.                                       *)

TwinOf(w) == [bytes |-> w, by |-> "twin"]
Stock(t) == [bytes |-> t.bytes, by |-> "engine"]
WeightTensor(w) == [ptr |-> at[w], bytes |-> IF at[w] \in dropped THEN "tag" ELSE w]
\* dequant_into_scratch: a fresh buffer.
Scratch(w, s) == [ptr |-> s, bytes |-> w]

\* small, small_mx: the patched small-batch kernels.
Small(t) == IF twins[t.ptr] # None THEN TwinOf(twins[t.ptr]) ELSE Stock(t)

\* External: the engine's own product.
Orig(t, rows) ==
  IF engine = "kernels" /\ Armed /\ rows = "few" THEN Small(t) ELSE Stock(t)

\* install_mid's dispatch; std: the activation has the standard layout.
ApplyMid(t, rows, std, verify, s) ==
  LET twin == twins[t.ptr]
      midRows == std /\ rows = "mid" /\ verify
  IN  IF t.ptr \in dropped
      THEN IF (std /\ rows = "few") \/ midRows THEN TwinOf(twin) ELSE Orig(Scratch(twin, s), rows)
      ELSE IF Enabled("WO_A_W8_MID") /\ midRows /\ twin # None THEN TwinOf(twin)
      ELSE Orig(t, rows)

\* Mutant: a freed weight is handed to the engine as it is.
ApplyBridgeRaw(t, rows, std, s) ==
  LET twin == twins[t.ptr]
  IN  IF /\ twin # None /\ std
         /\ rows = "few" \/ (rows = "mid" /\ Enabled("WO_A_W8_MID") /\ spec)
      THEN TwinOf(twin)
      ELSE Orig(t, rows)

\* _install_einsum_bridge's dispatch.
ApplyBridge(t, rows, std, s) ==
  LET twin == twins[t.ptr]
  IN  IF /\ twin # None /\ std
         /\ rows = "few" \/ (rows = "mid" /\ Enabled("WO_A_W8_MID") /\ spec)
      THEN TwinOf(twin)
      ELSE IF t.ptr \in dropped /\ twin # None THEN Orig(Scratch(twin, s), rows)
      ELSE Orig(t, rows)

\* _install_draft_einsum's einsum.
DraftEinsum(t, rows, std) ==
  LET twin == twins[t.ptr]
  IN  IF /\ routed /\ twin # None /\ std
         /\ rows = "few" \/ (rows = "mid" /\ Enabled("WO_A_W8_MID"))
      THEN TwinOf(twin) ELSE Stock(t)

\* The product by weight w in a forward pass of a model.
Product(w, rows, std, s) ==
  LET t == WeightTensor(w)
      mid == Armed /\ (Enabled("WO_A_W8_MID") \/ Enabled("WO_A_W8_DROP"))
  IN  IF engine = "kernels"
      THEN IF mid THEN ApplyMid(t, rows, std, forward.mode = "verify", s) ELSE Orig(t, rows)
      ELSE IF forward.model = "draft" THEN DraftEinsum(t, rows, std)
      ELSE IF bridge THEN ApplyBridge(t, rows, std, s) ELSE Orig(t, rows)

\* Mutant: every forward pass counts as speculative.
SpecModesAll == Modes

\* Forward modes in which wo_a's rows are those of a decode or a verify.
SpecModes == {"decode", "verify", "draft"}

\* Classes whose forward _spec_forward wraps.
Wrapped(model) ==
  IF model = "target" THEN bridge ELSE engine = "kernels" /\ loading["draft"] # "plain"

\* forward, run by the scheduler once the process is up.
Enter(model, mode) ==
  /\ forward = None /\ dropping = {} /\ running = <<>> /\ todo = <<>>
  /\ \A w \in WeightsOf(model) : at[w] # None
  /\ mode = "draft" => model = "draft"
  /\ forward' = [model |-> model, mode |-> mode, prev |-> spec]
  /\ spec' = IF Wrapped(model) THEN mode \in SpecModes ELSE spec
  /\ UNCHANGED <<hookVars, engine, bridge, loading, routed, at, twins, dropped,
                 dropping, last>>

\* A layer multiplies by its wo_a.
Call(w, rows, std) ==
  /\ forward # None /\ w \in WeightsOf(forward.model)
  /\ \E s \in Free :
       last' = [weight |-> w, rows |-> rows, product |-> Product(w, rows, std, s)]
  /\ UNCHANGED <<hookVars, engine, bridge, loading, routed, at, twins, dropped,
                 dropping, forward, spec>>

\* The pass returns or raises.
Leave ==
  /\ forward # None
  /\ forward' = None /\ last' = None
  /\ spec' = forward.prev
  /\ UNCHANGED <<hookVars, engine, bridge, loading, routed, at, twins, dropped,
                 dropping>>

\* One thread imports, loads and runs: it asks for a module between two loads.
Next ==
  \/ (Ask \/ AskNested) /\ dropping = {} /\ UNCHANGED twinVars
  \/ \E m \in EngineModules : Import(m)
  \/ \E model \in Models : Load(model)
  \/ \E w \in Weights : Drop(w)
  \/ \E model \in Models, mode \in Modes : Enter(model, mode)
  \/ \E w \in Weights, rows \in Rows, std \in BOOLEAN : Call(w, rows, std)
  \/ Leave

Spec == Init /\ [][Next]_vars

-----------------------------------------------------------------------------

\* Every twin is registered under the address its weight has now, and every tag has
\* its twin: after a bf16 copy is freed nothing is found under its address, whoever
\* gets it next.
KeysLive ==
  /\ \A a \in Addr : twins[a] # None => at[twins[a]] = a
  /\ \A a \in dropped : twins[a] # None

\* Whatever path a wo_a product takes, it is computed from the bytes of its own
\* weight: never from another weight's twin and never from a tag.
OwnWeight == last # None => last.product.bytes = last.weight

\* A prefill of the target with more than eight rows is computed by the engine from
\* the bf16 weight or its identical copy, so that its numerics do not change.
PrefillStock ==
  last # None /\ forward.model = "target" /\ forward.mode = "prefill"
    /\ last.rows \in {"mid", "many"}
  => last.product.by = "engine"
===============================================================================
