----------------------------- MODULE AutotuneKeep -----------------------------
(***************************************************************************)
(* The FlashInfer autotune cache kept across boots                         *)
(* (fleet/adapter/autotune_keep.py around sglang's flashinfer_autotune).   *)
(*                                                                         *)
(* Each rank has a cache file and, beside it, a sidecar with the           *)
(* fingerprint of the launch that saved it.  A boot enters the tuning      *)
(* context on every rank; the engine's gate compares the ranks' digests    *)
(* and drops every cache when they differ; what is left is loaded, the     *)
(* missing tactics are tuned by all ranks together, and each rank saves    *)
(* its cache and then its sidecar.  The gate, the tuning and the saving of *)
(* the cache are the engine's, modelled as this adapter relies on them.    *)
(*                                                                         *)
(* A launch is a configuration per rank (one node's environment may change *)
(* alone); a cache file is the configuration its tactics were tuned for.   *)
(* Metadata stamps are those of one image, the same on every rank.         *)
(***************************************************************************)
EXTENDS Integers

CONSTANTS
  Ranks,
  Configs,      \* launch configurations: argv and fingerprinted environment
  Keeps,        \* values of DSV41_AUTOTUNE_KEEP the boots may use
  MaxBoots,     \* bound: boots of the cluster
  MaxCrashes,   \* bound: boots that end half-way
  MaxFailures,  \* bound: sidecar writes that fail
  NoFile

ASSUME KeepAssumption ==
  /\ Ranks # {}
  /\ NoFile \notin Configs
  /\ Keeps \subseteq BOOLEAN
  /\ MaxBoots \in Nat /\ MaxCrashes \in Nat /\ MaxFailures \in Nat

VARIABLES
  cache,        \* each rank's cache file, or NoFile
  sidecar,      \* the fingerprint beside it, or NoFile
  launch,       \* the configuration this boot started each rank with
  keep,         \* this boot's DSV41_AUTOTUNE_KEEP
  pc,           \* where each rank is in the tuning context
  dropped,      \* the gate found the ranks' digests different
  loaded,       \* the cache each rank loaded, or NoFile
  resumes,      \* history: this boot repeats one that kept its caches
  off,          \* history: some boot had the switch off
  boots, crashes, failures

files == <<cache, sidecar>>
boot == <<launch, keep, resumes, off, boots>>
vars == <<files, boot, pc, dropped, loaded, crashes, failures>>

Phases == {"down", "enter", "gate", "load", "tune", "save", "sidecar", "up"}

Init ==
  /\ cache = [r \in Ranks |-> NoFile]
  /\ sidecar = [r \in Ranks |-> NoFile]
  /\ launch \in [Ranks -> Configs]
  /\ keep \in Keeps
  /\ pc = [r \in Ranks |-> "down"]
  /\ dropped = FALSE
  /\ loaded = [r \in Ranks |-> NoFile]
  /\ resumes = FALSE /\ off = FALSE
  /\ boots = 0 /\ crashes = 0 /\ failures = 0

AllAt(phase) == \A r \in Ranks : pc[r] = phase
Goto(r, phase) == pc' = [pc EXCEPT ![r] = phase]

\* Mutant: any sidecar will do.
LoadableAnySidecar(r) == cache[r] # NoFile /\ sidecar[r] # NoFile

\* _autotune_cache_digest is not "": there is a cache, and its sidecar has the
\* fingerprint of this launch.
Loadable(r) == cache[r] # NoFile /\ sidecar[r] = launch[r]

-----------------------------------------------------------------------------

\* The cluster starts: after a shutdown, or after a crash.
Boot(config, keeping) ==
  /\ AllAt("down") \/ AllAt("up")
  /\ boots < MaxBoots
  /\ boots' = boots + 1
  /\ launch' = config /\ keep' = keeping
  /\ off' = (off \/ ~keeping)
  /\ resumes' = (AllAt("up") /\ keep /\ keeping /\ config = launch
                 /\ \A r \in Ranks : sidecar[r] = launch[r])
  /\ pc' = [r \in Ranks |-> IF keeping THEN "enter" ELSE "gate"]
  /\ dropped' = FALSE
  /\ loaded' = [r \in Ranks |-> NoFile]
  /\ UNCHANGED <<files, crashes, failures>>

\* Mutant: a cache without a sidecar for this launch is left to the gate.
EnterKeepsStale(r) ==
  /\ pc[r] = "enter"
  /\ Goto(r, "gate")
  /\ UNCHANGED <<files, boot, dropped, loaded, crashes, failures>>

\* Mutant: every cache is removed on entry.
EnterUnlinks(r) ==
  /\ pc[r] = "enter"
  /\ cache' = [cache EXCEPT ![r] = NoFile]
  /\ Goto(r, "gate")
  /\ UNCHANGED <<sidecar, boot, dropped, loaded, crashes, failures>>

\* The adapter's context removes a cache that is not this launch's.
Enter(r) ==
  /\ pc[r] = "enter"
  /\ cache' = [cache EXCEPT ![r] = IF Loadable(r) THEN @ ELSE NoFile]
  /\ Goto(r, "gate")
  /\ UNCHANGED <<sidecar, boot, dropped, loaded, crashes, failures>>

\* The digests of two ranks are equal.  The stock digest is of the whole file,
\* which under expert parallelism no two ranks share.
Agree(r, q) ==
  IF keep
  THEN Loadable(r) <=> Loadable(q)
  ELSE r = q \/ (cache[r] = NoFile /\ cache[q] = NoFile)

\* _drop_diverged_autotune_cache: the digests are gathered from every rank.
Gate ==
  /\ AllAt("gate")
  /\ dropped' = \E r, q \in Ranks : ~Agree(r, q)
  /\ pc' = [r \in Ranks |-> "load"]
  /\ UNCHANGED <<files, boot, loaded, crashes, failures>>

\* A rank drops its cache, or loads it if it has one.
LoadCache(r) ==
  /\ pc[r] = "load"
  /\ IF dropped
     THEN cache' = [cache EXCEPT ![r] = NoFile] /\ UNCHANGED loaded
     ELSE loaded' = [loaded EXCEPT ![r] = cache[r]] /\ UNCHANGED cache
  /\ Goto(r, "tune")
  /\ UNCHANGED <<sidecar, boot, dropped, crashes, failures>>

\* The warm-up profiles what was not loaded, on all ranks together.
Tune ==
  /\ AllAt("tune")
  /\ pc' = [r \in Ranks |-> "save"]
  /\ UNCHANGED <<files, boot, dropped, loaded, crashes, failures>>

\* The engine saves the cache: what was loaded, or what was tuned.
SaveCache(r) ==
  /\ pc[r] = "save"
  /\ cache' = [cache EXCEPT ![r] = IF loaded[r] = NoFile THEN launch[r] ELSE loaded[r]]
  /\ Goto(r, IF keep THEN "sidecar" ELSE "up")
  /\ UNCHANGED <<sidecar, boot, dropped, loaded, crashes, failures>>

\* The adapter writes the sidecar.
WriteSidecar(r) ==
  /\ pc[r] = "sidecar"
  /\ sidecar' = [sidecar EXCEPT ![r] = launch[r]]
  /\ Goto(r, "up")
  /\ UNCHANGED <<cache, boot, dropped, loaded, crashes, failures>>

\* The write fails; the error is swallowed and the old sidecar stays.
WriteSidecarFails(r) ==
  /\ pc[r] = "sidecar"
  /\ failures < MaxFailures
  /\ failures' = failures + 1
  /\ Goto(r, "up")
  /\ UNCHANGED <<files, boot, dropped, loaded, crashes>>

\* The boot ends half-way on every rank; the files stay.
Crash ==
  /\ ~AllAt("down") /\ ~AllAt("up")
  /\ crashes < MaxCrashes
  /\ crashes' = crashes + 1
  /\ pc' = [r \in Ranks |-> "down"]
  /\ UNCHANGED <<files, boot, dropped, loaded, failures>>

Finished ==
  /\ boots = MaxBoots /\ (AllAt("up") \/ AllAt("down"))
  /\ UNCHANGED vars

Step(r) ==
  Enter(r) \/ LoadCache(r) \/ SaveCache(r) \/ WriteSidecar(r) \/ WriteSidecarFails(r)

Next ==
  \/ \E config \in [Ranks -> Configs], keeping \in Keeps : Boot(config, keeping)
  \/ \E r \in Ranks : Step(r)
  \/ Gate \/ Tune
  \/ Crash
  \/ Finished

Spec == Init /\ [][Next]_vars

-----------------------------------------------------------------------------
(* Properties. *)

\* Past the gate of this boot.
Loaded(r) == pc[r] \in {"tune", "save", "sidecar", "up"}

\* Values and phases; no rank loads while another has not reached the gate.
TypeOK ==
  /\ cache \in [Ranks -> Configs \cup {NoFile}]
  /\ sidecar \in [Ranks -> Configs \cup {NoFile}]
  /\ launch \in [Ranks -> Configs]
  /\ keep \in BOOLEAN /\ resumes \in BOOLEAN /\ dropped \in BOOLEAN
  /\ pc \in [Ranks -> Phases]
  /\ loaded \in [Ranks -> Configs \cup {NoFile}]
  /\ boots \in 0 .. MaxBoots
  /\ crashes \in 0 .. MaxCrashes /\ failures \in 0 .. MaxFailures
  /\ \A r, q \in Ranks :
       pc[r] \in {"load", "tune", "save", "sidecar"} =>
         pc[q] \notin {"down", "enter", "gate"}

\* A rank that loads tactics skips profiles, and a profile skipped by one rank
\* only desynchronises the timing reduction: in a boot every rank loads its
\* cache or none does, whatever launch, crash or failed write came before.
AllOrNone ==
  \A r, q \in Ranks :
    Loaded(r) /\ Loaded(q) => (loaded[r] = NoFile <=> loaded[q] = NoFile)

\* A cache is kept only for the launch it was tuned for.
LoadedForLaunch ==
  \A r \in Ranks : keep /\ Loaded(r) => loaded[r] \in {NoFile, launch[r]}

\* The same where it does hold: no boot ended between the cache and the
\* sidecar, no sidecar failed to be written, no boot had the switch off.
KeptForLaunch == crashes = 0 /\ failures = 0 /\ ~off => LoadedForLaunch

\* What the adapter is for: a boot that repeats a completed one reuses every
\* rank's tactics.
ReusedWhenUnchanged ==
  \A r \in Ranks : resumes /\ Loaded(r) => loaded[r] # NoFile
===============================================================================
