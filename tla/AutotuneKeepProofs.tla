-------------------------- MODULE AutotuneKeepProofs --------------------------
(***************************************************************************)
(* In every boot all ranks load their autotune cache or none does, for any *)
(* number of ranks, launches, crashes and failed sidecar writes.           *)
(*                                                                         *)
(* AllOrNone speaks of what was loaded; the invariant adds what makes it   *)
(* so on the way: on entry a cache that is not this launch's is removed,   *)
(* so that at the gate having a file and having a loadable one are the     *)
(* same, and from the gate on the files agree until each is loaded.        *)
(* Two more invariants follow: a cache that is loaded is this launch's     *)
(* while nothing disturbed its sidecar, and a repeated boot loads all.     *)
(***************************************************************************)
EXTENDS AutotuneKeep, TLAPS

HasFile(r) == cache[r] # NoFile
HasLoaded(r) == loaded[r] # NoFile

\* A rank at the gate has no cache but a loadable one.
AtGate == keep => \A r \in Ranks : pc[r] = "gate" /\ HasFile(r) => Loadable(r)

\* Ranks about to load agree with each other and with those that have loaded.
AtLoad ==
  /\ \A r \in Ranks : pc[r] \in {"enter", "gate", "load"} => ~HasLoaded(r)
  /\ \A r \in Ranks : dropped /\ Loaded(r) => ~HasLoaded(r)
  /\ \A r, q \in Ranks :
       ~dropped /\ pc[r] = "load" /\ pc[q] = "load" => (HasFile(r) <=> HasFile(q))
  /\ \A r, q \in Ranks :
       ~dropped /\ pc[r] = "load" /\ Loaded(q) => (HasFile(r) <=> HasLoaded(q))

KeepInv == TypeOK /\ AtGate /\ AtLoad /\ AllOrNone

LEMMA InitKeep == Init => KeepInv
<1> SUFFICES ASSUME Init PROVE KeepInv
  OBVIOUS
<1>1. keep \in BOOLEAN
  BY KeepAssumption DEF Init
<1>2. resumes \in BOOLEAN /\ dropped \in BOOLEAN
  BY DEF Init
<1>3. TypeOK
  BY <1>1, <1>2, KeepAssumption DEF Init, TypeOK, Phases
<1>4. AtGate /\ AtLoad /\ AllOrNone
  BY DEF Init, AtGate, AtLoad, AllOrNone, Loaded, HasLoaded
<1>5. QED
  BY <1>3, <1>4 DEF KeepInv

\* The types and the barrier of the gate.
LEMMA TypeKeep == TypeOK /\ [Next]_vars => TypeOK'
<1> SUFFICES ASSUME TypeOK, [Next]_vars PROVE TypeOK'
  OBVIOUS
<1> USE DEF TypeOK, Phases, files, boot, AllAt, Goto
<1>1. ASSUME NEW config \in [Ranks -> Configs], NEW keeping \in Keeps,
             Boot(config, keeping)
      PROVE  TypeOK'
  <2>1. keep' \in BOOLEAN
    BY <1>1, KeepAssumption DEF Boot
  <2>2. resumes' \in BOOLEAN /\ dropped' \in BOOLEAN
    BY <1>1 DEF Boot
  <2>3. boots' \in 0 .. MaxBoots
    BY <1>1, KeepAssumption DEF Boot
  <2>4. pc' \in [Ranks -> {"enter", "gate"}]
    BY <1>1 DEF Boot
  <2>5. pc' \in [Ranks -> Phases] /\ launch' \in [Ranks -> Configs]
        /\ loaded' \in [Ranks -> Configs \cup {NoFile}]
    BY <1>1, <2>4 DEF Boot
  <2>6. \A r \in Ranks : pc'[r] \notin {"load", "tune", "save", "sidecar"}
    BY <2>4
  <2>7. QED
    BY <1>1, <2>1, <2>2, <2>3, <2>5, <2>6 DEF Boot
<1>2. ASSUME NEW r \in Ranks, Enter(r) PROVE TypeOK'
  BY <1>2 DEF Enter
<1>3. ASSUME NEW r \in Ranks, LoadCache(r) PROVE TypeOK'
  BY <1>3 DEF LoadCache
<1>4. ASSUME NEW r \in Ranks, SaveCache(r) PROVE TypeOK'
  BY <1>4 DEF SaveCache
<1>5. ASSUME NEW r \in Ranks, WriteSidecar(r) PROVE TypeOK'
  BY <1>5 DEF WriteSidecar
<1>6. ASSUME NEW r \in Ranks, WriteSidecarFails(r) PROVE TypeOK'
  BY <1>6, KeepAssumption DEF WriteSidecarFails
<1>7. CASE Gate
  BY <1>7 DEF Gate
<1>8. CASE Tune
  BY <1>8 DEF Tune
<1>9. CASE Crash
  BY <1>9, KeepAssumption DEF Crash
<1>10. CASE Finished \/ UNCHANGED vars
  BY <1>10 DEF Finished, vars
<1>11. QED
  BY <1>1, <1>2, <1>3, <1>4, <1>5, <1>6, <1>7, <1>8, <1>9, <1>10 DEF Next, Step

LEMMA NextKeep == KeepInv /\ [Next]_vars => KeepInv'
<1> SUFFICES ASSUME KeepInv, [Next]_vars PROVE (AtGate /\ AtLoad /\ AllOrNone)'
  BY TypeKeep DEF KeepInv
<1> USE DEF KeepInv, TypeOK, AtGate, AtLoad, AllOrNone, Loaded, Loadable, HasFile,
            HasLoaded, files, boot, AllAt, Goto
<1>1. ASSUME NEW config \in [Ranks -> Configs], NEW keeping \in Keeps,
             Boot(config, keeping)
      PROVE  (AtGate /\ AtLoad /\ AllOrNone)'
  BY <1>1 DEF Boot
<1>2. ASSUME NEW r \in Ranks, Enter(r) PROVE (AtGate /\ AtLoad /\ AllOrNone)'
  BY <1>2 DEF Enter
<1>3. ASSUME NEW r \in Ranks, LoadCache(r) PROVE (AtGate /\ AtLoad /\ AllOrNone)'
  BY <1>3 DEF LoadCache
<1>4. ASSUME NEW r \in Ranks, SaveCache(r) PROVE (AtGate /\ AtLoad /\ AllOrNone)'
  BY <1>4 DEF SaveCache
<1>5. ASSUME NEW r \in Ranks, WriteSidecar(r) PROVE (AtGate /\ AtLoad /\ AllOrNone)'
  BY <1>5 DEF WriteSidecar
<1>6. ASSUME NEW r \in Ranks, WriteSidecarFails(r)
      PROVE  (AtGate /\ AtLoad /\ AllOrNone)'
  BY <1>6 DEF WriteSidecarFails
<1>7. CASE Gate
  BY <1>7 DEF Gate, Agree
<1>8. CASE Tune
  BY <1>8 DEF Tune
<1>9. CASE Crash
  BY <1>9 DEF Crash
<1>10. CASE Finished \/ UNCHANGED vars
  BY <1>10 DEF Finished, vars
<1>11. QED
  BY <1>1, <1>2, <1>3, <1>4, <1>5, <1>6, <1>7, <1>8, <1>9, <1>10 DEF Next, Step

\* No boot desynchronises the timing reduction: whatever launches, crashes and
\* failed writes came before, all ranks load their tactics or none does.
THEOREM AllOrNoneHolds == Spec => []AllOrNone
<1>1. Init => KeepInv
  BY InitKeep
<1>2. KeepInv /\ [Next]_vars => KeepInv'
  BY NextKeep
<1>3. KeepInv => AllOrNone
  BY DEF KeepInv
<1>4. QED
  BY <1>1, <1>2, <1>3, PTL DEF Spec

-----------------------------------------------------------------------------
(* A kept cache is this launch's. *)

Clean == crashes = 0 /\ failures = 0 /\ ~off

\* While no boot was cut, no write failed and no boot had the switch off, a
\* sidecar beside a cache is the launch the cache was tuned for, except between
\* the two writes; entering removes what is not this launch's.
KeptInv ==
  Clean => \A r \in Ranks :
    /\ pc[r] = "down" => ~HasFile(r)
    /\ pc[r] # "down" => keep
    /\ pc[r] # "sidecar" => cache[r] \in {NoFile, sidecar[r]}
    /\ pc[r] = "sidecar" => cache[r] = launch[r]
    /\ pc[r] \in {"gate", "load"} => cache[r] \in {NoFile, launch[r]}
    /\ loaded[r] \in {NoFile, launch[r]}

LEMMA NextKept == TypeOK /\ KeptInv /\ [Next]_vars => KeptInv'
<1> SUFFICES ASSUME TypeOK, KeptInv, [Next]_vars PROVE KeptInv'
  OBVIOUS
<1> USE DEF TypeOK, KeptInv, Clean, HasFile, Loadable, files, boot, AllAt, Goto
<1>1. ASSUME NEW config \in [Ranks -> Configs], NEW keeping \in Keeps,
             Boot(config, keeping)
      PROVE  KeptInv'
  BY <1>1, KeepAssumption DEF Boot
<1>2. ASSUME NEW r \in Ranks, Enter(r) PROVE KeptInv'
  BY <1>2 DEF Enter
<1>3. ASSUME NEW r \in Ranks, LoadCache(r) PROVE KeptInv'
  BY <1>3 DEF LoadCache
<1>4. ASSUME NEW r \in Ranks, SaveCache(r) PROVE KeptInv'
  BY <1>4 DEF SaveCache
<1>5. ASSUME NEW r \in Ranks, WriteSidecar(r) PROVE KeptInv'
  BY <1>5 DEF WriteSidecar
<1>6. ASSUME NEW r \in Ranks, WriteSidecarFails(r) PROVE KeptInv'
  BY <1>6 DEF WriteSidecarFails
<1>7. CASE Gate
  BY <1>7 DEF Gate
<1>8. CASE Tune
  BY <1>8 DEF Tune
<1>9. CASE Crash
  BY <1>9 DEF Crash
<1>10. CASE Finished \/ UNCHANGED vars
  BY <1>10 DEF Finished, vars
<1>11. QED
  BY <1>1, <1>2, <1>3, <1>4, <1>5, <1>6, <1>7, <1>8, <1>9, <1>10 DEF Next, Step

\* As long as no boot ended between its two writes, no sidecar failed and the
\* switch stayed on, no rank ever loads tactics tuned for another launch.
THEOREM KeptForLaunchHolds == Spec => []KeptForLaunch
<1>1. Init => TypeOK /\ KeptInv
  <2>1. Init => TypeOK
    BY InitKeep DEF KeepInv
  <2>2. Init => KeptInv
    BY DEF Init, KeptInv, HasFile
  <2>3. QED
    BY <2>1, <2>2
<1>2. TypeOK /\ KeptInv /\ [Next]_vars => (TypeOK /\ KeptInv)'
  BY TypeKeep, NextKept
<1>3. TypeOK /\ KeptInv => KeptForLaunch
  BY DEF KeptInv, KeptForLaunch, LoadedForLaunch, Clean
<1>4. QED
  BY <1>1, <1>2, <1>3, PTL DEF Spec

-----------------------------------------------------------------------------
(* A repeated boot reuses the caches. *)

\* A rank that saved has a cache; a boot that repeats a completed one finds it
\* loadable on every rank until it is loaded, so that the gate drops none.
ReusedInv ==
  /\ resumes => keep /\ ~dropped
  /\ \A r \in Ranks :
       /\ pc[r] \in {"sidecar", "up"} => HasFile(r)
       /\ resumes /\ pc[r] \in {"enter", "gate", "load"} => Loadable(r)
       /\ resumes /\ Loaded(r) => HasLoaded(r)

LEMMA NextReused == TypeOK /\ ReusedInv /\ [Next]_vars => ReusedInv'
<1> SUFFICES ASSUME TypeOK, ReusedInv, [Next]_vars PROVE ReusedInv'
  OBVIOUS
<1> USE DEF TypeOK, ReusedInv, HasFile, HasLoaded, Loaded, Loadable, files, boot,
            AllAt, Goto
<1>1. ASSUME NEW config \in [Ranks -> Configs], NEW keeping \in Keeps,
             Boot(config, keeping)
      PROVE  ReusedInv'
  BY <1>1, KeepAssumption DEF Boot
<1>2. ASSUME NEW r \in Ranks, Enter(r) PROVE ReusedInv'
  BY <1>2 DEF Enter
<1>3. ASSUME NEW r \in Ranks, LoadCache(r) PROVE ReusedInv'
  BY <1>3 DEF LoadCache
<1>4. ASSUME NEW r \in Ranks, SaveCache(r) PROVE ReusedInv'
  BY <1>4, KeepAssumption DEF SaveCache
<1>5. ASSUME NEW r \in Ranks, WriteSidecar(r) PROVE ReusedInv'
  BY <1>5 DEF WriteSidecar
<1>6. ASSUME NEW r \in Ranks, WriteSidecarFails(r) PROVE ReusedInv'
  BY <1>6 DEF WriteSidecarFails
<1>7. CASE Gate
  BY <1>7 DEF Gate, Agree
<1>8. CASE Tune
  BY <1>8 DEF Tune
<1>9. CASE Crash
  BY <1>9 DEF Crash
<1>10. CASE Finished \/ UNCHANGED vars
  BY <1>10 DEF Finished, vars
<1>11. QED
  BY <1>1, <1>2, <1>3, <1>4, <1>5, <1>6, <1>7, <1>8, <1>9, <1>10 DEF Next, Step

\* A boot that repeats a completed one tunes nothing again: every rank loads
\* its cache, whatever happened in the boots before.
THEOREM ReusedWhenUnchangedHolds == Spec => []ReusedWhenUnchanged
<1>1. Init => TypeOK /\ ReusedInv
  <2>1. Init => TypeOK
    BY InitKeep DEF KeepInv
  <2>2. Init => ReusedInv
    BY DEF Init, ReusedInv, Loaded
  <2>3. QED
    BY <2>1, <2>2
<1>2. TypeOK /\ ReusedInv /\ [Next]_vars => (TypeOK /\ ReusedInv)'
  BY TypeKeep, NextReused
<1>3. TypeOK /\ ReusedInv => ReusedWhenUnchanged
  BY DEF ReusedInv, ReusedWhenUnchanged, HasLoaded
<1>4. QED
  BY <1>1, <1>2, <1>3, PTL DEF Spec
===============================================================================
