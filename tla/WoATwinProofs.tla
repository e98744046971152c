----------------------------- MODULE WoATwinProofs -----------------------------
(***************************************************************************)
(* The installs of a process and the twins of the wo_a weights, for any    *)
(* weights, addresses, switches and orders of imports.                     *)
(*                                                                         *)
(* HooksInPlace needs to know that no module is imported twice, and what   *)
(* each branch of exec_module installs; the twins' invariant needs to know *)
(* where the weights are and which dispatch a product of theirs meets.     *)
(***************************************************************************)
EXTENDS WoATwin, SequenceTheorems, TLAPS

-----------------------------------------------------------------------------
(* What a branch of exec_module installs.                                  *)

\* h is among the entries of s.
Among(h, s) == \E i \in DOMAIN s : s[i] = h

\* Adapters of a set of claims, and what the adapters of a module say of themselves;
\* the chunked indexer's claim is not honoured.
Names(C) == {v[1] : v \in C}
Claims(m) == {v \in Serves : v[2] = m /\ v[1] # "indexer_chunked"}

\* A sequence of installs runs those of the claims that are switched on, each once.
Honours(s, C) ==
  /\ s \in Seq(Names(C))
  /\ \A x : Among(x, s) <=> \E v \in C : v[1] = x /\ v[3] \in on
  /\ \A i, j \in DOMAIN s : s[i] = s[j] => i = j

\* Two modules, one inside the other.
LEMMA Nested ==
  ASSUME NEW a, NEW b
  PROVE  Append(<<a>>, b) = <<a, b>> /\ Front(<<a, b>>) = <<a>>
<1> DEFINE S == {a, b}
           s == Append(<<a>>, b)
           t == <<a, b>>
           f == SubSeq(t, 1, 1)
           u == <<a>>
<1>1. /\ t \in Seq(S) /\ Len(t) = 2 /\ t[1] = a /\ t[2] = b
      /\ u \in Seq(S) /\ Len(u) = 1 /\ u[1] = a
  OBVIOUS
<1>2. s \in Seq(S) /\ Len(s) = 2 /\ s[1] = a /\ s[2] = b
  BY <1>1
<1>3. f \in Seq(S) /\ Len(f) = 1 /\ f[1] = a
  BY <1>1, SubSeqProperties
<1>4. Front(t) = f
  BY <1>1 DEF Front
<1> HIDE DEF s, t, f, u
<1>5. \A i \in 1 .. Len(s) : s[i] = t[i]
  BY <1>1, <1>2
<1>6. s = t
  BY <1>1, <1>2, <1>5, SeqEqual
<1>7. \A i \in 1 .. Len(f) : f[i] = u[i]
  BY <1>1, <1>3
<1>8. f = u
  BY <1>1, <1>3, <1>7, SeqEqual
<1>9. QED
  BY <1>4, <1>6, <1>8 DEF s, t, f, u

LEMMA OneInstall ==
  ASSUME NEW h, NEW m, NEW sw
  PROVE  Honours(Install(h, sw), {<<h, m, sw>>})
<1> DEFINE C == {<<h, m, sw>>}
<1>1. Names(C) = {h}
  BY DEF Names
<1>2. CASE sw \in on
  <2>1. Install(h, sw) = <<h>>
    BY <1>2 DEF Install
  <2>2. <<h>> \in Seq({h}) /\ DOMAIN <<h>> = {1} /\ <<h>>[1] = h
    OBVIOUS
  <2>3. \A x : Among(x, Install(h, sw)) <=> x = h
    BY <2>1, <2>2 DEF Among
  <2>4. QED
    BY <1>1, <1>2, <2>1, <2>2, <2>3 DEF Honours
<1>3. CASE sw \notin on
  <2>1. Install(h, sw) = <<>>
    BY <1>3 DEF Install
  <2>2. QED
    BY <1>1, <1>3, <2>1 DEF Honours, Among
<1>4. QED
  BY <1>2, <1>3

\* What two branches run one after the other.
LEMMA Joined ==
  ASSUME NEW S, NEW T, NEW s \in Seq(S), NEW t \in Seq(T), S \cap T = {},
         \A i, j \in DOMAIN s : s[i] = s[j] => i = j,
         \A i, j \in DOMAIN t : t[i] = t[j] => i = j
  PROVE  /\ s \o t \in Seq(S \cup T)
         /\ \A x : Among(x, s \o t) <=> Among(x, s) \/ Among(x, t)
         /\ \A i, j \in DOMAIN (s \o t) : (s \o t)[i] = (s \o t)[j] => i = j
         /\ \A i, j \in DOMAIN (s \o t) : (s \o t)[i] \in S /\ (s \o t)[j] \in T => i < j
<1> DEFINE u == s \o t
<1>1. /\ s \in Seq(S \cup T) /\ t \in Seq(S \cup T)
      /\ \A i \in 1 .. Len(s) : s[i] \in S
      /\ \A i \in 1 .. Len(t) : t[i] \in T
  OBVIOUS
<1>2. u \in Seq(S \cup T) /\ Len(u) = Len(s) + Len(t)
  BY <1>1
<1>3. \A i \in 1 .. Len(u) : u[i] = IF i <= Len(s) THEN s[i] ELSE t[i - Len(s)]
  BY <1>1
<1>4. DOMAIN s = 1 .. Len(s) /\ DOMAIN t = 1 .. Len(t) /\ DOMAIN u = 1 .. Len(u)
      /\ Len(s) \in Nat /\ Len(t) \in Nat
  BY <1>2
<1> HIDE DEF u
<1>5. \A i \in 1 .. Len(u) :
        \/ i \in 1 .. Len(s) /\ u[i] = s[i] /\ u[i] \in S /\ u[i] \notin T
        \/ i - Len(s) \in 1 .. Len(t) /\ u[i] = t[i - Len(s)] /\ u[i] \in T /\ u[i] \notin S
  BY <1>1, <1>2, <1>3, <1>4
<1>6. ASSUME NEW x PROVE Among(x, u) <=> Among(x, s) \/ Among(x, t)
  <2>1. ASSUME NEW i \in 1 .. Len(s), s[i] = x PROVE Among(x, u)
    <3>1. i \in 1 .. Len(u) /\ u[i] = x
      BY <1>2, <1>3, <1>4, <2>1
    <3>2. QED
      BY <1>4, <3>1 DEF Among
  <2>2. ASSUME NEW i \in 1 .. Len(t), t[i] = x PROVE Among(x, u)
    <3>1. /\ i + Len(s) \in 1 .. Len(u) /\ ~(i + Len(s) <= Len(s))
          /\ (i + Len(s)) - Len(s) = i
      BY <1>2, <1>4
    <3>2. u[i + Len(s)] = x
      BY <1>3, <2>2, <3>1
    <3>3. QED
      BY <1>4, <3>1, <3>2 DEF Among
  <2>3. Among(x, u) => Among(x, s) \/ Among(x, t)
    BY <1>4, <1>5 DEF Among
  <2>4. QED
    BY <1>4, <2>1, <2>2, <2>3 DEF Among
<1>7. \A i, j \in DOMAIN u : u[i] = u[j] => i = j
  BY <1>4, <1>5
<1>8. \A i, j \in DOMAIN u : u[i] \in S /\ u[j] \in T => i < j
  BY <1>4, <1>5
<1>9. QED
  BY <1>2, <1>6, <1>7, <1>8 DEF u


\* Installs that follow each other honour what each honours.
LEMMA JoinedInstalls ==
  ASSUME NEW C, NEW D, NEW s, NEW t, Honours(s, C), Honours(t, D),
         Names(C) \cap Names(D) = {}
  PROVE  /\ Honours(s \o t, C \cup D)
         /\ \A i, j \in DOMAIN (s \o t) :
              (s \o t)[i] \in Names(C) /\ (s \o t)[j] \in Names(D) => i < j
<1> DEFINE u == s \o t
<1>1. /\ s \in Seq(Names(C)) /\ t \in Seq(Names(D))
      /\ \A i, j \in DOMAIN s : s[i] = s[j] => i = j
      /\ \A i, j \in DOMAIN t : t[i] = t[j] => i = j
  BY DEF Honours
<1>2. /\ u \in Seq(Names(C) \cup Names(D))
      /\ \A x : Among(x, u) <=> Among(x, s) \/ Among(x, t)
      /\ \A i, j \in DOMAIN u : u[i] = u[j] => i = j
      /\ \A i, j \in DOMAIN u : u[i] \in Names(C) /\ u[j] \in Names(D) => i < j
  BY <1>1, Joined
<1> HIDE DEF u
<1>3. Names(C) \cup Names(D) = Names(C \cup D)
  BY DEF Names
<1>4. u \in Seq(Names(C \cup D))
  BY <1>2, <1>3
<1>5. ASSUME NEW x
      PROVE  Among(x, u) <=> \E v \in C \cup D : v[1] = x /\ v[3] \in on
  <2>1. Among(x, s) <=> \E v \in C : v[1] = x /\ v[3] \in on
    BY DEF Honours
  <2>2. Among(x, t) <=> \E v \in D : v[1] = x /\ v[3] \in on
    BY DEF Honours
  <2>3. QED
    BY <1>2, <2>1, <2>2
<1>6. Honours(u, C \cup D)
  BY <1>2, <1>4, <1>5 DEF Honours
<1>7. QED
  BY <1>2, <1>6 DEF u


\* After a module's body exec_module honours the module's claims, the Engram backend
\* before the prefetch, and installs nothing in a process without DSV41_SOURCE.
Right(m) ==
  IF "SOURCE" \in on
  THEN /\ Honours(Installs(m), Claims(m))
       /\ \A i, j \in DOMAIN Installs(m) :
            Installs(m)[i] = "engram_backend" /\ Installs(m)[j] = "engram_prefetch" => i < j
  ELSE Installs(m) = <<>>

LEMMA RightOne ==
  ASSUME NEW m, NEW h, NEW sw, Claims(m) = {<<h, m, sw>>}, "SOURCE" \in on,
         Installs(m) = Install(h, sw)
  PROVE  Right(m)
<1>1. Honours(Install(h, sw), {<<h, m, sw>>})
  BY OneInstall
<1>2. \A i \in DOMAIN Install(h, sw) : Install(h, sw)[i] = h
  BY DEF Install
<1>3. "engram_backend" # "engram_prefetch"
  OBVIOUS
<1>4. QED
  BY <1>1, <1>2, <1>3 DEF Right

LEMMA RightTwo ==
  ASSUME NEW m, NEW h1, NEW s1, NEW h2, NEW s2, h1 # h2, "SOURCE" \in on,
         Claims(m) = {<<h1, m, s1>>} \cup {<<h2, m, s2>>},
         Installs(m) = Install(h1, s1) \o Install(h2, s2),
         h2 # "engram_backend"
  PROVE  Right(m)
<1> DEFINE C == {<<h1, m, s1>>}
           D == {<<h2, m, s2>>}
           u == Install(h1, s1) \o Install(h2, s2)
<1>1. Names(C) = {h1} /\ Names(D) = {h2} /\ Names(C \cup D) = {h1, h2}
  BY DEF Names
<1>2. Names(C) \cap Names(D) = {}
  BY <1>1
<1>3. Honours(Install(h1, s1), C) /\ Honours(Install(h2, s2), D)
  BY OneInstall
<1> HIDE DEF C, D
<1>4. /\ Honours(u, C \cup D)
      /\ \A i, j \in DOMAIN u : u[i] \in Names(C) /\ u[j] \in Names(D) => i < j
  BY <1>2, <1>3, JoinedInstalls
<1> HIDE DEF u
<1>5. \A i \in DOMAIN u : u[i] \in {h1, h2}
  BY <1>1, <1>4 DEF Honours
<1>6. \A i, j \in DOMAIN u : u[i] = "engram_backend" /\ u[j] = "engram_prefetch" => i < j
  <2>1. "engram_backend" # "engram_prefetch"
    OBVIOUS
  <2>2. QED
    BY <1>1, <1>4, <1>5, <2>1
<1>7. Installs(m) = u /\ Claims(m) = C \cup D
  BY DEF C, D, u
<1>8. QED
  BY <1>4, <1>6, <1>7 DEF Right

LEMMA RightDspark == "SOURCE" \in on => Right("deepseek_v4_dspark")
<1> SUFFICES ASSUME "SOURCE" \in on PROVE Right("deepseek_v4_dspark")
  BY DEF Right, Installs
<1> DEFINE C == {<<"verify_cap.dspark", "deepseek_v4_dspark", "VERIFY_CAP_CONF">>}
           D == {<<"wo_a_w8.dspark", "deepseek_v4_dspark", "WO_A_W8">>}
           E == {<<"draft_head_fp8", "deepseek_v4_dspark", "DRAFT_HEAD_FP8">>}
           s == Install("verify_cap.dspark", "VERIFY_CAP_CONF")
           t == Install("wo_a_w8.dspark", "WO_A_W8")
           u == Install("draft_head_fp8", "DRAFT_HEAD_FP8")
<1>1. Claims("deepseek_v4_dspark") = (C \cup D) \cup E
  BY DEF Claims, Serves
<1>2. Installs("deepseek_v4_dspark") = (s \o t) \o u
  BY DEF Installs, Chain, Watched
<1>3. /\ Names(C) = {"verify_cap.dspark"} /\ Names(D) = {"wo_a_w8.dspark"}
      /\ Names(E) = {"draft_head_fp8"}
      /\ Names(C \cup D) = {"verify_cap.dspark", "wo_a_w8.dspark"}
      /\ "engram_backend" \notin Names((C \cup D) \cup E)
  BY DEF Names
<1>4. Names(C) \cap Names(D) = {} /\ Names(C \cup D) \cap Names(E) = {}
  BY <1>3
<1>5. Honours(s, C) /\ Honours(t, D) /\ Honours(u, E)
  BY OneInstall
<1> HIDE DEF C, D, E, s, t, u
<1>6. Honours(s \o t, C \cup D)
  BY <1>4, <1>5, JoinedInstalls
<1>7. Honours((s \o t) \o u, (C \cup D) \cup E)
  BY <1>4, <1>5, <1>6, JoinedInstalls
<1>8. Honours(Installs("deepseek_v4_dspark"), Claims("deepseek_v4_dspark"))
  BY <1>1, <1>2, <1>7
<1>9. \A i \in DOMAIN Installs("deepseek_v4_dspark") :
        Installs("deepseek_v4_dspark")[i] # "engram_backend"
  <2> DEFINE N == Names((C \cup D) \cup E)
             I == Installs("deepseek_v4_dspark")
  <2>1. I \in Seq(N) /\ "engram_backend" \notin N
    BY <1>1, <1>3, <1>8 DEF Honours
  <2> HIDE DEF N, I
  <2>2. \A i \in DOMAIN I : I[i] # "engram_backend"
    BY <2>1
  <2>3. QED
    BY <2>2 DEF I
<1>10. QED
  BY <1>8, <1>9 DEF Right

LEMMA InstallsRight == \A m \in EngineModules : Right(m)
<1> SUFFICES ASSUME NEW m \in EngineModules PROVE Right(m)
  OBVIOUS
<1>0. CASE "SOURCE" \notin on
  BY <1>0 DEF Right, Installs
<1>1. CASE m = "engram" /\ "SOURCE" \in on
  <2>1. Claims(m) = {<<"engram_backend", m, "SOURCE">>}
                  \cup {<<"engram_prefetch", m, "ENGRAM_PREFETCH">>}
    BY <1>1 DEF Claims, Serves
  <2>2. Installs(m) = Install("engram_backend", "SOURCE")
                    \o Install("engram_prefetch", "ENGRAM_PREFETCH")
    BY <1>1 DEF Installs, Chain, Watched
  <2>3. QED
    BY <1>1, <2>1, <2>2, RightTwo
<1>2. CASE m = "fp8_utils" /\ "SOURCE" \in on
  <2>1. Claims(m) = {<<"mxfp8_b12x", m, "MXFP8_BACKEND">>}
    BY <1>2 DEF Claims, Serves
  <2>2. Installs(m) = Install("mxfp8_b12x", "MXFP8_BACKEND")
    BY <1>2 DEF Installs, Chain, Watched
  <2>3. QED
    BY <1>2, <2>1, <2>2, RightOne
<1>3. CASE m = "fp8" /\ "SOURCE" \in on
  <2>1. Claims(m) = {<<"mxfp8_b12x.fp8", m, "MXFP8_BACKEND">>}
    BY <1>3 DEF Claims, Serves
  <2>2. Installs(m) = Install("mxfp8_b12x.fp8", "MXFP8_BACKEND")
    BY <1>3 DEF Installs, Chain, Watched
  <2>3. QED
    BY <1>3, <2>1, <2>2, RightOne
<1>4. CASE m = "model_runner" /\ "SOURCE" \in on
  <2>1. Claims(m) = {<<"prefill_empty_cache", m, "PREFILL_EMPTY_CACHE">>}
    BY <1>4 DEF Claims, Serves
  <2>2. Installs(m) = Install("prefill_empty_cache", "PREFILL_EMPTY_CACHE")
    BY <1>4 DEF Installs, Chain, Watched
  <2>3. QED
    BY <1>4, <2>1, <2>2, RightOne
<1>5. CASE m = "encoding_dsv41" /\ "SOURCE" \in on
  <2>1. Claims(m) = {<<"encoding_compat.encoder", m, "SOURCE">>}
    BY <1>5 DEF Claims, Serves
  <2>2. Installs(m) = Install("encoding_compat.encoder", "SOURCE")
    BY <1>5 DEF Installs, Chain, Watched
  <2>3. QED
    BY <1>5, <2>1, <2>2, RightOne
<1>6. CASE m = "serving_chat" /\ "SOURCE" \in on
  <2>1. Claims(m) = {<<"encoding_compat.chat", m, "SOURCE">>}
    BY <1>6 DEF Claims, Serves
  <2>2. Installs(m) = Install("encoding_compat.chat", "SOURCE")
    BY <1>6 DEF Installs, Chain, Watched
  <2>3. QED
    BY <1>6, <2>1, <2>2, RightOne
<1>7. CASE m = "schedule_batch" /\ "SOURCE" \in on
  <2>1. Claims(m) = {<<"loop_abort", m, "LOOP_ABORT">>}
    BY <1>7 DEF Claims, Serves
  <2>2. Installs(m) = Install("loop_abort", "LOOP_ABORT")
    BY <1>7 DEF Installs, Chain, Watched
  <2>3. QED
    BY <1>7, <2>1, <2>2, RightOne
<1>8. CASE m = "flashinfer_autotune" /\ "SOURCE" \in on
  <2>1. Claims(m) = {<<"autotune_keep", m, "AUTOTUNE_KEEP">>}
    BY <1>8 DEF Claims, Serves
  <2>2. Installs(m) = Install("autotune_keep", "AUTOTUNE_KEEP")
    BY <1>8 DEF Installs, Chain, Watched
  <2>3. QED
    BY <1>8, <2>1, <2>2, RightOne
<1>9. CASE m = "deepseek_v4" /\ "SOURCE" \in on
  <2>1. Claims(m) = {<<"wo_a_w8.model", m, "WO_A_W8">>}
                  \cup {<<"verify_cap.model", m, "VERIFY_CAP">>}
    BY <1>9 DEF Claims, Serves
  <2>2. Installs(m) = Install("wo_a_w8.model", "WO_A_W8")
                    \o Install("verify_cap.model", "VERIFY_CAP")
    BY <1>9 DEF Installs, Chain, Watched
  <2>3. QED
    BY <1>9, <2>1, <2>2, RightTwo
<1>10. CASE m = "deepseek_v4_dspark" /\ "SOURCE" \in on
  BY <1>10, RightDspark
<1>11. CASE m = "dspark_draft_sampler" /\ "SOURCE" \in on
  <2>1. Claims(m) = {<<"draft_tau", m, "DRAFT_TAU">>}
    BY <1>11 DEF Claims, Serves
  <2>2. Installs(m) = Install("draft_tau", "DRAFT_TAU")
    BY <1>11 DEF Installs, Chain, Watched
  <2>3. QED
    BY <1>11, <2>1, <2>2, RightOne
<1>12. CASE m = "dspark_accept" /\ "SOURCE" \in on
  <2>1. Claims(m) = {<<"block_verify", m, "BLOCK_VERIFY">>}
    BY <1>12 DEF Claims, Serves
  <2>2. Installs(m) = Install("block_verify", "BLOCK_VERIFY")
    BY <1>12 DEF Installs, Chain, Watched
  <2>3. QED
    BY <1>12, <2>1, <2>2, RightOne
<1>13. CASE m = "dspark_verify" /\ "SOURCE" \in on
  <2>1. Claims(m) = {<<"folded_result_fence", m, "FOLDED_FENCE">>}
                  \cup {<<"verify_cap.verify", m, "VERIFY_CAP">>}
    BY <1>13 DEF Claims, Serves
  <2>2. Installs(m) = Install("folded_result_fence", "FOLDED_FENCE")
                    \o Install("verify_cap.verify", "VERIFY_CAP")
    BY <1>13 DEF Installs, Chain, Watched
  <2>3. QED
    BY <1>13, <2>1, <2>2, RightTwo
<1>14. CASE m = "moe_fused_gate" /\ "SOURCE" \in on
  <2>1. Claims(m) = {<<"verify_cap.gate", m, "VERIFY_CAP">>}
    BY <1>14 DEF Claims, Serves
  <2>2. Installs(m) = Install("verify_cap.gate", "VERIFY_CAP")
    BY <1>14 DEF Installs, Chain, Watched
  <2>3. QED
    BY <1>14, <2>1, <2>2, RightOne
<1>15. CASE m = "dspark_draft" /\ "SOURCE" \in on
  <2>1. Claims(m) = {<<"verify_cap.draft", m, "VERIFY_CAP_CONF">>}
    BY <1>15 DEF Claims, Serves
  <2>2. Installs(m) = Install("verify_cap.draft", "VERIFY_CAP_CONF")
    BY <1>15 DEF Installs, Chain, Watched
  <2>3. QED
    BY <1>15, <2>1, <2>2, RightOne
<1>16. CASE m = "dspark_planner" /\ "SOURCE" \in on
  <2>1. Claims(m) = {<<"verify_cap.planner", m, "VERIFY_CAP_CONF">>}
    BY <1>16 DEF Claims, Serves
  <2>2. Installs(m) = Install("verify_cap.planner", "VERIFY_CAP_CONF")
    BY <1>16 DEF Installs, Chain, Watched
  <2>3. QED
    BY <1>16, <2>1, <2>2, RightOne
<1>17. CASE m = "dsv4_metadata" /\ "SOURCE" \in on
  <2>1. Claims(m) = {<<"indexer_metadata", m, "SOURCE">>}
    BY <1>17 DEF Claims, Serves
  <2>2. Installs(m) = Install("indexer_metadata", "SOURCE")
    BY <1>17 DEF Installs, Chain, Install, Watched
  <2>3. QED
    BY <1>17, <2>1, <2>2, RightOne
<1>18. CASE m = "deepseek_v4_backend" /\ "SOURCE" \in on
  <2>1. Claims(m) = {}
    BY <1>18 DEF Claims, Serves
  <2>2. Installs(m) = <<>>
    BY <1>18 DEF Installs, Watched
  <2>3. Honours(<<>>, {})
    <3>1. \A x : ~Among(x, <<>>)
      BY DEF Among
    <3>2. <<>> \in Seq(Names({}))
      OBVIOUS
    <3>3. QED
      BY <3>1, <3>2 DEF Honours
  <2>4. QED
    BY <1>18, <2>1, <2>2, <2>3 DEF Right
<1>19. QED
  BY <1>0, <1>1, <1>2, <1>3, <1>4, <1>5, <1>6, <1>7, <1>8, <1>9,
     <1>10, <1>11, <1>12, <1>13, <1>14, <1>15, <1>16, <1>17, <1>18
  DEF EngineModules, Chain

-----------------------------------------------------------------------------
(* The installs of a process.                                              *)

\* A module whose body runs is not loaded, and runs once.
RunningInv ==
  \/ running = <<>>
  \/ \E m : running = <<m>> /\ m \notin loaded
  \/ /\ running = <<"deepseek_v4_dspark", "deepseek_v4">>
     /\ "deepseek_v4_dspark" \notin loaded /\ "deepseek_v4" \notin loaded

HookInv ==
  /\ installed \in Seq(Names(Serves))
  /\ RunningInv
  /\ HooksInPlace

\* The body of a module asks for what it needs.
LEMMA AskKeeps ==
  ASSUME HookInv, Ask \/ AskNested
  PROVE  HookInv'
<1>1. UNCHANGED <<on, loaded, installed>>
  BY DEF Ask, AskNested
<1>2. RunningInv'
  <2>1. CASE Ask
    BY <1>1, <2>1 DEF Ask, RunningInv
  <2>2. CASE AskNested
    <3>1. PICK m \in Needs(Top) \ loaded : running' = Append(running, m)
      BY <2>2 DEF AskNested
    <3>2. Top = "deepseek_v4_dspark" /\ m = "deepseek_v4" /\ m \notin loaded
      BY <3>1 DEF Needs
    <3>3. running # <<>>
      BY <2>2 DEF AskNested
    <3>4. "deepseek_v4" # "deepseek_v4_dspark"
      OBVIOUS
    <3>5. PICK l : running = <<l>> /\ l \notin loaded
      <4>1. running # <<"deepseek_v4_dspark", "deepseek_v4">>
        BY <3>2, <3>4 DEF Top
      <4>2. QED
        BY <3>3, <4>1 DEF HookInv, RunningInv
    <3>6. l = "deepseek_v4_dspark"
      BY <3>2, <3>5 DEF Top
    <3>7. running' = <<"deepseek_v4_dspark", "deepseek_v4">>
      <4>1. running' = Append(<<"deepseek_v4_dspark">>, "deepseek_v4")
        BY <3>1, <3>2, <3>5, <3>6
      <4>2. QED
        BY <4>1, Nested
    <3>8. QED
      BY <1>1, <3>2, <3>5, <3>6, <3>7 DEF RunningInv
  <2>3. QED
    BY <2>1, <2>2
<1>3. HooksInPlace' /\ installed' \in Seq(Names(Serves))
  BY <1>1 DEF HookInv, HooksInPlace, Installed, Due
<1>4. QED
  BY <1>2, <1>3 DEF HookInv

\* What is installed after an import is what was, and what the module is due.
LEMMA FinishKeeps ==
  ASSUME HookInv, NEW m \in EngineModules, Finish(m)
  PROVE  HookInv'
<1> DEFINE new == Installs(m)
<1>1. /\ UNCHANGED on
      /\ m = Top /\ running # <<>> /\ running' = Front(running)
      /\ loaded' = loaded \cup {m}
      /\ installed' = installed \o new
  BY DEF Finish
<1>2. m \notin loaded /\ RunningInv'
  <2>1. CASE \E l : running = <<l>> /\ l \notin loaded
    <3>1. PICK l : running = <<l>> /\ l \notin loaded
      BY <2>1
    <3>2. Front(running) = <<>>
      BY <3>1 DEF Front
    <3>3. QED
      BY <1>1, <3>1, <3>2 DEF Top, RunningInv
  <2>2. CASE /\ running = <<"deepseek_v4_dspark", "deepseek_v4">>
             /\ "deepseek_v4_dspark" \notin loaded /\ "deepseek_v4" \notin loaded
    <3>1. Front(running) = <<"deepseek_v4_dspark">>
      BY <2>2, Nested
    <3>2. m = "deepseek_v4" /\ "deepseek_v4" # "deepseek_v4_dspark"
      BY <1>1, <2>2 DEF Top
    <3>3. QED
      BY <1>1, <2>2, <3>1, <3>2 DEF RunningInv
  <2>3. QED
    BY <1>1, <2>1, <2>2 DEF HookInv, RunningInv
<1>3. Right(m)
  BY InstallsRight
<1>4. /\ new \in Seq(Names(Serves))
      /\ \A i, j \in DOMAIN new : new[i] = new[j] => i = j
      /\ \A i, j \in DOMAIN new :
           new[i] = "engram_backend" /\ new[j] = "engram_prefetch" => i < j
      /\ \A x : Among(x, new)
                  <=> "SOURCE" \in on /\ \E v \in Claims(m) : v[1] = x /\ v[3] \in on
  <2>1. CASE "SOURCE" \in on
    <3>1. Names(Claims(m)) \subseteq Names(Serves)
      BY DEF Names, Claims
    <3>2. new \in Seq(Names(Claims(m)))
      BY <1>3, <2>1 DEF Right, Honours
    <3>3. new \in Seq(Names(Serves))
      BY <3>1, <3>2, SeqMonotonic
    <3>4. QED
      BY <1>3, <2>1, <3>3 DEF Right, Honours
  <2>2. CASE "SOURCE" \notin on
    BY <1>3, <2>2 DEF Right, Among
  <2>3. QED
    BY <2>1, <2>2
<1> HIDE DEF new
<1>5. installed \in Seq(Names(Serves)) /\ HooksInPlace
  BY DEF HookInv
<1>6. /\ installed' \in Seq(Names(Serves))
      /\ Len(installed') = Len(installed) + Len(new)
      /\ \A i \in 1 .. Len(installed') :
           installed'[i] = IF i <= Len(installed) THEN installed[i] ELSE new[i - Len(installed)]
      /\ DOMAIN installed = 1 .. Len(installed) /\ DOMAIN new = 1 .. Len(new)
      /\ DOMAIN installed' = 1 .. Len(installed')
      /\ Len(installed) \in Nat /\ Len(new) \in Nat
  BY <1>1, <1>4, <1>5
<1>7. \A i \in 1 .. Len(installed') :
        \/ i \in 1 .. Len(installed) /\ installed'[i] = installed[i]
        \/ ~(i <= Len(installed)) /\ i - Len(installed) \in 1 .. Len(new)
           /\ installed'[i] = new[i - Len(installed)]
  BY <1>6
\* An adapter of m was not there.
<1>8. ASSUME NEW i \in 1 .. Len(installed), NEW v \in Claims(m)
      PROVE  installed[i] # v[1]
  <2>1. SUFFICES ASSUME installed[i] = v[1] PROVE FALSE
    OBVIOUS
  <2>2. v \in Serves /\ v[1] # "indexer_chunked" /\ v[2] = m
    BY DEF Claims
  <2>3. Installed(v[1])
    BY <1>6, <2>1 DEF Installed
  <2>4. v \in Due
    BY <1>5, <2>2, <2>3 DEF HooksInPlace
  <2>5. QED
    BY <1>2, <2>2, <2>4 DEF Due
<1>9. ASSUME NEW j \in 1 .. Len(new)
      PROVE  \E v \in Claims(m) : v[1] = new[j]
  <2>1. Among(new[j], new)
    BY <1>6 DEF Among
  <2>2. QED
    BY <1>4, <2>1
<1>10. ASSUME NEW s \in Serves, s[1] # "indexer_chunked"
       PROVE  Installed(s[1])' <=> s \in Due'
  <2>1. Installed(s[1])' <=> Installed(s[1]) \/ Among(s[1], new)
    <3>1. ASSUME NEW i \in 1 .. Len(installed), installed[i] = s[1] PROVE Installed(s[1])'
      <4>1. i \in 1 .. Len(installed') /\ i <= Len(installed)
        BY <1>6
      <4>2. installed'[i] = s[1]
        BY <1>6, <3>1, <4>1
      <4>3. QED
        BY <1>6, <4>1, <4>2 DEF Installed
    <3>2. ASSUME NEW j \in 1 .. Len(new), new[j] = s[1] PROVE Installed(s[1])'
      <4>1. /\ j + Len(installed) \in 1 .. Len(installed')
            /\ ~(j + Len(installed) <= Len(installed))
            /\ (j + Len(installed)) - Len(installed) = j
        BY <1>6
      <4>2. installed'[j + Len(installed)] = s[1]
        BY <1>6, <3>2, <4>1
      <4>3. QED
        BY <1>6, <4>1, <4>2 DEF Installed
    <3>3. ASSUME Installed(s[1])' PROVE Installed(s[1]) \/ Among(s[1], new)
      <4>1. PICK i \in 1 .. Len(installed') : installed'[i] = s[1]
        BY <1>6, <3>3 DEF Installed
      <4>2. QED
        BY <1>6, <1>7, <4>1 DEF Installed, Among
    <3>4. QED
      BY <1>6, <3>1, <3>2, <3>3 DEF Installed, Among
  <2>2. Installed(s[1]) <=> s \in Due
    BY <1>5, <1>10 DEF HooksInPlace
  <2>3. Among(s[1], new) <=> s[2] = m /\ "SOURCE" \in on /\ s[3] \in on
    <3>1. ASSUME NEW v \in Claims(m), v[1] = s[1] PROVE v = s
      BY <3>1, <1>10 DEF Claims, Serves
    <3>2. s[2] = m <=> s \in Claims(m)
      BY <1>10 DEF Claims
    <3>3. QED
      BY <1>4, <3>1, <3>2
  <2>4. s \in Due' <=> s \in Due \/ (s[2] = m /\ "SOURCE" \in on /\ s[3] \in on)
    BY <1>1 DEF Due
  <2>5. QED
    BY <2>1, <2>2, <2>3, <2>4
<1>11. \A i, j \in DOMAIN installed' : installed'[i] = installed'[j] => i = j
  <2> SUFFICES ASSUME NEW i \in 1 .. Len(installed'), NEW j \in 1 .. Len(installed'),
                      installed'[i] = installed'[j]
               PROVE  i = j
    BY <1>6
  <2>1. CASE i \in 1 .. Len(installed) /\ j \in 1 .. Len(installed)
    BY <1>5, <1>6, <2>1 DEF HooksInPlace
  <2>2. CASE ~(i <= Len(installed)) /\ ~(j <= Len(installed))
    <3>1. i - Len(installed) = j - Len(installed)
      BY <1>4, <1>6, <1>7, <2>2
    <3>2. QED
      BY <1>6, <3>1
  <2>3. CASE i \in 1 .. Len(installed) /\ ~(j <= Len(installed))
    <3>1. j - Len(installed) \in 1 .. Len(new) /\ installed'[j] = new[j - Len(installed)]
      BY <1>6, <1>7, <2>3
    <3>2. PICK v \in Claims(m) : v[1] = installed'[j]
      BY <1>9, <3>1
    <3>3. installed'[i] = installed[i]
      BY <1>6, <2>3
    <3>4. QED
      BY <1>8, <2>3, <3>2, <3>3
  <2>4. CASE j \in 1 .. Len(installed) /\ ~(i <= Len(installed))
    BY <1>6, <1>7, <1>8, <1>9, <2>4
  <2>5. QED
    BY <1>6, <2>1, <2>2, <2>3, <2>4
<1>12. \A i, j \in DOMAIN installed' :
         installed'[i] = "engram_backend" /\ installed'[j] = "engram_prefetch" => i < j
  <2> SUFFICES ASSUME NEW i \in 1 .. Len(installed'), NEW j \in 1 .. Len(installed'),
                      installed'[i] = "engram_backend", installed'[j] = "engram_prefetch"
               PROVE  i < j
    BY <1>6
  <2>1. CASE i \in 1 .. Len(installed) /\ j \in 1 .. Len(installed)
    BY <1>5, <1>6, <2>1 DEF HooksInPlace
  <2>2. CASE ~(i <= Len(installed)) /\ ~(j <= Len(installed))
    <3>1. i - Len(installed) < j - Len(installed)
      BY <1>4, <1>6, <1>7, <2>2
    <3>2. QED
      BY <1>6, <3>1
  <2>3. CASE i \in 1 .. Len(installed) /\ ~(j <= Len(installed))
    BY <1>6, <2>3
  <2>4. CASE j \in 1 .. Len(installed) /\ ~(i <= Len(installed))
    <3>1. new[i - Len(installed)] = "engram_backend" /\ i - Len(installed) \in 1 .. Len(new)
      BY <1>6, <1>7, <2>4
    <3>2. PICK v \in Claims(m) : v[1] = "engram_backend"
      BY <1>9, <3>1
    <3>3. m = "engram"
      BY <3>2 DEF Claims, Serves
    <3>4. <<"engram_prefetch", "engram", "ENGRAM_PREFETCH">> \in Claims(m)
      BY <3>3 DEF Claims, Serves
    <3>5. installed[j] = "engram_prefetch"
      BY <1>6, <2>4
    <3>6. QED
      BY <1>8, <2>4, <3>4, <3>5
  <2>5. QED
    BY <1>6, <2>1, <2>2, <2>3, <2>4
<1>13. HooksInPlace'
  BY <1>10, <1>11, <1>12 DEF HooksInPlace
<1>14. QED
  BY <1>2, <1>6, <1>13 DEF HookInv

\* Whatever the switches and the order of imports, each adapter but the chunked
\* indexer's is installed once when its module is imported and its switch is on,
\* never otherwise, and the prefetch after the Engram backend.
THEOREM HooksInPlaceHolds == Spec => []HooksInPlace
<1>1. Init => HookInv
  BY DEF Init, HooksInit, HookInv, RunningInv, HooksInPlace, Installed, Due
<1>2. HookInv /\ [Next]_vars => HookInv'
  <2> SUFFICES ASSUME HookInv, [Next]_vars PROVE HookInv'
    OBVIOUS
  <2>1. CASE UNCHANGED hookVars
    BY <2>1 DEF hookVars, HookInv, RunningInv, HooksInPlace, Installed, Due
  <2>2. CASE Ask \/ AskNested
    BY <2>2, AskKeeps
  <2>3. CASE \E m \in EngineModules : Import(m)
    BY <2>3, FinishKeeps DEF Import
  <2>4. CASE \/ \E model \in Models : Load(model)
             \/ \E w \in Weights : Drop(w)
             \/ \E model \in Models, mode \in Modes : Enter(model, mode)
             \/ \E w \in Weights, rows \in Rows, std \in BOOLEAN : Call(w, rows, std)
             \/ Leave
             \/ UNCHANGED vars
    <3>1. UNCHANGED hookVars
      BY <2>4 DEF Load, Drop, Enter, Call, Leave, vars
    <3>2. QED
      BY <2>1, <3>1
  <2>5. QED
    BY <2>2, <2>3, <2>4 DEF Next
<1>3. HookInv => HooksInPlace
  BY DEF HookInv
<1>4. QED
  BY <1>1, <1>2, <1>3, PTL DEF Spec

-----------------------------------------------------------------------------
(* Where weights, tags and twins are.                                      *)

Typed ==
  /\ engine \in {"kernels", "einsum"} /\ bridge \in BOOLEAN /\ routed \in BOOLEAN
  /\ loading \in [Models -> {"plain", "build", "drop"}]
  /\ at \in [Weights -> Addr \cup {None}]
  /\ twins \in [Addr -> Weights \cup {None}]
  /\ spec \in BOOLEAN /\ dropped \in SUBSET Addr /\ dropping \in SUBSET Weights

\* No two weights share a storage; a weight that is to be dropped has its twin.
Placed ==
  /\ \A v, w \in Weights : at[v] \in Addr /\ at[v] = at[w] => v = w
  /\ KeysLive
  /\ \A w \in dropping : at[w] \in Addr \ dropped /\ twins[at[w]] = w

\* Every product by a weight goes through a dispatch that knows tags.
Dispatched(w) ==
  /\ Enabled("WO_A_W8_DROP") /\ Armed
  /\ engine = "einsum" => w \in TargetWeights

\* The installs agree with the switches and with each other; a freed weight is
\* dispatched.
Routes ==
  /\ loading["target"] = "drop" => Enabled("WO_A_W8_DROP")
  /\ loading["draft"] = "drop" => Enabled("WO_A_W8_DROP") /\ Armed /\ engine = "kernels"
  /\ bridge <=> Armed /\ engine = "einsum"
  /\ "deepseek_v4" \in loaded /\ "SOURCE" \in on /\ "WO_A_W8" \in on => Armed
  /\ \A w \in Weights : w \in dropping \/ at[w] \in dropped => Dispatched(w)

\* A forward pass has its weights, and says so when it is speculative.
Speculation ==
  /\ forward = None => last = None /\ spec = FALSE
  /\ forward # None =>
       /\ forward.prev = FALSE /\ dropping = {}
       /\ \A w \in WeightsOf(forward.model) : at[w] # None
       /\ forward.mode = "prefill" => ~spec

TwinInv == Typed /\ Placed /\ Routes /\ Speculation /\ OwnWeight /\ PrefillStock

-----------------------------------------------------------------------------
(* What a product is computed from.                                        *)

\* The twin found at the address of a weight is its own, and a freed weight has one;
\* nothing is found at a free address.
LEMMA TwinFound ==
  ASSUME TwinInv, NEW w \in Weights, at[w] # None
  PROVE  /\ at[w] \in Addr /\ twins[at[w]] \in {w, None}
         /\ at[w] \in dropped => twins[at[w]] = w
         /\ \A s \in Free : s \in Addr /\ twins[s] = None
<1>1. at[w] \in Addr
  BY DEF TwinInv, Typed
<1>2. ASSUME NEW a \in Addr, twins[a] # None PROVE twins[a] \in Weights /\ at[twins[a]] = a
  BY <1>2 DEF TwinInv, Typed, Placed, KeysLive
<1>3. twins[at[w]] \in {w, None}
  BY <1>1, <1>2 DEF TwinInv, Placed
<1>4. QED
  BY <1>1, <1>2, <1>3 DEF TwinInv, Placed, KeysLive, Free

\* The engine's product of a tensor that has no twin, or whose twin is of the same
\* weight, is of the weight whose bytes it holds; the engine itself computes it when
\* the rows are not few.
LEMMA OrigBytes ==
  ASSUME NEW w \in Weights, NEW t, t.bytes = w, twins[t.ptr] \in {w, None}, NEW rows \in Rows
  PROVE  /\ Orig(t, rows).bytes = w
         /\ rows # "few" => Orig(t, rows).by = "engine"
  BY DEF Orig, Small, Stock, TwinOf

\* A product is of its own weight's bytes, and of the engine in a long prefill.
LEMMA ProductRight ==
  ASSUME TwinInv, WeightsAssumption, forward # None,
         NEW w \in WeightsOf(forward.model), w \in Weights,
         NEW rows \in Rows, NEW std \in BOOLEAN, NEW s \in Free
  PROVE  /\ Product(w, rows, std, s).bytes = w
         /\ forward.model = "target" /\ forward.mode = "prefill" /\ rows \in {"mid", "many"}
              => Product(w, rows, std, s).by = "engine"
<1> DEFINE t == WeightTensor(w)
           whole == at[w] \notin dropped
<1>1. /\ at[w] # None /\ at[w] \in Addr /\ twins[at[w]] \in {w, None}
      /\ at[w] \in dropped => twins[at[w]] = w
      /\ twins[s] = None /\ w # None
  BY TwinFound, WeightsAssumption DEF TwinInv, Speculation, Weights
<1>2. t.ptr = at[w] /\ (whole => t.bytes = w)
  BY DEF WeightTensor
<1>3. Scratch(w, s).ptr = s /\ Scratch(w, s).bytes = w
  BY DEF Scratch
<1>4. whole => Orig(t, rows).bytes = w /\ (rows # "few" => Orig(t, rows).by = "engine")
  BY <1>1, <1>2, OrigBytes
<1>5. Orig(Scratch(w, s), rows).bytes = w
        /\ (rows # "few" => Orig(Scratch(w, s), rows).by = "engine")
  BY <1>1, <1>3, OrigBytes
<1>6. TwinOf(w).bytes = w
  BY DEF TwinOf
<1>7. ~whole => Dispatched(w)
  BY DEF TwinInv, Routes
<1>8. engine \in {"kernels", "einsum"} /\ (bridge <=> Armed /\ engine = "einsum")
  BY DEF TwinInv, Typed, Routes
<1>9. forward.mode = "prefill" => ~spec
  BY DEF TwinInv, Speculation
<1> HIDE DEF t
<1>10. CASE engine = "kernels"
  <2>1. /\ ApplyMid(t, rows, std, forward.mode = "verify", s).bytes = w
        /\ rows \in {"mid", "many"} /\ forward.mode # "verify"
             => ApplyMid(t, rows, std, forward.mode = "verify", s).by = "engine"
    BY <1>1, <1>2, <1>4, <1>5, <1>6 DEF ApplyMid
  <2>2. whole \/ (Armed /\ Enabled("WO_A_W8_DROP"))
    BY <1>7 DEF Dispatched
  <2>3. QED
    BY <1>4, <1>10, <2>1, <2>2 DEF Product, t
<1>11. CASE engine = "einsum" /\ forward.model = "draft"
  <2>1. w \in DraftWeights /\ w \notin TargetWeights
    BY <1>11, WeightsAssumption DEF WeightsOf
  <2>2. whole
    BY <1>7, <1>11, <2>1 DEF Dispatched
  <2>3. DraftEinsum(t, rows, std).bytes = w
    BY <1>1, <1>2, <1>6, <2>2 DEF DraftEinsum, Stock
  <2>4. QED
    BY <1>11, <2>3 DEF Product, t
<1>12. CASE engine = "einsum" /\ forward.model # "draft"
  <2>1. /\ ApplyBridge(t, rows, std, s).bytes = w
        /\ rows \in {"mid", "many"} /\ ~spec => ApplyBridge(t, rows, std, s).by = "engine"
    <3>1. CASE whole
      BY <1>1, <1>2, <1>4, <1>6, <3>1 DEF ApplyBridge
    <3>2. CASE ~whole
      BY <1>1, <1>2, <1>5, <1>6, <3>2 DEF ApplyBridge
    <3>3. QED
      BY <3>1, <3>2
  <2>2. whole \/ bridge
    BY <1>7, <1>8, <1>12 DEF Dispatched
  <2>3. QED
    BY <1>4, <1>9, <1>12, <2>1, <2>2 DEF Product, t
<1>13. QED
  BY <1>8, <1>10, <1>11, <1>12

-----------------------------------------------------------------------------
(* The invariant is inductive.                                             *)

LEMMA TwinInit == Init => TwinInv
<1> SUFFICES ASSUME Init PROVE TwinInv
  OBVIOUS
<1>1. Typed
  BY DEF Init, Typed
<1>2. Placed
  BY WeightsAssumption DEF Init, Placed, KeysLive
<1>3. Routes
  <2>1. loading["target"] = "plain" /\ loading["draft"] = "plain" /\ ~bridge
    BY DEF Init, Models
  <2>2. loaded = {} /\ dropped = {} /\ dropping = {}
    BY DEF Init, HooksInit
  <2>3. QED
    BY <2>1, <2>2 DEF Routes, Armed
<1>4. Speculation /\ OwnWeight /\ PrefillStock
  BY DEF Init, Speculation, OwnWeight, PrefillStock
<1>5. QED
  BY <1>1, <1>2, <1>3, <1>4 DEF TwinInv

\* The installs keep to the switches; the target's come before the draft's.
LEMMA ImportStep ==
  ASSUME TwinInv, NEW m \in EngineModules, Import(m)
  PROVE  TwinInv'
<1> USE DEF Models
<1>1. /\ UNCHANGED <<on, engine, at, twins, dropped, dropping, forward, spec, last>>
      /\ loaded' = loaded \cup {m} /\ Needs(m) \subseteq loaded
  BY DEF Import, Finish
<1>a. \A h : Runs(m, h) <=> "SOURCE" \in on /\ \E v \in Claims(m) : v[1] = h /\ v[3] \in on
  BY InstallsRight DEF Right, Honours, Runs, Among
<1>2. ASSUME Runs(m, "wo_a_w8.model")
      PROVE  m = "deepseek_v4"
  BY <1>2, <1>a DEF Claims, Serves
<1>3. ASSUME Runs(m, "wo_a_w8.dspark")
      PROVE  m = "deepseek_v4_dspark" /\ "SOURCE" \in on /\ "WO_A_W8" \in on
  BY <1>3, <1>a DEF Claims, Serves
<1>4. ASSUME m = "deepseek_v4", "SOURCE" \in on, "WO_A_W8" \in on
      PROVE  Runs(m, "wo_a_w8.model")
  <2>1. <<"wo_a_w8.model", "deepseek_v4", "WO_A_W8">> \in Claims(m)
    BY <1>4 DEF Claims, Serves
  <2>2. QED
    BY <1>4, <1>a, <2>1
<1>5. CASE Runs(m, "wo_a_w8.model") /\ InstallModel
  <2>1. /\ bridge' = (engine = "einsum") /\ UNCHANGED routed
        /\ loading' = [loading EXCEPT !["target"] = IF Enabled("WO_A_W8_DROP")
                                                    THEN "drop" ELSE "build"]
    BY <1>5 DEF InstallModel, WrapLoad
  <2>2. Typed' /\ Armed' /\ loading'["draft"] = loading["draft"]
    BY <1>1, <2>1 DEF TwinInv, Typed, Armed
  <2>3. loading'["target"] = "drop" => Enabled("WO_A_W8_DROP")
    BY <2>1 DEF TwinInv, Typed
  <2>4. Routes'
    BY <1>1, <2>1, <2>2, <2>3 DEF TwinInv, Routes, Dispatched, Enabled
  <2>5. QED
    BY <1>1, <2>2, <2>4 DEF TwinInv, Placed, KeysLive, Speculation, OwnWeight, PrefillStock, WeightsOf
<1>6. CASE Runs(m, "wo_a_w8.dspark") /\ InstallDspark
  <2>1. Armed /\ m = "deepseek_v4_dspark"
    BY <1>1, <1>3, <1>6 DEF TwinInv, Routes, Needs
  <2>2. /\ UNCHANGED bridge
        /\ \/ /\ ~bridge
              /\ loading' = [loading EXCEPT !["draft"] = IF Enabled("WO_A_W8_DROP")
                                                         THEN "drop" ELSE "build"]
           \/ loading' = [loading EXCEPT !["draft"] = "build"]
           \/ UNCHANGED loading
    BY <1>6 DEF InstallDspark, WrapLoad
  <2>9. routed' \in BOOLEAN
    <3>1. routed' = routed \/ routed' = Enabled("WO_A_W8_DRAFT")
      BY <1>6 DEF InstallDspark
    <3>2. routed \in BOOLEAN
      BY DEF TwinInv, Typed
    <3>3. Enabled("WO_A_W8_DRAFT") \in BOOLEAN
      BY DEF Enabled
    <3>4. QED
      BY <3>1, <3>2, <3>3, Zenon
  <2>3. Typed' /\ loading'["target"] = loading["target"]
    BY <1>1, <2>2, <2>9 DEF TwinInv, Typed
  <2>4. Armed' = Armed
    BY <2>3 DEF Armed
  <2>5. engine = "einsum" => bridge
    BY <2>1 DEF TwinInv, Routes
  <2>6. loading'["draft"] = "drop" => Enabled("WO_A_W8_DROP") /\ engine = "kernels"
    BY <2>2, <2>5 DEF TwinInv, Typed, Routes
  <2>7. Routes'
    BY <1>1, <2>1, <2>2, <2>3, <2>4, <2>6 DEF TwinInv, Routes, Dispatched, Enabled
  <2>8. QED
    BY <1>1, <2>3, <2>7 DEF TwinInv, Placed, KeysLive, Speculation, OwnWeight, PrefillStock, WeightsOf
<1>7. CASE ~Runs(m, "wo_a_w8.model") /\ UNCHANGED <<bridge, loading, routed>>
  <2>1. Routes'
    BY <1>1, <1>4, <1>7 DEF TwinInv, Routes, Dispatched, Enabled, Armed
  <2>2. QED
    BY <1>1, <1>7, <2>1
       DEF TwinInv, Typed, Placed, KeysLive, Speculation, OwnWeight, PrefillStock, WeightsOf
<1>8. QED
  BY <1>5, <1>6, <1>7 DEF Import

\* A load places its weights at free addresses, its twins with them.
LEMMA LoadStep ==
  ASSUME TwinInv, WeightsAssumption, NEW model \in Models, Load(model)
  PROVE  TwinInv'
<1> DEFINE W == WeightsOf(model)
<1>1. PICK f \in [W -> Free], exact \in SUBSET W :
        /\ \A v, w \in W : f[v] = f[w] => v = w
        /\ at' = [w \in Weights |-> IF w \in W THEN f[w] ELSE at[w]]
        /\ twins' = [a \in Addr |-> IF \E w \in exact : f[w] = a
                                    THEN CHOOSE w \in exact : f[w] = a ELSE twins[a]]
        /\ dropping' = IF loading[model] = "drop" THEN exact ELSE {}
  BY DEF Load
<1>2. /\ UNCHANGED <<on, loaded, engine, bridge, loading, routed, dropped, forward, spec, last>>
      /\ forward = None /\ dropping = {} /\ \A w \in W : at[w] = None
  BY DEF Load, hookVars
<1>3. W \subseteq Weights
  BY DEF WeightsOf, Weights
<1>4. \A w \in W : f[w] \in Addr /\ f[w] \notin {at[v] : v \in Weights}
  BY DEF Free
<1>5. ASSUME NEW w \in exact PROVE twins'[f[w]] = w
  <2>1. f[w] \in Addr
    BY <1>4
  <2>2. \A v \in exact : f[v] = f[w] => v = w
    BY <1>1
  <2>3. QED
    BY <1>1, <2>1, <2>2
<1>6. ASSUME NEW a \in Addr, ~ \E w \in exact : f[w] = a PROVE twins'[a] = twins[a]
  BY <1>1, <1>6
<1>7. \A w \in Weights : at'[w] = IF w \in W THEN f[w] ELSE at[w]
  BY <1>1
<1> HIDE DEF W
<1>8. Typed'
  <2>1. at' \in [Weights -> Addr \cup {None}]
    BY <1>1, <1>4 DEF TwinInv, Typed
  <2>2. \A a \in Addr : twins'[a] \in Weights \cup {None}
    BY <1>3, <1>5, <1>6 DEF TwinInv, Typed
  <2>3. twins' \in [Addr -> Weights \cup {None}]
    BY <1>1, <2>2
  <2>4. QED
    BY <1>1, <1>2, <1>3, <2>1, <2>3 DEF TwinInv, Typed
<1>9. Placed'
  <2>1. ASSUME NEW v \in Weights, NEW w \in Weights, at'[v] \in Addr, at'[v] = at'[w]
        PROVE  v = w
    <3>1. CASE v \in W /\ w \in W
      BY <1>1, <1>7, <2>1, <3>1
    <3>2. CASE v \notin W /\ w \notin W
      BY <1>7, <2>1, <3>2 DEF TwinInv, Placed
    <3>3. QED
      BY <1>4, <1>7, <2>1, <3>1, <3>2
  <2>2. ASSUME NEW a \in Addr, twins'[a] # None PROVE at'[twins'[a]] = a
    <3>1. CASE \E w \in exact : f[w] = a
      BY <1>3, <1>5, <1>7, <3>1
    <3>2. CASE ~ \E w \in exact : f[w] = a
      <4>1. twins'[a] = twins[a] /\ twins[a] \in Weights /\ at[twins[a]] = a
        BY <1>6, <2>2, <3>2 DEF TwinInv, Typed, Placed, KeysLive
      <4>2. twins[a] \notin W
        BY <1>2, <4>1, WeightsAssumption
      <4>3. QED
        BY <1>7, <4>1, <4>2
    <3>3. QED
      BY <3>1, <3>2
  <2>3. ASSUME NEW a \in dropped' PROVE twins'[a] # None
    <3>1. a \in dropped /\ a \in Addr /\ twins[a] # None
      BY <1>2 DEF TwinInv, Typed, Placed, KeysLive
    <3>2. CASE \E w \in exact : f[w] = a
      BY <1>3, <1>5, <3>2, WeightsAssumption DEF Weights
    <3>3. QED
      BY <1>6, <3>1, <3>2
  <2>4. ASSUME NEW w \in dropping' PROVE at'[w] \in Addr \ dropped' /\ twins'[at'[w]] = w
    <3>1. w \in exact /\ w \in W
      BY <1>1
    <3>2. at'[w] = f[w] /\ f[w] \in Addr /\ f[w] \notin {at[v] : v \in Weights}
      BY <1>3, <1>4, <1>7, <3>1
    <3>3. f[w] \notin dropped
      BY <3>2 DEF TwinInv, Typed, Placed, KeysLive
    <3>4. QED
      BY <1>2, <1>5, <3>1, <3>2, <3>3
  <2>5. QED
    BY <2>1, <2>2, <2>3, <2>4 DEF Placed, KeysLive
<1>10. Routes'
  <2>1. ASSUME NEW w \in Weights, w \in dropping' \/ at'[w] \in dropped'
        PROVE  Dispatched(w)'
    <3>1. CASE w \in dropping'
      <4>1. loading[model] = "drop" /\ w \in W
        BY <1>1, <3>1
      <4>2. CASE model = "target"
        BY <1>2, <4>1, <4>2 DEF TwinInv, Routes, Dispatched, Armed, Enabled, W, WeightsOf
      <4>3. CASE model = "draft"
        BY <1>2, <4>1, <4>3 DEF TwinInv, Routes, Dispatched, Armed, Enabled
      <4>4. QED
        BY <4>2, <4>3 DEF Models
    <3>2. CASE at'[w] \in dropped'
      <4>1. \A a \in dropped : a \in {at[v] : v \in Weights}
        BY DEF TwinInv, Typed, Placed, KeysLive
      <4>2. w \notin W
        BY <1>2, <1>4, <1>7, <3>2, <4>1
      <4>3. QED
        BY <1>2, <1>7, <3>2, <4>2 DEF TwinInv, Routes, Dispatched, Armed, Enabled
    <3>3. QED
      BY <2>1, <3>1, <3>2
  <2>2. QED
    BY <1>2, <2>1 DEF TwinInv, Routes, Armed, Enabled
<1>11. Speculation' /\ OwnWeight' /\ PrefillStock'
  BY <1>2 DEF TwinInv, Speculation, OwnWeight, PrefillStock
<1>12. QED
  BY <1>8, <1>9, <1>10, <1>11 DEF TwinInv

\* A drop moves the twin with its weight, or changes nothing.
LEMMA DropStep ==
  ASSUME TwinInv, WeightsAssumption, NEW w \in Weights, Drop(w)
  PROVE  TwinInv'
<1>1. /\ UNCHANGED <<on, loaded, engine, bridge, loading, routed, forward, spec, last>>
      /\ w \in dropping /\ dropping' = dropping \ {w}
  BY DEF Drop, hookVars
<1>2. forward = None
  BY <1>1 DEF TwinInv, Speculation
<1>3. Speculation' /\ OwnWeight' /\ PrefillStock'
  BY <1>1, <1>2 DEF TwinInv, Speculation, OwnWeight, PrefillStock
<1>4. Armed' = Armed /\ Dispatched(w)
  BY <1>1 DEF Armed, TwinInv, Routes
<1>5. CASE UNCHANGED <<at, twins, dropped>>
  <2>1. Typed' /\ Placed' /\ Routes'
    BY <1>1, <1>4, <1>5
       DEF TwinInv, Typed, Placed, KeysLive, Routes, Dispatched, Enabled
  <2>2. QED
    BY <1>3, <2>1 DEF TwinInv
<1>6. ASSUME NEW a \in Free, Retag(w, a), at' = [at EXCEPT ![w] = a],
             dropped' = dropped \cup {a}
      PROVE  TwinInv'
  <2>1. a \in Addr /\ \A v \in Weights : at[v] # a
    BY DEF Free
  <2>2. at[w] \in Addr \ dropped /\ twins[at[w]] = w /\ at[w] # a
    BY <1>1, <2>1 DEF TwinInv, Placed
  <2>3. /\ twins'[a] = w /\ twins'[at[w]] = None
        /\ \A b \in Addr : b # a /\ b # at[w] => twins'[b] = twins[b]
    BY <1>6, <2>1, <2>2 DEF Retag, TwinInv, Typed
  <2>4. \A v \in Weights : at'[v] = IF v = w THEN a ELSE at[v]
    BY <1>6 DEF TwinInv, Typed
  <2>5. Typed'
    BY <1>1, <1>6, <2>1 DEF TwinInv, Typed, Retag
  <2>6. Placed'
    <3>1. \A u, v \in Weights : at'[u] \in Addr /\ at'[u] = at'[v] => u = v
      BY <2>1, <2>4 DEF TwinInv, Placed
    <3>2. ASSUME NEW b \in Addr, twins'[b] # None PROVE at'[twins'[b]] = b
      <4>1. CASE b = a
        BY <2>3, <2>4, <4>1
      <4>2. CASE b # a
        <5>1. b # at[w] /\ twins'[b] = twins[b]
          BY <2>2, <2>3, <3>2, <4>2
        <5>2. twins[b] \in Weights /\ at[twins[b]] = b
          BY <3>2, <5>1 DEF TwinInv, Typed, Placed, KeysLive
        <5>3. QED
          BY <2>4, <5>1, <5>2
      <4>3. QED
        BY <4>1, <4>2
    <3>3. ASSUME NEW b \in dropped' PROVE twins'[b] # None
      BY <1>6, <2>2, <2>3, WeightsAssumption DEF TwinInv, Typed, Placed, KeysLive, Weights
    <3>4. ASSUME NEW v \in dropping' PROVE at'[v] \in Addr \ dropped' /\ twins'[at'[v]] = v
      <4>1. v \in Weights /\ v # w /\ at[v] \in Addr \ dropped /\ twins[at[v]] = v
        BY <1>1 DEF TwinInv, Typed, Placed
      <4>2. at[v] # a /\ at[v] # at[w]
        BY <2>1, <2>2, <4>1 DEF TwinInv, Placed
      <4>3. QED
        BY <1>6, <2>3, <2>4, <4>1, <4>2
    <3>5. QED
      BY <3>1, <3>2, <3>3, <3>4 DEF Placed, KeysLive
  <2>7. Routes'
    <3>1. ASSUME NEW v \in Weights, v \in dropping' \/ at'[v] \in dropped'
          PROVE  Dispatched(v)
      <4>1. CASE v = w
        BY <1>4, <4>1
      <4>2. CASE v # w
        <5>1. v \in dropping \/ at[v] \in dropped
          BY <1>1, <1>6, <2>1, <2>4, <3>1, <4>2
        <5>2. QED
          BY <5>1 DEF TwinInv, Routes
      <4>3. QED
        BY <4>1, <4>2
    <3>2. QED
      BY <1>1, <1>4, <3>1 DEF TwinInv, Routes, Dispatched, Enabled
  <2>8. QED
    BY <1>3, <2>5, <2>6, <2>7 DEF TwinInv
<1>7. QED
  BY <1>5, <1>6 DEF Drop

LEMMA PassStep ==
  ASSUME TwinInv, WeightsAssumption,
         \/ \E model \in Models, mode \in Modes : Enter(model, mode)
         \/ \E w \in Weights, rows \in Rows, std \in BOOLEAN : Call(w, rows, std)
         \/ Leave
  PROVE  TwinInv'
<1>1. UNCHANGED <<on, loaded, engine, bridge, loading, routed, at, twins, dropped, dropping>>
  BY DEF Enter, Call, Leave, hookVars
<1>2. spec' \in BOOLEAN => Typed' /\ Placed' /\ Routes'
  BY <1>1 DEF TwinInv, Typed, Placed, KeysLive, Routes, Dispatched, Armed, Enabled
<1>3. ASSUME NEW model \in Models, NEW mode \in Modes, Enter(model, mode)
      PROVE  spec' \in BOOLEAN /\ Speculation' /\ OwnWeight' /\ PrefillStock'
  <2>0. spec' \in BOOLEAN
    <3>1. (mode \in SpecModes) \in BOOLEAN
      OBVIOUS
    <3>5. spec \in BOOLEAN
      BY DEF TwinInv, Typed
    <3>2. CASE Wrapped(model)
      BY <1>3, <3>1, <3>2, Zenon DEF Enter
    <3>3. CASE ~Wrapped(model)
      BY <1>3, <3>5, <3>3, Zenon DEF Enter
    <3>4. QED
      BY <3>2, <3>3
  <2>1. /\ forward' = [model |-> model, mode |-> mode, prev |-> spec]
        /\ spec = FALSE /\ last = None /\ last' = None /\ dropping = {}
        /\ \A w \in WeightsOf(model) : at[w] # None
    BY <1>3 DEF Enter, TwinInv, Speculation
  <2>2. mode = "prefill" => ~spec'
    <3>1. mode = "prefill" => mode \notin SpecModes
      BY DEF SpecModes
    <3>2. CASE Wrapped(model)
      BY <1>3, <3>1, <3>2, Zenon DEF Enter
    <3>3. CASE ~Wrapped(model)
      BY <1>3, <2>1, <3>3, Zenon DEF Enter
    <3>4. QED
      BY <3>2, <3>3
  <2>3. CASE forward' # None
    <3>1. /\ forward'.prev = spec /\ forward'.model = model /\ forward'.mode = mode
      BY <2>1
    <3>2. forward'.prev = FALSE
      BY <2>1, <3>1, Zenon
    <3>3. \A w \in WeightsOf(model) : at'[w] # None
      BY <1>1, <2>1
    <3>4. Speculation'
      <4>1. dropping' = {} /\ forward' # None
        BY <1>1, <2>1, <2>3
      <4>2. \A w \in WeightsOf(forward'.model) : at'[w] # None
        BY <3>1, <3>3 DEF WeightsOf
      <4>3. forward'.mode = "prefill" => ~spec'
        BY <2>2, <3>1
      <4>4. QED
        BY <3>2, <4>1, <4>2, <4>3, Zenon DEF Speculation, WeightsOf
    <3>5. QED
      BY <2>0, <2>1, <3>4 DEF OwnWeight, PrefillStock
  <2>4. forward' # None
    BY <2>1, WeightsAssumption DEF Passes, TwinInv, Typed
  <2>5. QED
    BY <2>0, <2>3, <2>4
<1>4. ASSUME NEW w \in Weights, NEW rows \in Rows, NEW std \in BOOLEAN, Call(w, rows, std)
      PROVE  spec' \in BOOLEAN /\ Speculation' /\ OwnWeight' /\ PrefillStock'
  <2>1. PICK s \in Free :
          last' = [weight |-> w, rows |-> rows, product |-> Product(w, rows, std, s)]
    BY <1>4 DEF Call
  <2>2. /\ forward # None /\ w \in WeightsOf(forward.model)
        /\ UNCHANGED <<forward, spec>>
    BY <1>4 DEF Call
  <2>3. /\ Product(w, rows, std, s).bytes = w
        /\ forward.model = "target" /\ forward.mode = "prefill" /\ rows \in {"mid", "many"}
             => Product(w, rows, std, s).by = "engine"
    BY <2>2, ProductRight
  <2>4. OwnWeight'
    BY <2>1, <2>3 DEF OwnWeight
  <2>5. PrefillStock'
    BY <2>1, <2>2, <2>3 DEF PrefillStock
  <2>6. Speculation'
    BY <1>1, <2>2 DEF TwinInv, Speculation, WeightsOf
  <2>7. QED
    BY <2>2, <2>4, <2>5, <2>6 DEF TwinInv, Typed
<1>5. ASSUME Leave PROVE spec' \in BOOLEAN /\ Speculation' /\ OwnWeight' /\ PrefillStock'
  BY <1>5 DEF Leave, TwinInv, Typed, Speculation, OwnWeight, PrefillStock
<1>6. QED
  BY <1>2, <1>3, <1>4, <1>5 DEF TwinInv

\* The inductive invariant: addresses, twins, tags and dispatches belong together.
THEOREM TwinInvariant == Spec => []TwinInv
<1>1. TwinInv /\ [Next]_vars => TwinInv'
  <2> SUFFICES ASSUME TwinInv, [Next]_vars PROVE TwinInv'
    OBVIOUS
  <2>1. CASE UNCHANGED <<on, loaded, twinVars>>
    BY <2>1 DEF twinVars, TwinInv, Typed, Placed, KeysLive, Routes, Dispatched, Armed, Enabled,
                Speculation, OwnWeight, PrefillStock, WeightsOf
  <2>2. CASE (Ask \/ AskNested) /\ UNCHANGED twinVars
    BY <2>1, <2>2 DEF Ask, AskNested
  <2>3. CASE \E m \in EngineModules : Import(m)
    BY <2>3, ImportStep
  <2>4. CASE \E model \in Models : Load(model)
    BY <2>4, LoadStep, WeightsAssumption
  <2>5. CASE \E w \in Weights : Drop(w)
    BY <2>5, DropStep, WeightsAssumption
  <2>6. CASE \/ \E model \in Models, mode \in Modes : Enter(model, mode)
             \/ \E w \in Weights, rows \in Rows, std \in BOOLEAN : Call(w, rows, std)
             \/ Leave
    BY <2>6, PassStep, WeightsAssumption
  <2>7. CASE UNCHANGED vars
    BY <2>1, <2>7 DEF vars, hookVars
  <2>8. QED
    BY <2>2, <2>3, <2>4, <2>5, <2>6, <2>7 DEF Next
<1>2. QED
  BY TwinInit, <1>1, PTL DEF Spec

\* Every twin is found under the address its weight has, and every tag has its twin.
THEOREM KeysLiveHolds == Spec => []KeysLive
<1>1. TwinInv => KeysLive
  BY DEF TwinInv, Placed
<1>2. QED
  BY <1>1, TwinInvariant, PTL

\* A product is computed from the bytes of its own weight.
THEOREM OwnWeightHolds == Spec => []OwnWeight
<1>1. TwinInv => OwnWeight
  BY DEF TwinInv
<1>2. QED
  BY <1>1, TwinInvariant, PTL

\* A long prefill of the target is computed by the engine.
THEOREM PrefillStockHolds == Spec => []PrefillStock
<1>1. TwinInv => PrefillStock
  BY DEF TwinInv
<1>2. QED
  BY <1>1, TwinInvariant, PTL
================================================================================
