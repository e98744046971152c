----------------------------- MODULE LaunchProofs -----------------------------
(***************************************************************************)
(* The launcher's promises for any number of workers, serves, commands,    *)
(* lost removals and reboots, and every order of their steps, as long as   *)
(* stop.sh never leaves the head's own container behind and no wait is     *)
(* given up on a serve that still prepares.  Of such a serve there is at   *)
(* most one: the command that spawned it waits for it, and the head is     *)
(* down from that command's look at it until the serve starts its own.     *)
(***************************************************************************)
EXTENDS Launch, TLAPS

LEMMA NodeFacts ==
  /\ Workers \in Nat \ {0} /\ Serves \in Nat \ {0}
  /\ Nodes = 0 .. Workers /\ 0 \in Nodes /\ Unreachable \subseteq Nodes \ {0}
  /\ Launches = 1 .. Serves
  BY LaunchAssumption DEF Nodes, Launches

Stages == {"none", "created", "loading", "serving", "exited"}
Places == {"idle", "check", "prepare", "clean", "push", "start", "poll", "up", "failed", "dead"}
Cases == {"none", "start", "stop", "restart", "boot"}
Steps == {"done", "preflight", "stop", "leftovers", "probe", "share", "spawn", "wait", "verify"}
Results == {"none", "failed", "running", "left", "clean", "refused", "ready"}

ContainerType == [Nodes -> [launch : 0 .. Serves, stage : Stages]]
ServeType == [Launches -> [at : Places, node : Nodes]]
OpType == [cmd : Cases, at : Steps, node : 0 .. Workers + 1, seen : BOOLEAN,
           serve : 0 .. Serves, result : Results, launch : 0 .. Serves, blind : SUBSET Nodes]
SpentType == [commands : Nat, hasty : Nat, lost : Nat, reboots : Nat]

Typed ==
  container \in ContainerType /\ serve \in ServeType /\ op \in OpType /\ spent \in SpentType

\* A serve that prepares is waited for by the command that spawned it, and the
\* head is down meanwhile.
Alone ==
  \A s \in Launches : Preparing(s) => op.at = "wait" /\ op.serve = s /\ ~Running(0)

\* A command that goes on to spawn has seen that the head is down.
SeenDown ==
  \/ op.at \in {"leftovers", "share", "spawn"}
  \/ op.at = "preflight" /\ (op.cmd = "restart" \/ (op.node > 0 /\ ~op.seen))

Cleared == SeenDown => ~Running(0)

\* The nodes a serve starts before node k: the workers first, the head last.
Before(n, k) == n # 0 /\ (k = 0 \/ n < k)

\* What a serve has started so far is still its own.
Ours ==
  \A s \in Launches : At(s, "start") =>
    \A n \in Nodes : Before(n, serve[s].node) => container[n].launch = s

\* Beside a head that runs there are only containers of its launch.
OneGroup ==
  Running(0) => \A n \in Nodes : container[n].launch \in {0, container[0].launch}

\* The head a command waits for, asks and announces is the one it spawned.
Mine ==
  /\ op.at \in {"wait", "verify"} /\ Running(0) => container[0].launch = op.serve
  /\ op.at = "verify" /\ op.node > 0 => op.launch = op.serve
  /\ op.result = "ready" => op.launch = op.serve

\* Where cmd_stop has looked and seen nothing, nothing runs or comes up, except
\* on the nodes it could not reach.
Gone ==
  /\ op.cmd = "stop" /\ op.at = "leftovers" /\ ~op.seen =>
       \A n \in Nodes : n < op.node /\ Running(n) => n \in op.blind
  /\ op.cmd = "stop" /\ op.result = "clean" => \A n \in Nodes : Running(n) => n \in op.blind

Concluded == op.result = "none" \/ op.at = "done"

Orderly == Alone /\ Cleared /\ Ours /\ OneGroup /\ Mine /\ Gone /\ Concluded

LaunchInv == Typed /\ (Patient => Orderly)

-----------------------------------------------------------------------------
(* Types.                                                                  *)

LEMMA InitTyped == Init => Typed
<1> SUFFICES ASSUME Init PROVE Typed
  OBVIOUS
<1>1. container \in ContainerType
  BY NodeFacts DEF Init, ContainerType, NoContainer, Stages
<1>2. serve \in ServeType
  BY NodeFacts DEF Init, ServeType, Places
<1>3. op \in OpType
  BY NodeFacts DEF Init, OpType, Cases, Steps, Results
<1>4. spent \in SpentType
  BY DEF Init, SpentType
<1>5. QED
  BY <1>1, <1>2, <1>3, <1>4 DEF Typed

\* A container keeps its type when its stage changes or another takes its place.
LEMMA StageTyped ==
  ASSUME container \in ContainerType, NEW n \in Nodes, NEW stage \in Stages
  PROVE  [container EXCEPT ![n].stage = stage] \in ContainerType
  BY DEF ContainerType

LEMMA ReplacedTyped ==
  ASSUME container \in ContainerType, NEW n \in Nodes, NEW launch \in 0 .. Serves,
         NEW stage \in Stages
  PROVE  [container EXCEPT ![n] = [launch |-> launch, stage |-> stage]] \in ContainerType
  BY DEF ContainerType

LEMMA StageNames ==
  "none" \in Stages /\ "created" \in Stages /\ "loading" \in Stages
    /\ "serving" \in Stages /\ "exited" \in Stages
  BY DEF Stages

LEMMA EnginesTyped ==
  ASSUME Typed, Form \/ SmokePasses \/ PrintBanner \/ \E n \in Nodes : Load(n) \/ Exit(n)
  PROVE  Typed'
<1>1. UNCHANGED <<serve, op, spent>>
  BY DEF Form, SmokePasses, PrintBanner, Load, Exit
<1>2. container' \in ContainerType
  <2>1. CASE Form
    BY <2>1, StageNames DEF Form, Typed, ContainerType
  <2>2. CASE SmokePasses \/ PrintBanner
    BY <2>2 DEF SmokePasses, PrintBanner, Typed
  <2>3. ASSUME NEW n \in Nodes, Load(n) \/ Exit(n)
        PROVE  container' \in ContainerType
    <3>1. CASE Load(n)
      BY <3>1, StageTyped, StageNames DEF Load, Typed
    <3>2. CASE Exit(n)
      BY <3>2, StageTyped, StageNames DEF Exit, Typed
    <3>3. QED
      BY <2>3, <3>1, <3>2
  <2>4. QED
    BY <2>1, <2>2, <2>3
<1>3. QED
  BY <1>1, <1>2 DEF Typed

LEMMA GotoTyped ==
  ASSUME serve \in ServeType, NEW s \in Launches, NEW at, NEW node \in Nodes,
         Goto(s, at, node),
         at \in {"check", "prepare", "clean", "push", "start", "poll", "up", "failed", "dead"}
  PROVE  serve' \in ServeType
<1>1. at \in Places
  BY DEF Places
<1>2. QED
  BY <1>1 DEF ServeType, Goto

LEMMA EndTyped ==
  ASSUME op \in OpType, NEW result \in Results, End(result)
  PROVE  op' \in OpType
<1>1. "done" \in Steps
  BY DEF Steps
<1>2. QED
  BY <1>1 DEF OpType, End

LEMMA ServeTyped ==
  ASSUME Typed, NEW s \in Launches, ServeStep(s)
  PROVE  Typed'
<1> DEFINE n == serve[s].node
<1>1. n \in 0 .. Workers /\ s \in 0 .. Serves /\ 0 \in Nodes /\ 1 \in Nodes
  BY NodeFacts DEF Typed, ServeType
<1>2. ASSUME CheckGPU(s) \/ Prepare(s) \/ Push(s) \/ Poll(s)
      PROVE  /\ UNCHANGED <<container, op, spent>>
             /\ serve' \in ServeType
  <2>1. UNCHANGED <<container, op, spent>>
    BY <1>2 DEF CheckGPU, Prepare, Push, Poll
  <2>2. CASE CheckGPU(s)
    BY <1>1, <2>2, GotoTyped DEF CheckGPU, Typed
  <2>3. CASE Prepare(s)
    BY <1>1, <2>3, GotoTyped DEF Prepare, Typed
  <2>4. CASE Push(s)
    BY <1>1, <2>4, GotoTyped DEF Push, Typed
  <2>5. CASE Poll(s)
    BY <1>1, <2>5, GotoTyped DEF Poll, Typed
  <2>6. QED
    BY <1>2, <2>1, <2>2, <2>3, <2>4, <2>5
<1>3. ASSUME Clean(s)
      PROVE  op' = op /\ container' \in ContainerType /\ serve' \in ServeType /\ spent' \in SpentType
  <2>1. op' = op
    BY <1>3 DEF Clean
  <2>2. spent' \in SpentType
    BY <1>3 DEF Clean, Typed, SpentType
  <2>3. container' \in ContainerType
    <3>1. n \in Nodes /\ 0 \in 0 .. Serves
      BY <1>1, NodeFacts
    <3>2. [container EXCEPT ![n] = NoContainer] \in ContainerType
      BY <3>1, ReplacedTyped, StageNames DEF NoContainer, Typed
    <3>3. QED
      BY <1>3, <3>2 DEF Clean, Typed
  <2>4. CASE n = Workers
    BY <1>1, <1>3, <2>1, <2>2, <2>3, <2>4, GotoTyped DEF Clean, Typed
  <2>5. CASE n # Workers
    <3>1. n + 1 \in Nodes
      BY <1>1, <2>5, NodeFacts
    <3>2. Goto(s, "clean", n + 1)
      BY <1>3, <2>5 DEF Clean
    <3>3. QED
      BY <2>1, <2>2, <2>3, <3>1, <3>2, GotoTyped DEF Typed
  <2>6. QED
    BY <2>1, <2>2, <2>3, <2>4, <2>5
<1>4. ASSUME StartNode(s)
      PROVE  UNCHANGED <<op, spent>> /\ container' \in ContainerType /\ serve' \in ServeType
  <2>1. UNCHANGED <<op, spent>>
    BY <1>4 DEF StartNode
  <2>2. container' \in ContainerType
    <3>1. n \in Nodes
      BY <1>1, NodeFacts
    <3>2. [container EXCEPT ![n] = [launch |-> s, stage |-> "created"]] \in ContainerType
      BY <1>1, <3>1, ReplacedTyped, StageNames DEF Typed
    <3>3. QED
      BY <1>4, <3>2 DEF StartNode, Typed
  <2>3. CASE Goto(s, "dead", 0)
    BY <1>1, <2>1, <2>2, <2>3, GotoTyped DEF Typed
  <2>4. CASE Started(s, n)
    <3>1. CASE n = 0
      BY <1>1, <2>1, <2>2, <2>4, <3>1, GotoTyped DEF Started, Typed
    <3>2. CASE n # 0
      <4>1. (n + 1) % (Workers + 1) \in Nodes
        BY <1>1, NodeFacts
      <4>2. Goto(s, "start", (n + 1) % (Workers + 1))
        BY <2>4, <3>2 DEF Started
      <4>3. QED
        BY <2>1, <2>2, <4>1, <4>2, GotoTyped DEF Typed
    <3>3. QED
      BY <3>1, <3>2
  <2>5. QED
    BY <1>4, <2>3, <2>4 DEF StartNode
<1>5. QED
  BY <1>2, <1>3, <1>4 DEF Typed, ServeStep

\* Another step, with another node and nothing seen, is well typed.
LEMMA MoveTyped ==
  ASSUME op \in OpType, NEW at \in Steps, NEW node \in 0 .. Workers + 1
  PROVE  /\ [op EXCEPT !.at = at] \in OpType
         /\ [op EXCEPT !.at = at, !.node = node, !.seen = FALSE] \in OpType
         /\ [op EXCEPT !.at = at, !.node = node, !.seen = FALSE, !.blind = {}] \in OpType
  BY DEF OpType

LEMMA CommandTyped ==
  ASSUME Typed,
         \/ OpStep \/ Reboot
         \/ \E cmd \in {"start", "stop", "restart"} : Issue(cmd)
  PROVE  Typed'
<1>1. ASSUME NEW cmd \in {"start", "stop", "restart"}, Issue(cmd) PROVE Typed'
  <2>1. UNCHANGED <<container, serve>>
    BY <1>1 DEF Issue
  <2>2. spent' \in SpentType
    BY <1>1 DEF Issue, Typed, SpentType
  <2>3. First[cmd] \in Steps /\ cmd \in Cases
    BY DEF First, Steps, Cases
  <2>4. "none" \in Results
    BY DEF Results
  <2>5. op' \in OpType
    BY <1>1, <2>3, <2>4, NodeFacts DEF Issue, OpType
  <2>6. QED
    BY <2>1, <2>2, <2>5 DEF Typed
<1>2. ASSUME Probe \/ Leftovers \/ Preflight \/ Share \/ Health \/ Verify PROVE Typed'
  <2>1. UNCHANGED <<container, serve, spent>>
    BY <1>2 DEF Probe, Leftovers, Preflight, Share, Health, Verify, OnlyOp
  <2>2. ASSUME NEW result \in {"failed", "running", "left", "clean", "refused", "ready"},
               End(result)
        PROVE  op' \in OpType
    <3>1. result \in Results
      BY <2>2 DEF Results
    <3>2. QED
      BY <2>2, <3>1, EndTyped DEF Typed
  <2>3. ASSUME op.node \in Nodes
        PROVE  /\ Look(op.node) \in OpType
               /\ SeesNothing(op.node) \in OpType /\ SeesService(op.node) \in OpType
    <3>1. op.node + 1 \in 0 .. Workers + 1
      BY <2>3, NodeFacts
    <3>2. (op.seen \/ Running(op.node)) \in BOOLEAN
      OBVIOUS
    <3>3. op.blind \cup {op.node} \in SUBSET Nodes
      BY <2>3 DEF OpType, Typed
    <3>4. QED
      BY <3>1, <3>2, <3>3 DEF Look, SeesNothing, SeesService, OpType, Typed
  <2> DEFINE Moved(at) == [op EXCEPT !.at = at]
             Over(at) == [op EXCEPT !.at = at, !.node = 0, !.seen = FALSE]
             Anew(at) == [op EXCEPT !.at = at, !.node = 0, !.seen = FALSE, !.blind = {}]
  <2>4. /\ Moved("stop") \in OpType /\ Moved("preflight") \in OpType
        /\ Moved("share") \in OpType /\ Moved("spawn") \in OpType
        /\ Anew("preflight") \in OpType /\ Over("verify") \in OpType
    <3>1. op \in OpType /\ 0 \in 0 .. Workers + 1
      BY NodeFacts DEF Typed
    <3>2. \A at \in {"stop", "preflight", "share", "spawn", "verify"} : at \in Steps
      BY DEF Steps
    <3>3. ASSUME NEW at \in Steps PROVE Moved(at) \in OpType /\ Over(at) \in OpType /\ Anew(at) \in OpType
      BY <3>1, MoveTyped
    <3> HIDE DEF Moved, Over, Anew
    <3>4. QED
      BY <3>2, <3>3
  <2>5. ASSUME Probe PROVE op' \in OpType
    <3>1. End("failed") \/ End("running") \/ op' = Moved("stop") \/ op' = Moved("preflight")
      BY <2>5 DEF Probe
    <3>2. QED
      BY <2>2, <2>4, <3>1
  <2>6. ASSUME Leftovers PROVE op' \in OpType
    <3>1. \/ op.node \in Nodes /\ (op' = Look(op.node) \/ op' = SeesNothing(op.node))
          \/ End("left") \/ End("clean")
          \/ op' = Anew("preflight")
      BY <2>6, NodeFacts DEF Leftovers
    <3>2. QED
      BY <2>2, <2>3, <2>4, <3>1
  <2>7. ASSUME Preflight PROVE op' \in OpType
    <3>1. \/ op.node \in Nodes /\ (op' = Look(op.node) \/ op' = SeesService(op.node))
          \/ End("refused") \/ End("failed")
          \/ op' = Moved("share")
      BY <2>7, NodeFacts DEF Preflight
    <3>2. QED
      BY <2>2, <2>3, <2>4, <3>1
  <2>8. ASSUME Share PROVE op' \in OpType
    <3>1. End("failed") \/ op' = Moved("spawn")
      BY <2>8 DEF Share
    <3>2. QED
      BY <2>2, <2>4, <3>1
  <2>9. ASSUME Health PROVE op' \in OpType
    BY <2>4, <2>9 DEF Health
  <2>10. ASSUME Verify PROVE op' \in OpType
    <3>1. CASE End("ready") \/ End("failed")
      BY <2>2, <3>1
    <3>2. CASE /\ op.node \in Nodes
               /\ op' = [op EXCEPT !.node = @ + 1,
                            !.launch = IF op.node = 0 THEN container[0].launch ELSE @]
      <4>1. op.node + 1 \in 0 .. Workers + 1
        BY <3>2, NodeFacts
      <4>2. container[0].launch \in 0 .. Serves
        BY NodeFacts DEF Typed, ContainerType
      <4>3. ASSUME NEW node \in 0 .. Workers + 1, NEW launch \in 0 .. Serves
            PROVE  [op EXCEPT !.node = node, !.launch = launch] \in OpType
        BY DEF OpType, Typed
      <4>4. op.launch \in 0 .. Serves
        BY DEF OpType, Typed
      <4>5. QED
        BY <3>2, <4>1, <4>2, <4>3, <4>4
    <3>3. QED
      BY <2>10, <3>1, <3>2 DEF Verify
  <2>11. QED
    BY <1>2, <2>1, <2>5, <2>6, <2>7, <2>8, <2>9, <2>10 DEF Typed
<1>3. ASSUME Stop PROVE Typed'
  <2>1. container' \in ContainerType
    BY <1>3, NodeFacts, StageNames DEF Stop, Typed, NoContainer, ContainerType
  <2>2. op' \in OpType
    <3>1. "leftovers" \in Steps
      BY DEF Steps
    <3>2. op \in OpType /\ 0 \in 0 .. Workers + 1
      BY NodeFacts DEF Typed
    <3>3. [op EXCEPT !.at = "leftovers", !.node = 0, !.seen = FALSE, !.blind = {}] \in OpType
      BY <3>1, <3>2, MoveTyped
    <3>4. QED
      BY <1>3, <3>3 DEF Stop
  <2>3. QED
    BY <1>3, <2>1, <2>2 DEF Stop, Typed
<1>4. ASSUME Spawn PROVE Typed'
  <2>1. UNCHANGED <<container, spent>>
    BY <1>4 DEF Spawn
  <2>2. CASE End("failed") /\ UNCHANGED serve
    <3>1. "failed" \in Results
      BY DEF Results
    <3>2. QED
      BY <2>1, <2>2, <3>1, EndTyped DEF Typed
  <2>3. ASSUME NEW s \in Launches, Goto(s, "check", 0),
               op' = [op EXCEPT !.at = "wait", !.serve = s]
        PROVE  Typed'
    <3>1. serve' \in ServeType
      BY <2>3, NodeFacts, GotoTyped DEF Typed
    <3>2. s \in 0 .. Serves
      BY NodeFacts
    <3>3. op' \in OpType
      BY <2>3, <3>2 DEF Typed, OpType, Steps
    <3>4. QED
      BY <2>1, <3>1, <3>3 DEF Typed
  <2>4. QED
    BY <1>4, <2>2, <2>3 DEF Spawn
<1>5. ASSUME GiveUp PROVE Typed'
  <2>1. "failed" \in Results
    BY DEF Results
  <2>2. op' \in OpType
    BY <1>5, <2>1, EndTyped DEF GiveUp, Typed
  <2>3. spent' \in SpentType
    BY <1>5 DEF GiveUp, Typed, SpentType
  <2>4. QED
    BY <1>5, <2>2, <2>3 DEF GiveUp, Typed
<1>6. ASSUME Reboot PROVE Typed'
  <2>1. spent' \in SpentType
    BY <1>6 DEF Reboot, Typed, SpentType
  <2>2. container' \in ContainerType
    BY <1>6, NodeFacts, StageNames DEF Reboot, Typed, ContainerType
  <2>3. serve' \in ServeType
    BY <1>6, NodeFacts DEF Reboot, Typed, ServeType, Places
  <2>4. op' \in OpType
    BY <1>6, NodeFacts DEF Reboot, OpType, Cases, Steps, Results
  <2>5. QED
    BY <2>1, <2>2, <2>3, <2>4 DEF Typed
<1>7. QED
  BY <1>1, <1>2, <1>3, <1>4, <1>5, <1>6 DEF OpStep

-----------------------------------------------------------------------------
(* The order of the steps.                                                 *)

LEMMA InitOrderly == Init => Orderly
<1> SUFFICES ASSUME Init PROVE Orderly
  OBVIOUS
<1>1. /\ \A n \in Nodes : ~Running(n)
      /\ \A s \in Launches : serve[s].at = "idle"
      /\ op.at = "done" /\ op.cmd = "none" /\ op.result = "none"
  BY DEF Init, Running, NoContainer
<1>2. QED
  BY <1>1, NodeFacts
     DEF Orderly, Alone, Cleared, SeenDown, Ours, OneGroup, Mine, Gone, Concluded, Preparing, At

\* What the engines do by themselves, ending included, changes no container's
\* launch and brings none up.
LEMMA QuietKeeps ==
  ASSUME Orderly, UNCHANGED <<serve, op>>,
         \A n \in Nodes : container[n].launch' = container[n].launch,
         \A n \in Nodes : Running(n)' => Running(n)
  PROVE  Orderly'
<1>1. Alone' /\ Cleared' /\ Ours' /\ OneGroup' /\ Mine' /\ Gone' /\ Concluded'
  BY NodeFacts
     DEF Orderly, Alone, Cleared, SeenDown, Ours, OneGroup, Mine, Gone, Concluded, Preparing, At, Before
<1>2. QED
  BY <1>1 DEF Orderly

LEMMA EnginesKeep ==
  ASSUME Typed, Orderly,
         Form \/ SmokePasses \/ PrintBanner \/ \E n \in Nodes : Load(n) \/ Exit(n)
  PROVE  Orderly'
<1>1. UNCHANGED <<serve, op>>
  BY DEF Form, SmokePasses, PrintBanner, Load, Exit
<1>2. /\ \A n \in Nodes : container[n].launch' = container[n].launch
      /\ \A n \in Nodes : Running(n)' => Running(n)
  <2>1. CASE Form
    BY <2>1 DEF Form, Typed, ContainerType, Running
  <2>2. CASE SmokePasses \/ PrintBanner
    BY <2>2 DEF SmokePasses, PrintBanner, Running
  <2>3. ASSUME NEW m \in Nodes, Load(m) \/ Exit(m)
        PROVE  /\ \A n \in Nodes : container[n].launch' = container[n].launch
               /\ \A n \in Nodes : Running(n)' => Running(n)
    BY <2>3 DEF Load, Exit, Typed, ContainerType, Running
  <2>4. QED
    BY <2>1, <2>2, <2>3
<1>3. QED
  BY <1>1, <1>2, QuietKeeps

\* A serve that moves without touching a container keeps everything: as long as
\* it prepares nothing changes for it, and later nothing depends on it.
LEMMA WalkKeeps ==
  ASSUME Typed, Orderly, UNCHANGED <<container, op>>, NEW s \in Launches, NEW at, NEW node,
         Goto(s, at, node), Preparing(s) \/ at \in {"up", "failed"}, at = "start" => node = 1
  PROVE  Orderly'
<1>1. /\ serve'[s] = [at |-> at, node |-> node]
      /\ \A r \in Launches \ {s} : serve'[r] = serve[r]
  BY DEF Goto, Typed, ServeType
<1>2. Alone'
  BY <1>1 DEF Orderly, Alone, Preparing, Running
<1>3. Ours'
  BY <1>1, NodeFacts DEF Orderly, Ours, At, Before
<1>4. Cleared' /\ OneGroup' /\ Mine' /\ Gone' /\ Concluded'
  BY DEF Orderly, Cleared, SeenDown, OneGroup, Mine, Gone, Concluded, Running
<1>5. QED
  BY <1>2, <1>3, <1>4 DEF Orderly

LEMMA ServeKeeps ==
  ASSUME Typed, Orderly, NEW s \in Launches, ServeStep(s)
  PROVE  Orderly'
<1> DEFINE n == serve[s].node
<1>1. n \in Nodes /\ n \in 0 .. Workers
  BY NodeFacts DEF Typed, ServeType
<1>2. ASSUME NEW r \in Launches, Preparing(r), r # s, Preparing(s) PROVE FALSE
  BY <1>2 DEF Orderly, Alone
<1>3. Preparing(s) => op.at = "wait" /\ op.serve = s /\ op.result = "none" /\ ~Running(0)
  BY DEF Orderly, Alone, Concluded
<1>4. CASE CheckGPU(s)
  BY <1>4, WalkKeeps DEF CheckGPU, Preparing, At
<1>5. CASE Prepare(s)
  BY <1>5, WalkKeeps DEF Prepare, Preparing, At
<1>6. CASE Push(s)
  BY <1>6, WalkKeeps DEF Push, Preparing, At
<1>7. CASE Poll(s)
  BY <1>7, WalkKeeps DEF Poll
<1>8. CASE Clean(s)
  <2>1. Preparing(s) /\ op' = op
    BY <1>8 DEF Clean, Preparing, At
  <2>2. ~Running(0)'
    BY <1>1, <1>3, <1>8, <2>1, NodeFacts DEF Clean, NoContainer, Running, Typed, ContainerType
  <2>3. /\ serve'[s].at \in {"push", "clean"}
        /\ \A r \in Launches \ {s} : serve'[r] = serve[r]
    BY <1>8 DEF Clean, Goto, Typed, ServeType
  <2>4. Alone'
    BY <1>2, <1>3, <2>1, <2>2, <2>3 DEF Alone, Preparing
  <2>5. Ours'
    BY <1>2, <2>1, <2>3 DEF Ours, At, Preparing
  <2>6. Cleared' /\ OneGroup' /\ Mine' /\ Gone' /\ Concluded'
    BY <1>3, <2>1, <2>2 DEF Cleared, SeenDown, OneGroup, Mine, Gone, Concluded
  <2>7. QED
    BY <2>4, <2>5, <2>6 DEF Orderly
<1>9. CASE StartNode(s)
  <2>1. Preparing(s) /\ op' = op /\ At(s, "start")
    BY <1>9 DEF StartNode, Preparing, At
  <2>2. ASSUME UNCHANGED container, Goto(s, "dead", 0) PROVE Orderly'
    BY <2>1, <2>2, WalkKeeps
  <2>3. ASSUME container' = [container EXCEPT ![n] = [launch |-> s, stage |-> "created"]],
               Started(s, n)
        PROVE  Orderly'
    <3>1. /\ container'[n] = [launch |-> s, stage |-> "created"]
          /\ \A m \in Nodes \ {n} : container'[m] = container[m]
      BY <1>1, <2>3 DEF Typed, ContainerType
    <3>2. /\ serve'[s] = IF n = 0 THEN [at |-> "poll", node |-> 0]
                         ELSE [at |-> "start", node |-> (n + 1) % (Workers + 1)]
          /\ \A r \in Launches \ {s} : serve'[r] = serve[r]
      BY <2>3 DEF Started, Goto, Typed, ServeType
    <3>3. ASSUME NEW m \in Nodes, Before(m, n) PROVE container[m].launch = s
      BY <2>1, <3>3 DEF Orderly, Ours
    <3>4. n # 0 => ~Running(0)'
      BY <1>3, <2>1, <3>1, NodeFacts DEF Running
    <3>5. Alone'
      BY <1>2, <1>3, <2>1, <3>2, <3>4 DEF Alone, Preparing
    <3>6. Ours'
      <4> SUFFICES ASSUME NEW r \in Launches, At(r, "start")', NEW m \in Nodes,
                          Before(m, serve'[r].node)
                   PROVE  container'[m].launch = r
        BY DEF Ours
      <4>1. r = s /\ n # 0
        BY <1>2, <2>1, <3>2 DEF At, Preparing
      <4>2. serve'[s].node = (n + 1) % (Workers + 1)
        BY <3>2, <4>1
      <4>3. m = n \/ Before(m, n)
        <5>1. m \in 0 .. Workers /\ n \in 1 .. Workers
          BY <1>1, <4>1, NodeFacts
        <5>2. CASE n = Workers
          BY <4>2, <5>1, <5>2, NodeFacts DEF Before
        <5>3. CASE n # Workers
          <6>1. (n + 1) % (Workers + 1) = n + 1
            <7>1. Workers \in Nat /\ n \in Nat /\ n + 1 < Workers + 1
              BY <5>1, <5>3, NodeFacts
            <7>2. QED
              BY <7>1
          <6>2. m # 0 /\ m < n + 1
            <7>1. Before(m, n + 1)
              BY <4>1, <4>2, <6>1
            <7>2. QED
              BY <5>1, <7>1 DEF Before
          <6>3. QED
            BY <5>1, <6>2 DEF Before
        <5>4. QED
          BY <5>2, <5>3
      <4>4. QED
        BY <3>1, <3>3, <4>1, <4>3
    <3>7. OneGroup'
      <4>1. CASE n # 0
        BY <3>4, <4>1 DEF OneGroup
      <4>2. CASE n = 0
        BY <3>1, <3>3, <4>2, NodeFacts DEF OneGroup, Before
      <4>3. QED
        BY <4>1, <4>2
    <3>8. Mine'
      BY <1>3, <2>1, <3>1, <3>4 DEF Mine
    <3>9. Cleared' /\ Gone' /\ Concluded'
      BY <1>3, <2>1 DEF Cleared, SeenDown, Gone, Concluded
    <3>10. QED
      BY <3>5, <3>6, <3>7, <3>8, <3>9 DEF Orderly
  <2>4. QED
    BY <1>9, <2>2, <2>3 DEF StartNode
<1>10. QED
  BY <1>4, <1>5, <1>6, <1>7, <1>8, <1>9 DEF ServeStep

\* A step of a command that only moves on keeps what does not name its step; the
\* rest is asked of the move.
LEMMA MoveKeeps ==
  ASSUME Typed, Orderly, UNCHANGED <<container, serve>>,
         op.at # "wait" \/ \A s \in Launches : ~Preparing(s),
         op'.serve = op.serve, Cleared', Mine', Gone', Concluded'
  PROVE  Orderly'
<1>1. Alone'
  BY DEF Orderly, Alone, Preparing, Running
<1>2. Ours' /\ OneGroup'
  BY DEF Orderly, Ours, OneGroup, At, Running
<1>3. QED
  BY <1>1, <1>2 DEF Orderly

\* The fields of the next op, for a command that ends, moves or looks at a node.
LEMMA EndFields ==
  ASSUME Typed, NEW result, End(result)
  PROVE  /\ op'.cmd = op.cmd /\ op'.at = "done" /\ op'.node = op.node
         /\ op'.serve = op.serve /\ op'.result = result /\ op'.launch = op.launch
         /\ op'.blind = op.blind
  BY DEF End, Typed, OpType

\* A command ends: unless it announces, nothing is claimed any more.
LEMMA EndKeeps ==
  ASSUME Typed, Orderly, UNCHANGED <<container, serve>>, NEW result, End(result),
         op.at # "wait" \/ \A s \in Launches : ~Preparing(s),
         result = "ready" => op.launch = op.serve,
         result = "clean" => \A n \in Nodes : Running(n) => n \in op.blind
  PROVE  Orderly'
<1>1. /\ op'.cmd = op.cmd /\ op'.at = "done" /\ op'.node = op.node
      /\ op'.serve = op.serve /\ op'.result = result /\ op'.launch = op.launch
      /\ op'.blind = op.blind
  BY EndFields
<1>2. Cleared' /\ Mine' /\ Gone' /\ Concluded'
  BY <1>1 DEF Cleared, SeenDown, Mine, Gone, Concluded, Running
<1>3. QED
  BY <1>1, <1>2, MoveKeeps

LEMMA IssueKeeps ==
  ASSUME Typed, Orderly, NEW cmd \in {"start", "stop", "restart"}, Issue(cmd)
  PROVE  Orderly'
<1>1. /\ op'.cmd = cmd /\ op'.at \in {"preflight", "stop"} /\ op'.node = 0
      /\ op'.at = "preflight" => cmd = "start"
      /\ op'.result = "none"
      /\ UNCHANGED <<container, serve>> /\ op.at = "done"
  BY DEF Issue, First, OpAt
<1>2. \A s \in Launches : ~Preparing(s)
  BY <1>1 DEF Orderly, Alone
<1>3. Alone'
  BY <1>1, <1>2 DEF Alone, Preparing
<1>4. Ours' /\ OneGroup'
  BY <1>1 DEF Orderly, Ours, OneGroup, At, Running
<1>5. Cleared' /\ Mine' /\ Gone' /\ Concluded'
  BY <1>1 DEF Cleared, SeenDown, Mine, Gone, Concluded
<1>6. QED
  BY <1>3, <1>4, <1>5 DEF Orderly

LEMMA ProbeKeeps ==
  ASSUME Typed, Orderly, Probe
  PROVE  Orderly'
<1>1. op.at = "probe" /\ op.result = "none" /\ UNCHANGED <<container, serve>>
  BY DEF Probe, OpAt, OnlyOp, Orderly, Concluded
<1>2. CASE End("failed") \/ End("running")
  BY <1>1, <1>2, EndKeeps
<1>3. CASE op' = [op EXCEPT !.at = IF Running(0) THEN "stop" ELSE "preflight"]
  <2>1. /\ op'.cmd = op.cmd /\ op'.node = op.node /\ op'.serve = op.serve
        /\ op'.result = "none" /\ op'.launch = op.launch
        /\ op'.at \in {"stop", "preflight"} /\ (op'.at = "preflight" => ~Running(0))
    BY <1>1, <1>3 DEF Typed, OpType
  <2>2. Cleared' /\ Mine' /\ Gone' /\ Concluded'
    BY <1>1, <2>1 DEF Cleared, SeenDown, Mine, Gone, Concluded, Running
  <2>3. QED
    BY <1>1, <2>1, <2>2, MoveKeeps
<1>4. QED
  BY <1>2, <1>3 DEF Probe

LEMMA StopKeeps ==
  ASSUME 0 \notin Stubborn, Typed, Orderly, Stop
  PROVE  Orderly'
<1>1. /\ op.at = "stop" /\ op.result = "none" /\ serve' = serve
      /\ op' = [op EXCEPT !.at = "leftovers", !.node = 0, !.seen = FALSE, !.blind = {}]
  BY DEF Stop, OpAt, Orderly, Concluded
<1>2. ~Running(0)'
  BY NodeFacts DEF Stop, NoContainer, Running
<1>3. /\ op'.cmd = op.cmd /\ op'.at = "leftovers" /\ op'.node = 0
      /\ op'.result = "none" /\ op'.serve = op.serve
  BY <1>1 DEF Typed, OpType
<1>4. \A s \in Launches : ~Preparing(s)
  BY <1>1 DEF Orderly, Alone
<1>5. Alone' /\ Ours'
  BY <1>1, <1>4 DEF Alone, Ours, Preparing, At
<1>6. Cleared' /\ OneGroup' /\ Mine' /\ Concluded'
  BY <1>2, <1>3 DEF Cleared, SeenDown, OneGroup, Mine, Concluded
<1>7. Gone'
  BY <1>3, NodeFacts DEF Gone
<1>8. QED
  BY <1>5, <1>6, <1>7 DEF Orderly

\* What a look at a node tells, and what one that does not reach it says instead.
LEMMA LookFields ==
  ASSUME Typed, op.node \in Nodes, op' = Look(op.node)
  PROVE  /\ op'.cmd = op.cmd /\ op'.at = op.at /\ op'.node = op.node + 1
         /\ op'.serve = op.serve /\ op'.result = op.result /\ op'.launch = op.launch
         /\ op'.blind = op.blind
         /\ ~op'.seen => ~op.seen /\ ~Running(op.node)
  BY DEF Look, Typed, OpType

LEMMA BlindFields ==
  ASSUME Typed, op' = SeesNothing(op.node) \/ op' = SeesService(op.node)
  PROVE  /\ op'.cmd = op.cmd /\ op'.at = op.at /\ op'.node = op.node + 1
         /\ op'.serve = op.serve /\ op'.result = op.result /\ op'.launch = op.launch
         /\ op' = SeesNothing(op.node) =>
              op'.seen = op.seen /\ op'.blind = op.blind \cup {op.node}
         /\ op' = SeesService(op.node) => op'.seen
<1>1. CASE op' = SeesNothing(op.node)
  BY <1>1 DEF SeesNothing, SeesService, Typed, OpType
<1>2. CASE op' = SeesService(op.node)
  BY <1>2 DEF SeesNothing, SeesService, Typed, OpType
<1>3. QED
  BY <1>1, <1>2

LEMMA LeftoversKeep ==
  ASSUME Typed, Orderly, Leftovers
  PROVE  Orderly'
<1>1. op.at = "leftovers" /\ op.result = "none" /\ UNCHANGED <<container, serve>>
  BY DEF Leftovers, OpAt, OnlyOp, Orderly, Concluded
<1>2. ~Running(0)
  BY <1>1 DEF Orderly, Cleared, SeenDown
<1>3. op.node \in 0 .. Workers + 1
  BY DEF Typed, OpType
<1>4. CASE op.node \in Nodes /\ (op' = Look(op.node) \/ op' = SeesNothing(op.node))
  <2>1. /\ op'.cmd = op.cmd /\ op'.at = op.at /\ op'.node = op.node + 1
        /\ op'.serve = op.serve /\ op'.result = op.result /\ op'.launch = op.launch
        /\ op.blind \subseteq op'.blind
        /\ ~op'.seen => ~op.seen /\ (Running(op.node) => op.node \in op'.blind)
    <3>1. CASE op' = Look(op.node)
      BY <1>4, <3>1, LookFields
    <3>2. CASE op' = SeesNothing(op.node)
      BY <3>2, BlindFields
    <3>3. QED
      BY <1>4, <3>1, <3>2
  <2>2. Gone'
    <3>1. ASSUME op.cmd = "stop", ~op'.seen, NEW n \in Nodes, n < op.node + 1, Running(n)
          PROVE  n \in op'.blind
      <4>1. n < op.node \/ n = op.node
        BY <1>3, <3>1, NodeFacts
      <4>2. QED
        BY <1>1, <2>1, <3>1, <4>1 DEF Orderly, Gone
    <3>2. QED
      BY <1>1, <2>1, <3>1 DEF Gone, Running
  <2>3. Cleared' /\ Mine' /\ Concluded'
    BY <1>1, <1>2, <2>1 DEF Cleared, SeenDown, Mine, Concluded, Running
  <2>4. QED
    BY <1>1, <2>1, <2>2, <2>3, MoveKeeps
<1>5. CASE op.node \notin Nodes /\ op.cmd = "stop" /\ End(IF op.seen THEN "left" ELSE "clean")
  <2>1. ~op.seen => \A n \in Nodes : Running(n) => n \in op.blind
    <3>1. \A n \in Nodes : n < op.node
      BY <1>3, <1>5, NodeFacts
    <3>2. QED
      BY <1>1, <1>5, <3>1 DEF Orderly, Gone
  <2>2. QED
    BY <1>1, <1>5, <2>1, EndKeeps
<1>6. CASE /\ op.node \notin Nodes /\ op.cmd # "stop"
           /\ op' = [op EXCEPT !.at = "preflight", !.node = 0, !.seen = FALSE, !.blind = {}]
  <2>1. /\ op'.cmd = op.cmd /\ op'.at = "preflight" /\ op'.serve = op.serve
        /\ op'.result = op.result
    BY <1>6 DEF Typed, OpType
  <2>2. Cleared' /\ Mine' /\ Gone' /\ Concluded'
    BY <1>1, <1>2, <1>6, <2>1 DEF Cleared, SeenDown, Mine, Gone, Concluded, Running
  <2>3. QED
    BY <1>1, <2>1, <2>2, MoveKeeps
<1>7. QED
  BY <1>4, <1>5, <1>6, NodeFacts DEF Leftovers

LEMMA PreflightKeeps ==
  ASSUME Typed, Orderly, Preflight
  PROVE  Orderly'
<1>1. op.at = "preflight" /\ op.result = "none" /\ UNCHANGED <<container, serve>>
  BY DEF Preflight, OpAt, OnlyOp, Orderly, Concluded
<1>2. op.node \in 0 .. Workers + 1
  BY DEF Typed, OpType
<1>3. CASE op.node \in Nodes /\ op' = Look(op.node)
  <2>1. /\ op'.cmd = op.cmd /\ op'.at = op.at /\ op'.node = op.node + 1
        /\ op'.serve = op.serve /\ op'.result = op.result /\ op'.launch = op.launch
        /\ ~op'.seen => ~op.seen /\ ~Running(op.node)
    BY <1>3, LookFields
  <2>2. ASSUME ~op'.seen \/ op.cmd = "restart" PROVE ~Running(0)
    BY <1>1, <1>2, <2>1, <2>2 DEF Orderly, Cleared, SeenDown
  <2>3. Cleared'
    BY <1>1, <2>1, <2>2 DEF Cleared, SeenDown, Running
  <2>4. Mine' /\ Gone' /\ Concluded'
    BY <1>1, <2>1 DEF Mine, Gone, Concluded
  <2>5. QED
    BY <1>1, <2>1, <2>3, <2>4, MoveKeeps
<1>4. CASE op.node \in Unreachable /\ op' = SeesService(op.node)
  <2>1. /\ op'.cmd = op.cmd /\ op'.at = op.at /\ op'.serve = op.serve
        /\ op'.result = op.result /\ op'.seen
    BY <1>4, BlindFields
  <2>2. op.cmd = "restart" => ~Running(0)
    BY <1>1 DEF Orderly, Cleared, SeenDown
  <2>3. Cleared' /\ Mine' /\ Gone' /\ Concluded'
    BY <1>1, <2>1, <2>2 DEF Cleared, SeenDown, Mine, Gone, Concluded, Running
  <2>4. QED
    BY <1>1, <2>1, <2>3, MoveKeeps
<1>5. CASE End("refused") \/ End("failed")
  BY <1>1, <1>5, EndKeeps
<1>6. CASE op.node \notin Nodes /\ ~Refused /\ op' = [op EXCEPT !.at = "share"]
  <2>1. op.node > 0
    BY <1>2, <1>6, NodeFacts
  <2>2. ~Running(0)
    BY <1>1, <1>6, <2>1 DEF Orderly, Cleared, SeenDown, Refused
  <2>3. /\ op'.cmd = op.cmd /\ op'.at = "share" /\ op'.serve = op.serve
        /\ op'.result = op.result
    BY <1>6 DEF Typed, OpType
  <2>4. Cleared' /\ Mine' /\ Gone' /\ Concluded'
    BY <1>1, <2>2, <2>3 DEF Cleared, Mine, Gone, Concluded, Running
  <2>5. QED
    BY <1>1, <2>3, <2>4, MoveKeeps
<1>7. QED
  BY <1>3, <1>4, <1>5, <1>6 DEF Preflight

LEMMA ShareKeeps ==
  ASSUME Typed, Orderly, Share
  PROVE  Orderly'
<1>1. op.at = "share" /\ op.result = "none" /\ UNCHANGED <<container, serve>>
  BY DEF Share, OpAt, OnlyOp, Orderly, Concluded
<1>2. CASE End("failed")
  BY <1>1, <1>2, EndKeeps
<1>3. CASE op' = [op EXCEPT !.at = "spawn"]
  <2>1. /\ op'.cmd = op.cmd /\ op'.at = "spawn" /\ op'.serve = op.serve
        /\ op'.result = op.result
    BY <1>3 DEF Typed, OpType
  <2>2. ~Running(0)
    BY <1>1 DEF Orderly, Cleared, SeenDown
  <2>3. Cleared' /\ Mine' /\ Gone' /\ Concluded'
    BY <1>1, <2>1, <2>2 DEF Cleared, Mine, Gone, Concluded, Running
  <2>4. QED
    BY <1>1, <2>1, <2>3, MoveKeeps
<1>4. QED
  BY <1>2, <1>3 DEF Share

LEMMA SpawnKeeps ==
  ASSUME Typed, Orderly, Spawn
  PROVE  Orderly'
<1>1. op.at = "spawn" /\ op.result = "none" /\ container' = container
  BY DEF Spawn, OpAt, Orderly, Concluded
<1>2. ~Running(0)
  BY <1>1 DEF Orderly, Cleared, SeenDown
<1>3. CASE End("failed") /\ UNCHANGED serve
  BY <1>1, <1>3, EndKeeps
<1>4. ASSUME NEW s \in Launches, Goto(s, "check", 0),
             op' = [op EXCEPT !.at = "wait", !.serve = s]
      PROVE  Orderly'
  <2>1. /\ op'.at = "wait" /\ op'.serve = s /\ op'.result = "none"
    BY <1>1, <1>4 DEF Typed, OpType
  <2>2. /\ serve'[s] = [at |-> "check", node |-> 0]
        /\ \A r \in Launches \ {s} : serve'[r] = serve[r]
    BY <1>4 DEF Goto, Typed, ServeType
  <2>3. \A r \in Launches : ~Preparing(r)
    BY <1>1 DEF Orderly, Alone
  <2>4. Alone'
    BY <1>1, <1>2, <2>1, <2>2, <2>3 DEF Alone, Preparing, Running
  <2>5. Ours'
    BY <2>2, <2>3 DEF Ours, At, Preparing
  <2>6. Cleared' /\ OneGroup' /\ Mine' /\ Gone' /\ Concluded'
    BY <1>1, <1>2, <2>1 DEF Cleared, SeenDown, OneGroup, Mine, Gone, Concluded, Running
  <2>7. QED
    BY <2>4, <2>5, <2>6 DEF Orderly
<1>5. QED
  BY <1>3, <1>4 DEF Spawn

\* The wait ends with a head that answers: the one that was spawned for it, so
\* its serve prepares no more.
LEMMA HealthKeeps ==
  ASSUME Typed, Orderly, Health
  PROVE  Orderly'
<1>1. op.at = "wait" /\ op.result = "none" /\ UNCHANGED <<container, serve>> /\ Running(0)
  BY DEF Health, OpAt, OnlyOp, Orderly, Concluded, Serving, Running
<1>2. /\ op'.cmd = op.cmd /\ op'.at = "verify" /\ op'.node = 0 /\ op'.serve = op.serve
      /\ op'.result = op.result
  BY DEF Health, Typed, OpType
<1>3. \A s \in Launches : ~Preparing(s)
  BY <1>1 DEF Orderly, Alone
<1>4. container[0].launch = op.serve
  BY <1>1 DEF Orderly, Mine
<1>5. Cleared' /\ Mine' /\ Gone' /\ Concluded'
  BY <1>1, <1>2, <1>4 DEF Cleared, SeenDown, Mine, Gone, Concluded
<1>6. QED
  BY <1>1, <1>2, <1>3, <1>5, MoveKeeps

LEMMA GiveUpKeeps ==
  ASSUME Typed, Orderly, GiveUp, Patient'
  PROVE  Orderly'
<1>1. op.at = "wait" /\ End("failed") /\ UNCHANGED <<container, serve>>
  BY DEF GiveUp, OpAt
<1>2. ~Preparing(op.serve)
  BY DEF GiveUp, Patient, Typed, SpentType
<1>3. \A s \in Launches : ~Preparing(s)
  BY <1>2 DEF Orderly, Alone
<1>4. QED
  BY <1>1, <1>3, EndKeeps

LEMMA VerifyKeeps ==
  ASSUME Typed, Orderly, Verify
  PROVE  Orderly'
<1>1. op.at = "verify" /\ op.result = "none" /\ UNCHANGED <<container, serve>>
  BY DEF Verify, OpAt, OnlyOp, Orderly, Concluded
<1>2. op.node \in 0 .. Workers + 1
  BY DEF Typed, OpType
<1>3. CASE /\ op.node \in Nodes /\ Running(op.node)
           /\ op' = [op EXCEPT !.node = @ + 1,
                        !.launch = IF op.node = 0 THEN container[0].launch ELSE @]
  <2>1. /\ op'.cmd = op.cmd /\ op'.at = "verify" /\ op'.node = op.node + 1
        /\ op'.serve = op.serve /\ op'.result = op.result
        /\ op'.launch = IF op.node = 0 THEN container[0].launch ELSE op.launch
    BY <1>1, <1>3 DEF Typed, OpType
  <2>2. op'.launch = op.serve
    BY <1>1, <1>2, <1>3, <2>1 DEF Orderly, Mine
  <2>3. Mine'
    BY <1>1, <2>1, <2>2 DEF Mine, Orderly, Running
  <2>4. Cleared' /\ Gone' /\ Concluded'
    BY <1>1, <2>1 DEF Cleared, SeenDown, Gone, Concluded
  <2>5. QED
    BY <1>1, <2>1, <2>3, <2>4, MoveKeeps
<1>4. CASE op.node \notin Nodes /\ End("ready")
  <2>1. op.node > 0
    BY <1>2, <1>4, NodeFacts
  <2>2. op.launch = op.serve
    BY <1>1, <2>1 DEF Orderly, Mine
  <2>3. QED
    BY <1>1, <1>4, <2>2, EndKeeps
<1>5. CASE End("failed")
  BY <1>1, <1>5, EndKeeps
<1>6. QED
  BY <1>3, <1>4, <1>5 DEF Verify

\* A reboot of the head ends its container, every serve and the command.
LEMMA RebootKeeps ==
  ASSUME Typed, Orderly, Reboot
  PROVE  Orderly'
<1>1. /\ op'.cmd = "boot" /\ op'.at = "probe" /\ op'.result = "none"
  BY DEF Reboot
<1>2. ~Running(0)'
  BY NodeFacts DEF Reboot, Typed, ContainerType, Running
<1>3. \A s \in Launches : serve'[s].at \in {"idle", "dead"}
  BY DEF Reboot, At
<1>4. Alone' /\ Ours'
  BY <1>3 DEF Alone, Ours, Preparing, At
<1>5. Cleared' /\ OneGroup' /\ Mine' /\ Gone' /\ Concluded'
  BY <1>1, <1>2 DEF Cleared, OneGroup, Mine, Gone, Concluded
<1>6. QED
  BY <1>4, <1>5 DEF Orderly

-----------------------------------------------------------------------------

LEMMA LaunchInitInv == Init => LaunchInv
  BY InitTyped, InitOrderly DEF LaunchInv

\* A wait that was given up in haste stays given up.
LEMMA HasteCounts ==
  ASSUME Typed, Next, Patient'
  PROVE  Patient
<1>1. spent.hasty \in Nat
  BY DEF Typed, SpentType
<1>2. spent'.hasty = spent.hasty \/ spent'.hasty = spent.hasty + 1
  <2>1. CASE GiveUp
    BY <1>1, <2>1 DEF GiveUp, Typed, SpentType
  <2>2. CASE \E s \in Launches : ServeStep(s)
    BY <2>2 DEF ServeStep, CheckGPU, Prepare, Clean, Push, StartNode, Poll, Typed, SpentType
  <2>3. CASE Reboot \/ \E cmd \in {"start", "stop", "restart"} : Issue(cmd)
    BY <2>3 DEF Reboot, Issue, Typed, SpentType
  <2>4. CASE Form \/ SmokePasses \/ PrintBanner \/ \E n \in Nodes : Load(n) \/ Exit(n)
    BY <2>4 DEF Form, SmokePasses, PrintBanner, Load, Exit
  <2>5. CASE Probe \/ Stop \/ Leftovers \/ Preflight \/ Share \/ Spawn \/ Health \/ Verify
    BY <2>5 DEF Probe, Stop, Leftovers, Preflight, Share, Spawn, Health, Verify, OnlyOp
  <2>6. QED
    BY <2>1, <2>2, <2>3, <2>4, <2>5 DEF Next, OpStep
<1>3. QED
  BY <1>1, <1>2 DEF Patient

LEMMA LaunchNextInv ==
  ASSUME 0 \notin Stubborn, LaunchInv, [Next]_vars
  PROVE  LaunchInv'
<1>1. CASE UNCHANGED vars
  BY <1>1 DEF vars, LaunchInv, Typed, Patient, Orderly, Alone, Cleared, SeenDown, Ours,
              OneGroup, Mine, Gone, Concluded, Preparing, At, Running
<1>2. CASE Next
  <2>1. Typed /\ (Patient => Orderly)
    BY DEF LaunchInv
  <2>2. Typed'
    BY <1>2, <2>1, EnginesTyped, ServeTyped, CommandTyped DEF Next
  <2>3. ASSUME Patient' PROVE Orderly'
    <3>1. Orderly
      BY <1>2, <2>1, <2>3, HasteCounts
    <3>2. CASE Form \/ SmokePasses \/ PrintBanner \/ \E n \in Nodes : Load(n) \/ Exit(n)
      BY <2>1, <3>1, <3>2, EnginesKeep
    <3>3. CASE \E s \in Launches : ServeStep(s)
      BY <2>1, <3>1, <3>3, ServeKeeps
    <3>4. CASE \E cmd \in {"start", "stop", "restart"} : Issue(cmd)
      BY <2>1, <3>1, <3>4, IssueKeeps
    <3>5. CASE OpStep
      BY <2>1, <2>3, <3>1, <3>5, ProbeKeeps, StopKeeps, LeftoversKeep, PreflightKeeps,
         ShareKeeps, SpawnKeeps, HealthKeeps, GiveUpKeeps, VerifyKeeps DEF OpStep
    <3>6. CASE Reboot
      BY <2>1, <3>1, <3>6, RebootKeeps
    <3>7. QED
      BY <1>2, <3>2, <3>3, <3>4, <3>5, <3>6 DEF Next
  <2>4. QED
    BY <2>2, <2>3 DEF LaunchInv
<1>3. QED
  BY <1>1, <1>2

\* The promises of a serve and of the commands keep together, whatever the order.
THEOREM LaunchInvariant ==
  ASSUME 0 \notin Stubborn
  PROVE  Spec => []LaunchInv
<1>1. LaunchInv /\ [Next]_vars => LaunchInv'
  BY LaunchNextInv
<1>2. QED
  BY <1>1, LaunchInitInv, PTL DEF Spec

\* Whatever lost removals and earlier launches left on the workers, the ranks
\* that serve together were started by one start.sh serve.
THEOREM OneLaunchHolds ==
  ASSUME 0 \notin Stubborn
  PROVE  Spec => []OneLaunch
<1>1. LaunchInv => OneLaunch
  BY DEF LaunchInv, Orderly, OneGroup, OneLaunch, Serving, Running
<1>2. QED
  BY <1>1, LaunchInvariant, PTL

\* svc.sh announces the launch that this very command started.
THEOREM AnnouncedIsMineHolds ==
  ASSUME 0 \notin Stubborn
  PROVE  Spec => []AnnouncedIsMine
<1>1. LaunchInv => AnnouncedIsMine
  BY DEF LaunchInv, Orderly, Mine, AnnouncedIsMine
<1>2. QED
  BY <1>1, LaunchInvariant, PTL

\* When svc.sh stop says that everything is stopped, whatever still runs, or comes
\* up before the next command, is on a worker this stop could not reach.
THEOREM StopIsCleanHolds ==
  ASSUME 0 \notin Stubborn
  PROVE  Spec => []StopIsClean
<1>1. LaunchInv => StopIsClean
  BY DEF LaunchInv, Orderly, Gone, StopIsClean
<1>2. QED
  BY <1>1, LaunchInvariant, PTL

\* No serve removes a head that runs.
THEOREM NoTakeoverHolds ==
  ASSUME 0 \notin Stubborn
  PROVE  Spec => NoTakeover
<1>1. LaunchInv /\ [Next]_vars =>
        [Patient => \A s \in Launches :
           At(s, "clean") /\ At(s, "clean")' /\ serve[s].node = 0 => ~Running(0)]_serve
  BY DEF LaunchInv, Orderly, Alone, Preparing, At
<1>2. QED
  BY <1>1, LaunchInvariant, PTL DEF Spec, NoTakeover
===============================================================================
