-------------------------------- MODULE Launch --------------------------------
(***************************************************************************)
(* Bringing the service up and down over the head and its workers:         *)
(* fleet/start.sh serve in the background, boot.py in every container,     *)
(* scripts/svc.sh start, stop and restart in front of them and             *)
(* scripts/svc-boot.sh after a reboot of the head.  Containers and serves  *)
(* run by themselves; one svc command runs at a time.  SKIP_SMOKE and      *)
(* FORCE have their defaults.                                              *)
(***************************************************************************)
EXTENDS Integers, FiniteSets

CONSTANTS Workers,      \* number of workers; node 0 is the head
          Serves,       \* number of start.sh serve processes ever spawned
          Commands,     \* bound: number of svc.sh commands issued
          RoCE,         \* NCCL_NET=IB: verify looks for the transport in the log
          Stubborn,     \* nodes whose container stop.sh may leave behind
          Unreachable,  \* workers that svc.sh may fail to reach by ssh
          Hasty,        \* bound: waits given up while the serve still prepares
          Lost,         \* bound: docker rm of a worker lost with its ssh
          Reboots       \* bound: reboots of the head

ASSUME LaunchAssumption ==
  /\ Workers \in Nat \ {0} /\ Serves \in Nat \ {0} /\ Commands \in Nat
  /\ RoCE \in BOOLEAN /\ Stubborn \subseteq 0 .. Workers
  /\ Unreachable \subseteq 1 .. Workers
  /\ Hasty \in Nat /\ Lost \in Nat /\ Reboots \in Nat

Nodes == 0 .. Workers
Launches == 1 .. Serves       \* a launch bears the number of its serve

VARIABLES container,  \* of a node: the launch of its dsv41 container, its stage
          smoked,     \* launches whose smoke request was answered right
          banner,     \* launches whose head logged "Ready: API on port"
          serve,      \* of a launch: where its start.sh is, and at which node
          op,         \* the svc.sh command: where it is and what it has seen
          spent       \* how much of each bound is used

vars == <<container, smoked, banner, serve, op, spent>>

NoContainer == [launch |-> 0, stage |-> "none"]
Running(n) == container[n].stage \in {"created", "loading", "serving"}
Serving == container[0].stage = "serving"      \* /health answers 200

Init ==
  /\ container = [n \in Nodes |-> NoContainer]
  /\ smoked = {} /\ banner = {}
  /\ serve = [s \in Launches |-> [at |-> "idle", node |-> 0]]
  /\ op = [cmd |-> "none", at |-> "done", node |-> 0, seen |-> FALSE,
           serve |-> 0, result |-> "none", launch |-> 0, blind |-> {}]
  /\ spent = [commands |-> 0, hasty |-> 0, lost |-> 0, reboots |-> 0]

-----------------------------------------------------------------------------
(* boot.py and the engine, inside the containers.                          *)

\* The engine's process comes up and takes the GPU.
Load(n) ==
  /\ container[n].stage = "created"
  /\ container' = [container EXCEPT ![n].stage = "loading"]
  /\ UNCHANGED <<smoked, banner, serve, op, spent>>

\* All ranks meet, load and capture; the head answers /health.
Form ==
  /\ \A n \in Nodes : container[n].stage = "loading"
  /\ container' = [n \in Nodes |-> [container[n] EXCEPT !.stage = "serving"]]
  /\ UNCHANGED <<smoked, banner, serve, op, spent>>

\* serve() of boot.py on the head, once /health answered: smoke(), which may
\* raise, then warmup() and the banner.
SmokePasses ==
  /\ Serving /\ container[0].launch \notin smoked
  /\ smoked' = smoked \cup {container[0].launch}
  /\ UNCHANGED <<container, banner, serve, op, spent>>

PrintBanner ==
  /\ Serving /\ container[0].launch \in smoked \ banner
  /\ banner' = banner \cup {container[0].launch}
  /\ UNCHANGED <<container, smoked, serve, op, spent>>

\* A container ends: its engine crashes, boot.py's smoke raises or its deadline
\* passes, or (a worker) its node is rebooted.
Exit(n) ==
  /\ Running(n)
  /\ container' = [container EXCEPT ![n].stage = "exited"]
  /\ UNCHANGED <<smoked, banner, serve, op, spent>>

-----------------------------------------------------------------------------
(* start.sh serve, one step per command that looks at or changes a node.   *)

At(s, at) == serve[s].at = at
Goto(s, at, node) == serve' = [serve EXCEPT ![s] = [at |-> at, node |-> node]]

\* _busy_gpu looks at the head only, and sees a container once it took the GPU.
Busy == container[0].stage \in {"loading", "serving"}

CheckGPU(s) ==
  /\ At(s, "check")
  /\ Goto(s, IF Busy THEN "dead" ELSE "prepare", 0)
  /\ UNCHANGED <<container, smoked, banner, op, spent>>

\* Images, share, key and GIDs; any of them may stop the serve.
Prepare(s) ==
  /\ At(s, "prepare")
  /\ \E at \in {"dead", "clean"} : Goto(s, at, 0)
  /\ UNCHANGED <<container, smoked, banner, op, spent>>

\* The head's container is removed first, then every worker's.
Clean(s) ==
  LET n == serve[s].node IN
  /\ At(s, "clean")
  /\ \/ /\ container' = [container EXCEPT ![n] = NoContainer]
        /\ UNCHANGED spent
     \/ /\ n # 0 /\ spent.lost < Lost
        /\ spent' = [spent EXCEPT !.lost = @ + 1]
        /\ UNCHANGED container
  /\ IF n = Workers THEN Goto(s, "push", 0) ELSE Goto(s, "clean", n + 1)
  /\ UNCHANGED <<smoked, banner, op>>

\* push_spec_tables: fatal when a worker cannot be reached.
Push(s) ==
  /\ At(s, "push")
  /\ \/ Goto(s, "dead", 0)
     \/ Goto(s, "start", 1)
  /\ UNCHANGED <<container, smoked, banner, op, spent>>

\* docker run --name needs the name, and an exited container still bears it.
NameFree(n) == container[n].stage = "none"

\* The workers in their order, the head last.
Started(s, n) == IF n = 0 THEN Goto(s, "poll", 0) ELSE Goto(s, "start", (n + 1) % (Workers + 1))

\* Mutant: docker run ... || true.
StartNodeOrTrue(s) ==
  LET n == serve[s].node IN
  /\ At(s, "start") /\ Started(s, n)
  /\ container' = IF NameFree(n)
                  THEN [container EXCEPT ![n] = [launch |-> s, stage |-> "created"]]
                  ELSE container
  /\ UNCHANGED <<smoked, banner, op, spent>>

\* set -e: a taken name, or a missing volume or device, ends the serve and
\* leaves what it started.
StartNode(s) ==
  LET n == serve[s].node IN
  /\ At(s, "start")
  /\ \/ /\ NameFree(n)
        /\ container' = [container EXCEPT ![n] = [launch |-> s, stage |-> "created"]]
        /\ Started(s, n)
     \/ /\ Goto(s, "dead", 0)
        /\ UNCHANGED container
  /\ UNCHANGED <<smoked, banner, op, spent>>

\* Mutant: without its timeout, start.sh waits for the banner or the head's end.
PollPatient(s) ==
  /\ At(s, "poll")
  /\ \/ container[0].launch \in banner /\ Goto(s, "up", 0)
     \/ container[0].launch \notin banner /\ ~Running(0) /\ Goto(s, "failed", 0)
  /\ UNCHANGED <<container, smoked, banner, op, spent>>

\* The log of whatever head there is, then its status, then the time.
Poll(s) ==
  /\ At(s, "poll")
  /\ \/ container[0].launch \in banner /\ Goto(s, "up", 0)
     \/ container[0].launch \notin banner /\ Goto(s, "failed", 0)
  /\ UNCHANGED <<container, smoked, banner, op, spent>>

ServeStep(s) ==
  CheckGPU(s) \/ Prepare(s) \/ Clean(s) \/ Push(s) \/ StartNode(s) \/ Poll(s)

-----------------------------------------------------------------------------
(* svc.sh: op.seen is what docker ps showed so far, op.blind the nodes     *)
(* cmd_stop could not reach, op.launch the launch whose API verify asked.  *)

OpAt(at) == op.at = at
End(result) == op' = [op EXCEPT !.at = "done", !.result = result]
OnlyOp == UNCHANGED <<container, smoked, banner, serve, spent>>

\* The steps of a command, in the order of its case branch.
First == [start |-> "preflight", stop |-> "stop", restart |-> "stop"]

Issue(cmd) ==
  /\ OpAt("done") /\ spent.commands < Commands
  /\ spent' = [spent EXCEPT !.commands = @ + 1]
  /\ op' = [cmd |-> cmd, at |-> First[cmd], node |-> 0, seen |-> FALSE,
            serve |-> 0, result |-> "none", launch |-> 0, blind |-> {}]
  /\ UNCHANGED <<container, smoked, banner, serve>>

\* svc-boot.sh: wait_ready, which may fail, /health, the head's own containers.
Probe ==
  /\ OpAt("probe")
  /\ \/ End("failed")
     \/ Serving /\ End("running")
     \/ ~Serving /\ op' = [op EXCEPT !.at = IF Running(0) THEN "stop" ELSE "preflight"]
  /\ OnlyOp

\* start.sh stop under timeout: what it leaves is looked at next.
Stop ==
  /\ OpAt("stop")
  /\ \E left \in SUBSET Stubborn :
       container' = [n \in Nodes |-> IF n \in left THEN container[n] ELSE NoContainer]
  /\ op' = [op EXCEPT !.at = "leftovers", !.node = 0, !.seen = FALSE, !.blind = {}]
  /\ UNCHANGED <<smoked, banner, serve, spent>>

\* Mutant: only the head is looked at.
LookHeadOnly(n) == [op EXCEPT !.node = n + 1, !.seen = @ \/ (n = 0 /\ Running(n))]

\* docker ps on a node that answers: running containers only.
Look(n) == [op EXCEPT !.node = n + 1, !.seen = @ \/ Running(n)]

\* cmd_stop takes the empty answer of a failed ssh for a node without
\* containers and without processes on its GPU.
SeesNothing(n) == [op EXCEPT !.node = n + 1, !.blind = @ \cup {n}]

\* cmd_stop's loop over the nodes; restart and svc-boot go on whatever it saw.
Leftovers ==
  /\ OpAt("leftovers")
  /\ \/ op.node \in Nodes /\ op' = Look(op.node)
     \/ op.node \in Unreachable /\ op' = SeesNothing(op.node)
     \/ /\ op.node \notin Nodes /\ op.cmd = "stop"
        /\ End(IF op.seen THEN "left" ELSE "clean")
     \/ /\ op.node \notin Nodes /\ op.cmd # "stop"
        /\ op' = [op EXCEPT !.at = "preflight", !.node = 0, !.seen = FALSE, !.blind = {}]
  /\ OnlyOp

\* Mutant: a running service does not keep start from going on.
RefusedNever == FALSE

\* start (and svc-boot's start) stop at a running service; restart does not.
Refused == op.seen /\ op.cmd # "restart"

\* preflight compares the answer with "0": what a failed ssh leaves empty is
\* taken for a running service.
SeesService(n) == [op EXCEPT !.node = n + 1, !.seen = TRUE]

\* preflight over the nodes; a failed check of kernel, GPU or ports ends it.
Preflight ==
  /\ OpAt("preflight")
  /\ \/ op.node \in Nodes /\ op' = Look(op.node)
     \/ op.node \in Unreachable /\ op' = SeesService(op.node)
     \/ /\ op.node \notin Nodes
        /\ IF Refused THEN End("refused") ELSE op' = [op EXCEPT !.at = "share"]
     \/ End("failed")
  /\ OnlyOp

Share ==
  /\ OpAt("share")
  /\ \/ End("failed")
     \/ op' = [op EXCEPT !.at = "spawn"]
  /\ OnlyOp

\* do_serve spawns start.sh serve and leaves it to itself.
Spawn ==
  /\ OpAt("spawn")
  /\ \/ \E s \in Launches :
          /\ At(s, "idle") /\ \A j \in 1 .. s - 1 : ~At(j, "idle")
          /\ Goto(s, "check", 0)
          /\ op' = [op EXCEPT !.at = "wait", !.serve = s]
     \/ /\ \A s \in Launches : ~At(s, "idle")     \* the bound on serves
        /\ End("failed") /\ UNCHANGED serve
  /\ UNCHANGED <<container, smoked, banner, spent>>

Health ==
  /\ OpAt("wait") /\ Serving
  /\ op' = [op EXCEPT !.at = "verify", !.node = 0, !.seen = FALSE]
  /\ OnlyOp

\* The serve has not yet started its head.
Preparing(s) == serve[s].at \in {"check", "prepare", "clean", "push", "start"}

\* Mutant: only the end of the head's container ends the wait.
GiveUpNever ==
  /\ OpAt("wait") /\ ~Preparing(op.serve) /\ ~Running(0)
  /\ End("failed")
  /\ OnlyOp

\* The time is up, the log shows an exception or, after 40 s, the head's
\* container is not there; the serve goes on by itself in any case.
GiveUp ==
  /\ OpAt("wait")
  /\ Preparing(op.serve) => spent.hasty < Hasty
  /\ spent' = [spent EXCEPT !.hasty = IF Preparing(op.serve) THEN @ + 1 ELSE @]
  /\ End("failed")
  /\ UNCHANGED <<container, smoked, banner, serve>>

\* The log holds the transport's lines once the serve follows its head.
TransportSeen == RoCE => serve[op.serve].at \in {"poll", "up", "failed"}

\* verify: the API, the containers node by node, the transport; the nonce only
\* warns.  docker's health lags, so a running container may still fail.
Verify ==
  /\ OpAt("verify")
  /\ \/ /\ op.node \in Nodes /\ Running(op.node) /\ (op.node = 0 => Serving)
        /\ op' = [op EXCEPT !.node = @ + 1,
                            !.launch = IF op.node = 0 THEN container[0].launch ELSE @]
     \/ /\ op.node \notin Nodes /\ TransportSeen
        /\ End("ready")
     \/ End("failed")
  /\ OnlyOp

\* The head reboots: its container, its serves and the command end (docker runs
\* it with --restart=no) and svc-boot.sh begins.
Reboot ==
  /\ spent.reboots < Reboots
  /\ spent' = [spent EXCEPT !.reboots = @ + 1]
  /\ container' = [container EXCEPT ![0].stage = IF Running(0) THEN "exited" ELSE @]
  /\ serve' = [s \in Launches |-> IF At(s, "idle") THEN serve[s] ELSE [at |-> "dead", node |-> 0]]
  /\ op' = [cmd |-> "boot", at |-> "probe", node |-> 0, seen |-> FALSE,
            serve |-> 0, result |-> "none", launch |-> 0, blind |-> {}]
  /\ UNCHANGED <<smoked, banner>>

OpStep ==
  Probe \/ Stop \/ Leftovers \/ Preflight \/ Share \/ Spawn \/ Health \/ GiveUp \/ Verify

Next ==
  \/ \E n \in Nodes : Load(n) \/ Exit(n)
  \/ Form \/ SmokePasses \/ PrintBanner
  \/ \E s \in Launches : ServeStep(s)
  \/ \E cmd \in {"start", "stop", "restart"} : Issue(cmd)
  \/ OpStep
  \/ Reboot

Spec == Init /\ [][Next]_vars

\* Shells go on with their scripts: each loop of theirs is bounded by a count
\* or a clock.  Nothing is assumed of engines, nodes or users.
FairSpec == Spec /\ WF_vars(OpStep) /\ \A s \in Launches : WF_vars(ServeStep(s))

-----------------------------------------------------------------------------
\* No wait was given up while its serve still prepared: such a serve goes on in
\* the background and may remove what a later command started.
Patient == spent.hasty = 0

\* The ranks that serve together were started by one start.sh serve: what a
\* lost removal or an earlier launch left on a worker never joins the group.
OneLaunch ==
  Patient /\ Serving => \A n \in Nodes :
    container[n].launch \in {0, container[0].launch}

\* A serve never removes a head that runs: the checks of svc.sh and of start.sh
\* are made long before the removal, and nothing starts a head in between.
NoTakeover ==
  [][Patient => \A s \in Launches :
       At(s, "clean") /\ At(s, "clean")' /\ serve[s].node = 0 => ~Running(0)]_serve

\* What svc.sh announces as ready is the launch this command started, not the
\* service that was to be replaced.
AnnouncedIsMine == Patient /\ op.result = "ready" => op.launch = op.serve

\* When svc.sh stop says that everything is stopped, an engine container runs,
\* or comes up before the next command, on no node but one it did not reach:
\* such a node counts as empty, although stop is to check every one (svc.sh 16).
StopIsClean ==
  Patient /\ op.cmd = "stop" /\ op.result = "clean" =>
    \A n \in Nodes : Running(n) => n \in op.blind

\* Every start.sh serve comes to an end, up or not, however the engines behave.
ServeEnds == \A s \in Launches : At(s, "check") ~> serve[s].at \in {"up", "failed", "dead"}

\* Every command of svc.sh and every boot comes to an end.
CommandEnds == ~OpAt("done") ~> OpAt("done")
===============================================================================
