-------------------------------- MODULE IoPool --------------------------------
(***************************************************************************)
(* The process-wide thread pool that services Engram row lookups           *)
(* (class Pool in fleet/adapter/row_store.cpp).                            *)
(*                                                                         *)
(* A caller publishes a piece of work under mutex_, wakes the workers and  *)
(* drains tickets together with them; it returns when every chunk is       *)
(* handled and every worker that joined has left.  Callers are serialised  *)
(* by caller_.  Each lock-protected section is one step, except that a     *)
(* condition-variable wait that finds its predicate false holds mutex_     *)
(* between the test and the moment it sleeps (Block): the section in which *)
(* a notification sent without the lock would be lost.                     *)
(*                                                                         *)
(* The pool lives until the process exits (a leaked static), so stop_ is   *)
(* never set and the destructor is not modelled.                           *)
(***************************************************************************)
EXTENDS Integers, FiniteSets

CONSTANTS
  Workers,      \* the threads the pool starts
  Callers,      \* the threads that call row_store_lookup
  Counts,       \* numbers of ids a work may hold (the dispatch sends >= 8)
  Chunk,        \* kChunk: ids per ticket
  MaxJobs,      \* bound: how many works are ever submitted
  MaxSpurious,  \* bound: how many spurious wakeups happen
  NoThread      \* a lock nobody holds

ASSUME PoolAssumption ==
  /\ IsFiniteSet(Workers)
  /\ Workers \cap Callers = {}
  /\ NoThread \notin Workers \cup Callers
  /\ Counts \subseteq Nat \ {0}
  /\ Chunk \in Nat \ {0}
  /\ MaxJobs \in Nat
  /\ MaxSpurious \in Nat

VARIABLES
  caller,       \* caller_: who is inside run()
  mutex,        \* mutex_, where it is held across steps
  job,          \* job_: the published work, 0 for nullptr
  next,         \* next_: the ticket counter
  chunks,       \* chunks_: tickets of the published work
  remaining,    \* remaining_: tickets not retired yet
  active,       \* active_: workers inside drain()
  generation,   \* generation_: also names the work of the n-th run()
  seen,         \* each worker's last generation
  pc,           \* where each thread is
  work,         \* the Work each thread holds a pointer to
  ticket,       \* the ticket each thread is serving
  count,        \* Work.count of each run
  served,       \* history: tickets of each run whose ids were served
  spurious      \* how many spurious wakeups happened

vars == <<caller, mutex, job, next, chunks, remaining, active, generation,
          seen, pc, work, ticket, count, served, spurious>>

\* What only drain() changes, and what only publishing and waiting change.
tickets == <<next, remaining, ticket, served>>
locks == <<caller, mutex, job, chunks, active, generation, seen, work, count>>

Threads == Workers \cup Callers
Jobs == 1 .. MaxJobs

\* Stages of drain(), and of a worker from the moment it is counted.
Draining == {"claim", "serve", "retire", "signal"}
Joined == Draining \cup {"leave"}

-----------------------------------------------------------------------------

\* Mutant: the last, partial chunk gets no ticket.
ChunksOfFloor(n) == n \div Chunk

\* run(): the number of tickets a work of n ids is cut into.
ChunksOf(n) == (n + Chunk - 1) \div Chunk

\* drain(): the ids a ticket stands for, begin .. min(begin + kChunk, count).
Span(k, n) == {i \in 0 .. n - 1 : k * Chunk <= i /\ i < (k + 1) * Chunk}

\* The ids of run g that were served.
Delivered(g) == UNION {Span(k, count[g]) : k \in served[g]}

Init ==
  /\ caller = NoThread
  /\ mutex = NoThread
  /\ job = 0
  /\ next = 0
  /\ chunks = 0
  /\ remaining = 0
  /\ active = 0
  /\ generation = 0
  /\ seen = [w \in Workers |-> 0]
  /\ pc = [t \in Threads |-> IF t \in Workers THEN "wait" ELSE "idle"]
  /\ work = [t \in Threads |-> 0]
  /\ ticket = [t \in Threads |-> 0]
  /\ count = [g \in Jobs |-> 0]
  /\ served = [g \in Jobs |-> {}]
  /\ spurious = 0

Goto(t, stage) == pc' = [pc EXCEPT ![t] = stage]

-----------------------------------------------------------------------------
(* run(), the caller's side. *)

\* Mutant: run() without the caller_ lock.
AcquireUnserialised(c) ==
  /\ pc[c] = "idle"
  /\ generation < MaxJobs
  /\ caller' = c
  /\ Goto(c, "publish")
  /\ UNCHANGED <<mutex, job, chunks, active, generation, seen, work, count,
                 tickets, spurious>>

\* lock_guard serialize(caller_)
Acquire(c) ==
  /\ pc[c] = "idle"
  /\ generation < MaxJobs
  /\ caller = NoThread
  /\ caller' = c
  /\ Goto(c, "publish")
  /\ UNCHANGED <<mutex, job, chunks, active, generation, seen, work, count,
                 tickets, spurious>>

\* The locked block that resets the counters and bumps the generation.
Publish(c, n) ==
  /\ pc[c] = "publish"
  /\ mutex = NoThread
  /\ job' = generation + 1
  /\ generation' = generation + 1
  /\ next' = 0
  /\ chunks' = ChunksOf(n)
  /\ remaining' = ChunksOf(n)
  /\ work' = [work EXCEPT ![c] = generation + 1]
  /\ count' = [count EXCEPT ![generation + 1] = n]
  /\ Goto(c, "notify")
  /\ UNCHANGED <<caller, mutex, active, seen, ticket, served, spurious>>

\* ready_.notify_all(), sent after mutex_ is released.
NotifyReady(c) ==
  /\ pc[c] = "notify"
  /\ pc' = [t \in Threads |->
              IF t = c THEN "claim"
              ELSE IF t \in Workers /\ pc[t] = "asleep" THEN "wait"
              ELSE pc[t]]
  /\ UNCHANGED <<locks, tickets, spurious>>

\* Mutant: run() waits for the chunks only, not for the workers to leave.
DoneIgnoringActive == remaining = 0

\* The predicate of done_.wait.
Done == remaining = 0 /\ active = 0

\* done_.wait finds its predicate true; job_ = nullptr.
Finish(c) ==
  /\ pc[c] = "await"
  /\ mutex = NoThread
  /\ Done
  /\ job' = 0
  /\ Goto(c, "return")
  /\ UNCHANGED <<caller, mutex, chunks, active, generation, seen, work, count,
                 tickets, spurious>>

\* done_.wait finds its predicate false.
AwaitDone(c) ==
  /\ pc[c] = "await"
  /\ mutex = NoThread
  /\ ~Done
  /\ mutex' = c
  /\ Goto(c, "block")
  /\ UNCHANGED <<caller, job, chunks, active, generation, seen, work, count,
                 tickets, spurious>>

\* run() returns and releases caller_.
Return(c) ==
  /\ pc[c] = "return"
  /\ caller' = NoThread
  /\ Goto(c, "idle")
  /\ UNCHANGED <<mutex, job, chunks, active, generation, seen, work, count,
                 tickets, spurious>>

-----------------------------------------------------------------------------
(* drain(), run by the caller and by every worker that joined. *)

\* Mutant: the bound is off by one (ticket > chunks_).
ClaimTicketPastEnd(t) ==
  /\ pc[t] = "claim"
  /\ next <= chunks
  /\ next' = next + 1
  /\ ticket' = [ticket EXCEPT ![t] = next]
  /\ Goto(t, "serve")
  /\ UNCHANGED <<locks, remaining, served, spurious>>

\* fetch_add returns a ticket below chunks_.
ClaimTicket(t) ==
  /\ pc[t] = "claim"
  /\ next < chunks
  /\ next' = next + 1
  /\ ticket' = [ticket EXCEPT ![t] = next]
  /\ Goto(t, "serve")
  /\ UNCHANGED <<locks, remaining, served, spurious>>

\* fetch_add returns a ticket past the end: drain() returns.
Exhausted(t) ==
  /\ pc[t] = "claim"
  /\ next >= chunks
  /\ next' = next + 1
  /\ Goto(t, IF t \in Callers THEN "await" ELSE "leave")
  /\ UNCHANGED <<locks, remaining, ticket, served, spurious>>

\* serve(work, begin, end)
Serve(t) ==
  /\ pc[t] = "serve"
  /\ served' = [served EXCEPT ![work[t]] = @ \cup {ticket[t]}]
  /\ Goto(t, "retire")
  /\ UNCHANGED <<locks, next, remaining, ticket, spurious>>

\* remaining_.fetch_sub(1): whoever retires the last ticket signals.
Retire(t) ==
  /\ pc[t] = "retire"
  /\ remaining' = remaining - 1
  /\ Goto(t, IF remaining = 1 THEN "signal" ELSE "claim")
  /\ UNCHANGED <<locks, next, ticket, served, spurious>>

\* done_.notify_one() by thread t, which goes on to its next stage.
NotifyDone(t, stage) ==
  LET sleepers == {c \in Callers : pc[c] = "asleep"}
  IN  \/ /\ sleepers = {}
         /\ Goto(t, stage)
      \/ \E c \in sleepers : pc' = [pc EXCEPT ![t] = stage, ![c] = "await"]

Signal(t) ==
  /\ pc[t] = "signal"
  /\ mutex = NoThread
  /\ NotifyDone(t, "claim")
  /\ UNCHANGED <<locks, tickets, spurious>>

-----------------------------------------------------------------------------
(* loop(), the worker's side. *)

\* Mutant: active_ is not incremented under the lock.
TakeJobUncounted(w) ==
  /\ pc[w] = "wait"
  /\ mutex = NoThread
  /\ generation # seen[w]
  /\ job # 0
  /\ seen' = [seen EXCEPT ![w] = generation]
  /\ work' = [work EXCEPT ![w] = job]
  /\ Goto(w, "claim")
  /\ UNCHANGED <<caller, mutex, job, chunks, active, generation, count, tickets,
                 spurious>>

\* ready_.wait sees a new generation with a work: joins it under mutex_.
TakeJob(w) ==
  /\ pc[w] = "wait"
  /\ mutex = NoThread
  /\ generation # seen[w]
  /\ job # 0
  /\ seen' = [seen EXCEPT ![w] = generation]
  /\ work' = [work EXCEPT ![w] = job]
  /\ active' = active + 1
  /\ Goto(w, "claim")
  /\ UNCHANGED <<caller, mutex, job, chunks, generation, count, tickets,
                 spurious>>

\* ready_.wait sees a new generation whose run() is over already.
MissedJob(w) ==
  /\ pc[w] = "wait"
  /\ mutex = NoThread
  /\ generation # seen[w]
  /\ job = 0
  /\ seen' = [seen EXCEPT ![w] = generation]
  /\ UNCHANGED <<caller, mutex, job, chunks, active, generation, work, count,
                 pc, tickets, spurious>>

\* ready_.wait finds nothing new.
AwaitJob(w) ==
  /\ pc[w] = "wait"
  /\ mutex = NoThread
  /\ generation = seen[w]
  /\ mutex' = w
  /\ Goto(w, "block")
  /\ UNCHANGED <<caller, job, chunks, active, generation, seen, work, count,
                 tickets, spurious>>

\* Mutant: the worker leaves and notifies without taking mutex_.
LeaveUnlocked(w) ==
  /\ pc[w] = "leave"
  /\ active' = active - 1
  /\ NotifyDone(w, "wait")
  /\ UNCHANGED <<caller, mutex, job, chunks, generation, seen, work, count,
                 tickets, spurious>>

\* The locked block after drain(): leave the count and notify the caller.
Leave(w) ==
  /\ pc[w] = "leave"
  /\ mutex = NoThread
  /\ active' = active - 1
  /\ NotifyDone(w, "wait")
  /\ UNCHANGED <<caller, mutex, job, chunks, generation, seen, work, count,
                 tickets, spurious>>

-----------------------------------------------------------------------------
(* Condition variables. *)

\* A wait whose predicate was false releases mutex_ and sleeps, atomically.
Block(t) ==
  /\ pc[t] = "block"
  /\ mutex' = NoThread
  /\ Goto(t, "asleep")
  /\ UNCHANGED <<caller, job, chunks, active, generation, seen, work, count,
                 tickets, spurious>>

\* A sleeper wakes with no notification and tests its predicate again.
Spurious(t) ==
  /\ pc[t] = "asleep"
  /\ spurious < MaxSpurious
  /\ spurious' = spurious + 1
  /\ Goto(t, IF t \in Callers THEN "await" ELSE "wait")
  /\ UNCHANGED <<locks, tickets>>

\* Every submitted work came back and the pool sleeps.
Quiescent ==
  /\ generation = MaxJobs
  /\ \A c \in Callers : pc[c] = "idle"
  /\ \A w \in Workers : pc[w] = "asleep"
  /\ UNCHANGED vars

-----------------------------------------------------------------------------

Drain(t) == ClaimTicket(t) \/ Exhausted(t) \/ Serve(t) \/ Retire(t) \/ Signal(t)

Run(c) ==
  \/ \E n \in Counts : Publish(c, n)
  \/ NotifyReady(c) \/ Finish(c) \/ AwaitDone(c) \/ Return(c)

Loop(w) == TakeJob(w) \/ MissedJob(w) \/ AwaitJob(w) \/ Leave(w)

Next ==
  \/ \E c \in Callers : Acquire(c) \/ Run(c)
  \/ \E w \in Workers : Loop(w)
  \/ \E t \in Threads : Drain(t) \/ Block(t) \/ Spurious(t)
  \/ Quiescent

Spec == Init /\ [][Next]_vars

\* Threads inside run() and workers that joined a work keep being scheduled.
\* Nothing is assumed of a worker that still waits for its wakeup.
Fairness ==
  /\ \A c \in Callers : WF_vars(Run(c))
  /\ \A t \in Threads : WF_vars(Drain(t)) /\ WF_vars(Block(t))
  /\ \A w \in Workers : WF_vars(Leave(w))

FairSpec == Spec /\ Fairness

-----------------------------------------------------------------------------
(* Properties. *)

TypeOK ==
  /\ caller \in Callers \cup {NoThread}
  /\ mutex \in Threads \cup {NoThread}
  /\ generation \in 0 .. MaxJobs
  /\ job \in 0 .. MaxJobs
  /\ next \in Nat
  /\ chunks \in Nat
  /\ remaining \in Nat
  /\ active \in Nat
  /\ seen \in [Workers -> 0 .. MaxJobs]
  /\ pc \in [Threads -> Joined \cup {"idle", "publish", "notify", "await",
                                     "return", "wait", "block", "asleep"}]
  /\ \A c \in Callers : pc[c] \notin {"wait", "leave"}
  /\ \A w \in Workers :
        pc[w] \notin {"idle", "publish", "notify", "await", "return"}
  /\ work \in [Threads -> 0 .. MaxJobs]
  /\ ticket \in [Threads -> Nat]
  /\ count \in [Jobs -> Nat]
  /\ served \in [Jobs -> SUBSET Nat]
  /\ spurious \in 0 .. MaxSpurious

\* run() comes back only when every id of its work was served: a caller that
\* is past the wait has the whole of 0 .. count-1 delivered, whatever the
\* division into chunks and whoever served them.
RunComplete ==
  \A c \in Callers :
     pc[c] = "return" => Delivered(work[c]) = 0 .. count[work[c]] - 1

\* A worker inside drain() works for the run that is published now: no worker
\* ever touches the Work of a call that returned, nor takes a ticket of the
\* next call with the pointer of the last one.
NoStaleWorker ==
  \A w \in Workers : pc[w] \in Joined => job # 0 /\ work[w] = job

\* The counters are only rewritten when nobody else is in drain(), so a plain
\* chunks_ and a relaxed reset of next_ are enough.
NoResetUnderDrain ==
  \A c \in Callers :
     pc[c] = "publish" => \A t \in Threads : pc[t] \notin Joined

\* No ticket is served twice: two threads never serve the same one and a
\* ticket being served was not served before.
ServedOnce ==
  \A t \in Threads : pc[t] = "serve" =>
     /\ ticket[t] \notin served[work[t]]
     /\ \A u \in Threads \ {t} :
           pc[u] = "serve" => ticket[u] # ticket[t] \/ work[u] # work[t]

\* The inductive invariant behind these: which caller is inside and what it
\* has published, what the joined workers hold, which tickets are out, and
\* what the two counters count.
CallerInv ==
  /\ \A c \in Callers : pc[c] # "idle" <=> caller = c
  /\ \A c \in Callers : pc[c] = "publish" => generation < MaxJobs
  /\ \A c \in Callers : pc[c] \notin {"idle", "publish"} =>
        /\ generation \in Jobs
        /\ work[c] = generation
        /\ job = IF pc[c] = "return" THEN 0 ELSE generation
  /\ job # 0 => caller # NoThread /\ pc[caller] \notin {"publish", "return"}

WorkerInv == \A w \in Workers : pc[w] \in Joined => job # 0 /\ work[w] = job

Holding(t) == pc[t] \in {"serve", "retire"}

TicketInv ==
  /\ \A t \in Threads : Holding(t) => ticket[t] < next /\ ticket[t] < chunks
  /\ \A t \in Threads : pc[t] = "serve" => ticket[t] \notin served[work[t]]
  /\ \A t, u \in Threads :
        Holding(t) /\ Holding(u) /\ ticket[t] = ticket[u] => t = u
  /\ \A g \in Jobs : g > generation => served[g] = {}

ServedInv ==
  job # 0 =>
    /\ chunks = ChunksOf(count[job])
    /\ \A k \in served[job] : k < next /\ k < chunks
    /\ \A k \in 0 .. chunks - 1 :
          \/ k >= next
          \/ k \in served[job]
          \/ \E t \in Threads : pc[t] = "serve" /\ ticket[t] = k

\* The tickets of the published work that nobody has retired.
Outstanding ==
  {k \in 0 .. chunks - 1 :
     k >= next \/ \E t \in Threads : Holding(t) /\ ticket[t] = k}

JoinedWorkers == {w \in Workers : pc[w] \in Joined}

CounterInv ==
  /\ remaining = Cardinality(Outstanding)
  /\ active = Cardinality(JoinedWorkers)

ReturnInv ==
  \A c \in Callers :
     pc[c] = "return" => served[work[c]] = 0 .. ChunksOf(count[work[c]]) - 1

\* The counters of the pool mean what run() takes them for: remaining_ is the
\* number of tickets not retired yet and active_ the number of workers in
\* drain(), with the tickets and the pointers behind them consistent.
PoolInv ==
  /\ TypeOK
  /\ CallerInv
  /\ WorkerInv
  /\ TicketInv
  /\ ServedInv
  /\ CounterInv
  /\ ReturnInv

\* Every call of run() comes back, even if no sleeping worker ever wakes up
\* ("the caller works too, so progress never depends on a wakeup").
RunReturns == \A c \in Callers : pc[c] = "publish" ~> pc[c] = "idle"

\* The pool implements a loop over the ids of one work at a time.
Loops == INSTANCE ParallelFor WITH
           owner <- IF job = 0 THEN NoThread ELSE caller,
           size <- IF job = 0 THEN 0 ELSE count[job],
           done <- IF job = 0 THEN {} ELSE Delivered(job)

\* Seen by its callers the pool is that loop: one work at a time, each id
\* handled once, and no return before all of them are.
ImplementsLoop == Loops!Spec
===============================================================================
