----------------------------- MODULE IoPoolProofs -----------------------------
(***************************************************************************)
(* Proofs about the thread pool, for every number of workers, callers,     *)
(* works and ids and every chunk size: the inductive invariant PoolInv,    *)
(* one lemma per conjunct with one step per action; the safety properties  *)
(* that follow from it; the arithmetic of chunks; and the refinement of    *)
(* ParallelFor.                                                            *)
(***************************************************************************)
EXTENDS IoPool, FiniteSetTheorems, TLAPS

USE PoolAssumption

\* The number of tickets of a work is a natural number.
LEMMA ChunksOfType == \A n \in Nat : ChunksOf(n) \in Nat
  BY DEF ChunksOf

\* The tickets nobody retired are finitely many.
LEMMA OutstandingFinite ==
  ASSUME chunks \in Nat
  PROVE  IsFiniteSet(Outstanding)
<1>1. IsFiniteSet(0 .. chunks - 1)
  BY FS_Interval
<1>2. Outstanding \subseteq 0 .. chunks - 1
  BY DEF Outstanding
<1>3. QED
  BY <1>1, <1>2, FS_Subset

\* The workers inside drain() are finitely many.
LEMMA JoinedFinite == IsFiniteSet(JoinedWorkers)
  BY FS_Subset DEF JoinedWorkers

\* The tickets 0 .. n-1 are n.
LEMMA IntervalCardinality ==
  ASSUME NEW n \in Nat
  PROVE  Cardinality(0 .. n - 1) = n
<1>1. Cardinality(0 .. n - 1) = IF 0 > n - 1 THEN 0 ELSE (n - 1) - 0 + 1
  BY FS_Interval
<1>2. QED
  BY <1>1

\* Taking one element out of a finite set lowers its size by one.
LEMMA RemoveOne ==
  ASSUME NEW S, IsFiniteSet(S), NEW x \in S
  PROVE  Cardinality(S \ {x}) = Cardinality(S) - 1
  BY FS_RemoveElement

\* The pool starts in the invariant.
LEMMA InitPoolInv == Init => PoolInv
<1> SUFFICES ASSUME Init PROVE PoolInv
  OBVIOUS
<1> USE DEF Init
<1>1. TypeOK
  BY DEF TypeOK, Jobs, Threads, Joined, Draining
<1>2. CallerInv
  BY DEF CallerInv, Threads
<1>3. WorkerInv
  BY DEF WorkerInv, Threads, Joined, Draining
<1>4. TicketInv
  BY DEF TicketInv, Holding, Threads
<1>5. ServedInv
  BY DEF ServedInv
<1>6. CounterInv
  <2>1. Outstanding = {} /\ JoinedWorkers = {}
    BY DEF Outstanding, JoinedWorkers, Threads, Joined, Draining
  <2>2. QED
    BY <2>1, FS_EmptySet DEF CounterInv
<1>7. ReturnInv
  BY DEF ReturnInv, Threads
<1>8. QED
  BY <1>1, <1>2, <1>3, <1>4, <1>5, <1>6, <1>7 DEF PoolInv

\* A thread inside drain() works on the published job.
LEMMA DrainsCurrentJob ==
  ASSUME PoolInv, NEW t \in Threads, pc[t] \in Draining
  PROVE  job \in Jobs /\ job = generation /\ work[t] = job
<1> USE DEF PoolInv, TypeOK, CallerInv, WorkerInv, Threads, Jobs, Joined,
            Draining
<1>1. CASE t \in Callers
  BY <1>1
<1>2. CASE t \in Workers
  <2>1. job # 0 /\ work[t] = job
    BY <1>2
  <2>2. caller \in Callers /\ pc[caller] \notin {"idle", "publish", "return"}
    BY <2>1
  <2>3. QED
    BY <2>1, <2>2
<1>3. QED
  BY <1>1, <1>2

\* Whoever is about to retire a ticket finds remaining_ positive.
LEMMA RetirePositive ==
  ASSUME PoolInv, NEW t \in Threads, pc[t] = "retire"
  PROVE  remaining > 0
<1> USE DEF PoolInv, TypeOK
<1>1. ticket[t] \in Outstanding
  BY DEF TicketInv, Holding, Outstanding, Threads
<1>2. remaining # 0
  BY <1>1, OutstandingFinite, FS_EmptySet DEF CounterInv
<1>3. QED
  BY <1>2

\* A worker inside drain() is counted.
LEMMA JoinedPositive ==
  ASSUME PoolInv, NEW w \in Workers, pc[w] \in Joined
  PROVE  active > 0
<1> USE DEF PoolInv, TypeOK
<1>1. w \in JoinedWorkers
  BY DEF JoinedWorkers
<1>2. active # 0
  BY <1>1, JoinedFinite, FS_EmptySet DEF CounterInv
<1>3. QED
  BY <1>2

\* With active_ at 0 no worker is inside drain().
LEMMA NobodyJoined ==
  ASSUME PoolInv, active = 0
  PROVE  \A w \in Workers : pc[w] \notin Joined
  BY JoinedPositive DEF PoolInv, TypeOK

\* When remaining_ is 0 every ticket of the published work was served.
LEMMA AllServed ==
  ASSUME PoolInv, job # 0, remaining = 0
  PROVE  job \in Jobs /\ served[job] = 0 .. chunks - 1
<1>1. /\ job \in Jobs /\ chunks \in Nat /\ next \in Nat
      /\ served \in [Jobs -> SUBSET Nat]
  BY DEF PoolInv, TypeOK, Jobs
<1>2. Outstanding = {}
  BY <1>1, OutstandingFinite, FS_EmptySet DEF PoolInv, CounterInv
<1>3. ASSUME NEW k \in 0 .. chunks - 1 PROVE k \in served[job]
  <2>1. k \notin Outstanding
    BY <1>2
  <2>2. k < next /\ ~ \E t \in Threads : Holding(t) /\ ticket[t] = k
    BY <1>1, <2>1 DEF Outstanding
  <2>3. QED
    BY <1>1, <2>2 DEF PoolInv, ServedInv, Holding
<1>4. ASSUME NEW k \in served[job] PROVE k \in 0 .. chunks - 1
  BY <1>1, <1>4 DEF PoolInv, ServedInv
<1>5. QED
  BY <1>1, <1>3, <1>4

\* Every step keeps the variables in their types.
LEMMA TypeStep ==
  ASSUME PoolInv, [Next]_vars
  PROVE  TypeOK'
<1>d. \A t \in Threads : pc[t] \in Draining =>
        job \in Jobs /\ job = generation /\ work[t] = job
  BY DrainsCurrentJob
<1>r. \A t \in Threads : pc[t] = "retire" => remaining > 0
  BY RetirePositive
<1>j. \A w \in Workers : pc[w] \in Joined => active > 0
  BY JoinedPositive
<1> USE DEF PoolInv, TypeOK, CallerInv, Threads, Jobs, Joined, Draining, Goto,
            locks, tickets
<1>1. ASSUME NEW c \in Callers, Acquire(c) PROVE TypeOK'
  BY <1>1 DEF Acquire
<1>2. ASSUME NEW c \in Callers, NEW n \in Counts, Publish(c, n) PROVE TypeOK'
  <2>1. generation + 1 \in Jobs /\ n \in Nat /\ ChunksOf(n) \in Nat
    BY <1>2, ChunksOfType DEF Publish
  <2>2. QED
    BY <1>2, <2>1 DEF Publish
<1>3. ASSUME NEW c \in Callers, NotifyReady(c) PROVE TypeOK'
  BY <1>3 DEF NotifyReady
<1>4. ASSUME NEW c \in Callers, Finish(c) PROVE TypeOK'
  BY <1>4 DEF Finish
<1>5. ASSUME NEW c \in Callers, AwaitDone(c) PROVE TypeOK'
  BY <1>5 DEF AwaitDone
<1>6. ASSUME NEW c \in Callers, Return(c) PROVE TypeOK'
  BY <1>6 DEF Return
<1>7. ASSUME NEW w \in Workers, TakeJob(w) PROVE TypeOK'
  BY <1>7 DEF TakeJob
<1>8. ASSUME NEW w \in Workers, MissedJob(w) PROVE TypeOK'
  BY <1>8 DEF MissedJob
<1>9. ASSUME NEW w \in Workers, AwaitJob(w) PROVE TypeOK'
  BY <1>9 DEF AwaitJob
<1>10. ASSUME NEW w \in Workers, Leave(w) PROVE TypeOK'
  <2>1. active' \in Nat
    BY <1>10, <1>j DEF Leave
  <2>2. /\ pc' \in [Threads -> Joined \cup {"idle", "publish", "notify", "await",
                         "return", "wait", "block", "asleep"}]
        /\ \A c \in Callers : pc'[c] \notin {"wait", "leave"}
        /\ \A v \in Workers :
              pc'[v] \notin {"idle", "publish", "notify", "await", "return"}
    BY <1>10 DEF Leave, NotifyDone
  <2>3. QED
    BY <1>10, <2>1, <2>2 DEF Leave
<1>11. ASSUME NEW t \in Threads, ClaimTicket(t) PROVE TypeOK'
  BY <1>11 DEF ClaimTicket
<1>12. ASSUME NEW t \in Threads, Exhausted(t) PROVE TypeOK'
  BY <1>12 DEF Exhausted
<1>13. ASSUME NEW t \in Threads, Serve(t) PROVE TypeOK'
  BY <1>13, <1>d DEF Serve
<1>14. ASSUME NEW t \in Threads, Retire(t) PROVE TypeOK'
  BY <1>14, <1>r DEF Retire
<1>15. ASSUME NEW t \in Threads, Signal(t) PROVE TypeOK'
  BY <1>15 DEF Signal, NotifyDone
<1>16. ASSUME NEW t \in Threads, Block(t) PROVE TypeOK'
  BY <1>16 DEF Block
<1>17. ASSUME NEW t \in Threads, Spurious(t) PROVE TypeOK'
  BY <1>17 DEF Spurious
<1>18. CASE UNCHANGED vars
  BY <1>18 DEF vars
<1>19. QED
  BY <1>1, <1>2, <1>3, <1>4, <1>5, <1>6, <1>7, <1>8, <1>9, <1>10, <1>11,
     <1>12, <1>13, <1>14, <1>15, <1>16, <1>17, <1>18 DEF Next, Run, Loop,
     Drain, Quiescent

\* Every step keeps one caller inside run(), with the work it published.
LEMMA CallerStep ==
  ASSUME PoolInv, [Next]_vars
  PROVE  CallerInv'
<1> USE DEF PoolInv, TypeOK, CallerInv, Threads, Jobs, Joined, Draining, Goto,
            locks, tickets
<1>1. ASSUME NEW c \in Callers, Acquire(c) PROVE CallerInv'
  BY <1>1 DEF Acquire
<1>2. ASSUME NEW c \in Callers, NEW n \in Counts, Publish(c, n) PROVE CallerInv'
  BY <1>2 DEF Publish
<1>3. ASSUME NEW c \in Callers, NotifyReady(c) PROVE CallerInv'
  BY <1>3 DEF NotifyReady
<1>4. ASSUME NEW c \in Callers, Finish(c) PROVE CallerInv'
  BY <1>4 DEF Finish
<1>5. ASSUME NEW c \in Callers, AwaitDone(c) PROVE CallerInv'
  BY <1>5 DEF AwaitDone
<1>6. ASSUME NEW c \in Callers, Return(c) PROVE CallerInv'
  BY <1>6 DEF Return
<1>7. ASSUME NEW w \in Workers, TakeJob(w) PROVE CallerInv'
  BY <1>7 DEF TakeJob
<1>8. ASSUME NEW w \in Workers, MissedJob(w) PROVE CallerInv'
  BY <1>8 DEF MissedJob
<1>9. ASSUME NEW w \in Workers, AwaitJob(w) PROVE CallerInv'
  BY <1>9 DEF AwaitJob
<1>10. ASSUME NEW w \in Workers, Leave(w) PROVE CallerInv'
  BY <1>10 DEF Leave, NotifyDone
<1>11. ASSUME NEW t \in Threads, ClaimTicket(t) PROVE CallerInv'
  BY <1>11 DEF ClaimTicket
<1>12. ASSUME NEW t \in Threads, Exhausted(t) PROVE CallerInv'
  BY <1>12 DEF Exhausted
<1>13. ASSUME NEW t \in Threads, Serve(t) PROVE CallerInv'
  BY <1>13 DEF Serve
<1>14. ASSUME NEW t \in Threads, Retire(t) PROVE CallerInv'
  BY <1>14 DEF Retire
<1>15. ASSUME NEW t \in Threads, Signal(t) PROVE CallerInv'
  BY <1>15 DEF Signal, NotifyDone
<1>16. ASSUME NEW t \in Threads, Block(t) PROVE CallerInv'
  BY <1>16 DEF Block
<1>17. ASSUME NEW t \in Threads, Spurious(t) PROVE CallerInv'
  BY <1>17 DEF Spurious
<1>18. CASE UNCHANGED vars
  BY <1>18 DEF vars
<1>19. QED
  BY <1>1, <1>2, <1>3, <1>4, <1>5, <1>6, <1>7, <1>8, <1>9, <1>10, <1>11,
     <1>12, <1>13, <1>14, <1>15, <1>16, <1>17, <1>18 DEF Next, Run, Loop,
     Drain, Quiescent

\* Every step keeps the joined workers on the published work.
LEMMA WorkerStep ==
  ASSUME PoolInv, [Next]_vars
  PROVE  WorkerInv'
<1>n. active = 0 => \A w \in Workers : pc[w] \notin Joined
  BY NobodyJoined
<1> USE DEF PoolInv, TypeOK, CallerInv, Threads, Jobs, Joined, Draining, Goto,
            locks, tickets, WorkerInv
<1>1. ASSUME NEW c \in Callers, Acquire(c) PROVE WorkerInv'
  BY <1>1 DEF Acquire
<1>2. ASSUME NEW c \in Callers, NEW n \in Counts, Publish(c, n) PROVE WorkerInv'
  BY <1>2 DEF Publish
<1>3. ASSUME NEW c \in Callers, NotifyReady(c) PROVE WorkerInv'
  BY <1>3 DEF NotifyReady
<1>4. ASSUME NEW c \in Callers, Finish(c) PROVE WorkerInv'
  BY <1>4, <1>n DEF Finish, Done
<1>5. ASSUME NEW c \in Callers, AwaitDone(c) PROVE WorkerInv'
  BY <1>5 DEF AwaitDone
<1>6. ASSUME NEW c \in Callers, Return(c) PROVE WorkerInv'
  BY <1>6 DEF Return
<1>7. ASSUME NEW w \in Workers, TakeJob(w) PROVE WorkerInv'
  BY <1>7 DEF TakeJob
<1>8. ASSUME NEW w \in Workers, MissedJob(w) PROVE WorkerInv'
  BY <1>8 DEF MissedJob
<1>9. ASSUME NEW w \in Workers, AwaitJob(w) PROVE WorkerInv'
  BY <1>9 DEF AwaitJob
<1>10. ASSUME NEW w \in Workers, Leave(w) PROVE WorkerInv'
  BY <1>10 DEF Leave, NotifyDone
<1>11. ASSUME NEW t \in Threads, ClaimTicket(t) PROVE WorkerInv'
  BY <1>11 DEF ClaimTicket
<1>12. ASSUME NEW t \in Threads, Exhausted(t) PROVE WorkerInv'
  BY <1>12 DEF Exhausted
<1>13. ASSUME NEW t \in Threads, Serve(t) PROVE WorkerInv'
  BY <1>13 DEF Serve
<1>14. ASSUME NEW t \in Threads, Retire(t) PROVE WorkerInv'
  BY <1>14 DEF Retire
<1>15. ASSUME NEW t \in Threads, Signal(t) PROVE WorkerInv'
  BY <1>15 DEF Signal, NotifyDone
<1>16. ASSUME NEW t \in Threads, Block(t) PROVE WorkerInv'
  BY <1>16 DEF Block
<1>17. ASSUME NEW t \in Threads, Spurious(t) PROVE WorkerInv'
  BY <1>17 DEF Spurious
<1>18. CASE UNCHANGED vars
  BY <1>18 DEF vars
<1>19. QED
  BY <1>1, <1>2, <1>3, <1>4, <1>5, <1>6, <1>7, <1>8, <1>9, <1>10, <1>11,
     <1>12, <1>13, <1>14, <1>15, <1>16, <1>17, <1>18 DEF Next, Run, Loop,
     Drain, Quiescent

\* Every step keeps the tickets in hand distinct, in range and unserved
\* until their Serve.
LEMMA TicketStep ==
  ASSUME PoolInv, [Next]_vars
  PROVE  TicketInv'
<1>d. \A t \in Threads : pc[t] \in Draining =>
        job \in Jobs /\ job = generation /\ work[t] = job
  BY DrainsCurrentJob
<1> USE DEF PoolInv, TypeOK, CallerInv, Threads, Jobs, Joined, Draining, Goto,
            locks, tickets, WorkerInv, TicketInv, Holding
<1>1. ASSUME NEW c \in Callers, Acquire(c) PROVE TicketInv'
  BY <1>1 DEF Acquire
<1>2. ASSUME NEW c \in Callers, NEW n \in Counts, Publish(c, n) PROVE TicketInv'
  BY <1>2 DEF Publish
<1>3. ASSUME NEW c \in Callers, NotifyReady(c) PROVE TicketInv'
  BY <1>3 DEF NotifyReady
<1>4. ASSUME NEW c \in Callers, Finish(c) PROVE TicketInv'
  BY <1>4 DEF Finish
<1>5. ASSUME NEW c \in Callers, AwaitDone(c) PROVE TicketInv'
  BY <1>5 DEF AwaitDone
<1>6. ASSUME NEW c \in Callers, Return(c) PROVE TicketInv'
  BY <1>6 DEF Return
<1>7. ASSUME NEW w \in Workers, TakeJob(w) PROVE TicketInv'
  BY <1>7 DEF TakeJob
<1>8. ASSUME NEW w \in Workers, MissedJob(w) PROVE TicketInv'
  BY <1>8 DEF MissedJob
<1>9. ASSUME NEW w \in Workers, AwaitJob(w) PROVE TicketInv'
  BY <1>9 DEF AwaitJob
<1>10. ASSUME NEW w \in Workers, Leave(w) PROVE TicketInv'
  <2>1. CASE Goto(w, "wait")
    BY <1>10, <2>1 DEF Leave
  <2>2. ASSUME NEW c \in Callers, pc[c] = "asleep",
               pc' = [pc EXCEPT ![w] = "wait", ![c] = "await"]
        PROVE  TicketInv'
    BY <1>10, <2>2 DEF Leave
  <2>3. QED
    BY <1>10, <2>1, <2>2 DEF Leave, NotifyDone
<1>11. ASSUME NEW t \in Threads, ClaimTicket(t) PROVE TicketInv'
  <2>1. next \notin served[work[t]]
    BY <1>11, <1>d DEF ClaimTicket, ServedInv
  <2>2. QED
    BY <1>11, <2>1 DEF ClaimTicket
<1>12. ASSUME NEW t \in Threads, Exhausted(t) PROVE TicketInv'
  BY <1>12 DEF Exhausted
<1>13. ASSUME NEW t \in Threads, Serve(t) PROVE TicketInv'
  <2>1. job \in Jobs /\ job = generation /\ work[t] = job
    BY <1>13, <1>d DEF Serve
  <2>2. \A u \in Threads : Holding(u)' <=> Holding(u)
    BY <1>13 DEF Serve
  <2>3. \A u \in Threads : pc'[u] = "serve" => ticket'[u] \notin served'[work'[u]]
    BY <1>13, <2>1, <1>d DEF Serve
  <2>4. QED
    BY <1>13, <2>1, <2>2, <2>3 DEF Serve
<1>14. ASSUME NEW t \in Threads, Retire(t) PROVE TicketInv'
  BY <1>14 DEF Retire
<1>15. ASSUME NEW t \in Threads, Signal(t) PROVE TicketInv'
  <2>1. CASE Goto(t, "claim")
    BY <1>15, <2>1 DEF Signal
  <2>2. ASSUME NEW c \in Callers, pc[c] = "asleep",
               pc' = [pc EXCEPT ![t] = "claim", ![c] = "await"]
        PROVE  TicketInv'
    BY <1>15, <2>2 DEF Signal
  <2>3. QED
    BY <1>15, <2>1, <2>2 DEF Signal, NotifyDone
<1>16. ASSUME NEW t \in Threads, Block(t) PROVE TicketInv'
  BY <1>16 DEF Block
<1>17. ASSUME NEW t \in Threads, Spurious(t) PROVE TicketInv'
  BY <1>17 DEF Spurious
<1>18. CASE UNCHANGED vars
  BY <1>18 DEF vars
<1>19. QED
  BY <1>1, <1>2, <1>3, <1>4, <1>5, <1>6, <1>7, <1>8, <1>9, <1>10, <1>11,
     <1>12, <1>13, <1>14, <1>15, <1>16, <1>17, <1>18 DEF Next, Run, Loop,
     Drain, Quiescent

\* Every step keeps each ticket of the published work unclaimed, in hand or
\* served.
LEMMA ServedStep ==
  ASSUME PoolInv, [Next]_vars
  PROVE  ServedInv'
<1>d. \A t \in Threads : pc[t] \in Draining =>
        job \in Jobs /\ job = generation /\ work[t] = job
  BY DrainsCurrentJob
<1> USE DEF PoolInv, TypeOK, CallerInv, Threads, Jobs, Joined, Draining, Goto,
            locks, tickets, WorkerInv, TicketInv, ServedInv, Holding
<1>1. ASSUME NEW c \in Callers, Acquire(c) PROVE ServedInv'
  BY <1>1 DEF Acquire
<1>2. ASSUME NEW c \in Callers, NEW n \in Counts, Publish(c, n) PROVE ServedInv'
  <2>1. generation + 1 \in Jobs /\ n \in Nat /\ ChunksOf(n) \in Nat
    BY <1>2, ChunksOfType DEF Publish
  <2>2. served'[job'] = {} /\ chunks' = ChunksOf(count'[job']) /\ next' = 0
    BY <1>2, <2>1 DEF Publish
  <2>3. QED
    BY <1>2, <2>1, <2>2 DEF Publish
<1>3. ASSUME NEW c \in Callers, NotifyReady(c) PROVE ServedInv'
  BY <1>3 DEF NotifyReady
<1>4. ASSUME NEW c \in Callers, Finish(c) PROVE ServedInv'
  BY <1>4 DEF Finish
<1>5. ASSUME NEW c \in Callers, AwaitDone(c) PROVE ServedInv'
  BY <1>5 DEF AwaitDone
<1>6. ASSUME NEW c \in Callers, Return(c) PROVE ServedInv'
  BY <1>6 DEF Return
<1>7. ASSUME NEW w \in Workers, TakeJob(w) PROVE ServedInv'
  BY <1>7 DEF TakeJob
<1>8. ASSUME NEW w \in Workers, MissedJob(w) PROVE ServedInv'
  BY <1>8 DEF MissedJob
<1>9. ASSUME NEW w \in Workers, AwaitJob(w) PROVE ServedInv'
  BY <1>9 DEF AwaitJob
<1>10. ASSUME NEW w \in Workers, Leave(w) PROVE ServedInv'
  <2>1. CASE Goto(w, "wait")
    BY <1>10, <2>1 DEF Leave
  <2>2. ASSUME NEW c \in Callers, pc[c] = "asleep",
               pc' = [pc EXCEPT ![w] = "wait", ![c] = "await"]
        PROVE  ServedInv'
    BY <1>10, <2>2 DEF Leave
  <2>3. QED
    BY <1>10, <2>1, <2>2 DEF Leave, NotifyDone
<1>11. ASSUME NEW t \in Threads, ClaimTicket(t) PROVE ServedInv'
  BY <1>11 DEF ClaimTicket
<1>12. ASSUME NEW t \in Threads, Exhausted(t) PROVE ServedInv'
  BY <1>12 DEF Exhausted
<1>13. ASSUME NEW t \in Threads, Serve(t) PROVE ServedInv'
  <2>1. job \in Jobs /\ work[t] = job
    BY <1>13, <1>d DEF Serve
  <2>2. served'[job] = served[job] \cup {ticket[t]}
    BY <1>13, <2>1 DEF Serve
  <2>3. \A k \in served'[job] : k < next /\ k < chunks
    BY <1>13, <2>1, <2>2 DEF Serve
  <2>4. ASSUME NEW k \in 0 .. chunks - 1
        PROVE  \/ k >= next
               \/ k \in served'[job]
               \/ \E u \in Threads : pc'[u] = "serve" /\ ticket'[u] = k
    BY <1>13, <2>1, <2>2, <2>4 DEF Serve
  <2>5. QED
    BY <1>13, <2>1, <2>3, <2>4 DEF Serve
<1>14. ASSUME NEW t \in Threads, Retire(t) PROVE ServedInv'
  BY <1>14 DEF Retire
<1>15. ASSUME NEW t \in Threads, Signal(t) PROVE ServedInv'
  <2>1. CASE Goto(t, "claim")
    BY <1>15, <2>1 DEF Signal
  <2>2. ASSUME NEW c \in Callers, pc[c] = "asleep",
               pc' = [pc EXCEPT ![t] = "claim", ![c] = "await"]
        PROVE  ServedInv'
    BY <1>15, <2>2 DEF Signal
  <2>3. QED
    BY <1>15, <2>1, <2>2 DEF Signal, NotifyDone
<1>16. ASSUME NEW t \in Threads, Block(t) PROVE ServedInv'
  BY <1>16 DEF Block
<1>17. ASSUME NEW t \in Threads, Spurious(t) PROVE ServedInv'
  BY <1>17 DEF Spurious
<1>18. CASE UNCHANGED vars
  BY <1>18 DEF vars
<1>19. QED
  BY <1>1, <1>2, <1>3, <1>4, <1>5, <1>6, <1>7, <1>8, <1>9, <1>10, <1>11,
     <1>12, <1>13, <1>14, <1>15, <1>16, <1>17, <1>18 DEF Next, Run, Loop,
     Drain, Quiescent

\* Every step keeps a returning caller's work wholly served.
LEMMA ReturnStep ==
  ASSUME PoolInv, [Next]_vars
  PROVE  ReturnInv'
<1>s. job # 0 /\ remaining = 0 => served[job] = 0 .. chunks - 1
  BY AllServed
<1> USE DEF PoolInv, TypeOK, CallerInv, Threads, Jobs, Joined, Draining, Goto,
            locks, tickets, WorkerInv, ReturnInv
<1>1. ASSUME NEW c \in Callers, Acquire(c) PROVE ReturnInv'
  BY <1>1 DEF Acquire
<1>2. ASSUME NEW c \in Callers, NEW n \in Counts, Publish(c, n) PROVE ReturnInv'
  BY <1>2 DEF Publish
<1>3. ASSUME NEW c \in Callers, NotifyReady(c) PROVE ReturnInv'
  BY <1>3 DEF NotifyReady
<1>4. ASSUME NEW c \in Callers, Finish(c) PROVE ReturnInv'
  <2>1. work[c] = job /\ job # 0 /\ remaining = 0
    <3>1. pc[c] = "await" /\ remaining = 0
      BY <1>4 DEF Finish, Done
    <3>2. job = generation /\ work[c] = generation /\ generation \in 1 .. MaxJobs
      BY <3>1
    <3>3. QED
      BY <3>1, <3>2
  <2>2. served[job] = 0 .. ChunksOf(count[job]) - 1
    BY <2>1, <1>s DEF ServedInv
  <2>3. QED
    BY <1>4, <2>1, <2>2 DEF Finish
<1>5. ASSUME NEW c \in Callers, AwaitDone(c) PROVE ReturnInv'
  BY <1>5 DEF AwaitDone
<1>6. ASSUME NEW c \in Callers, Return(c) PROVE ReturnInv'
  BY <1>6 DEF Return
<1>7. ASSUME NEW w \in Workers, TakeJob(w) PROVE ReturnInv'
  BY <1>7 DEF TakeJob
<1>8. ASSUME NEW w \in Workers, MissedJob(w) PROVE ReturnInv'
  BY <1>8 DEF MissedJob
<1>9. ASSUME NEW w \in Workers, AwaitJob(w) PROVE ReturnInv'
  BY <1>9 DEF AwaitJob
<1>10. ASSUME NEW w \in Workers, Leave(w) PROVE ReturnInv'
  BY <1>10 DEF Leave, NotifyDone
<1>11. ASSUME NEW t \in Threads, ClaimTicket(t) PROVE ReturnInv'
  BY <1>11 DEF ClaimTicket
<1>12. ASSUME NEW t \in Threads, Exhausted(t) PROVE ReturnInv'
  BY <1>12 DEF Exhausted
<1>13. ASSUME NEW t \in Threads, Serve(t) PROVE ReturnInv'
  BY <1>13 DEF Serve
<1>14. ASSUME NEW t \in Threads, Retire(t) PROVE ReturnInv'
  BY <1>14 DEF Retire
<1>15. ASSUME NEW t \in Threads, Signal(t) PROVE ReturnInv'
  BY <1>15 DEF Signal, NotifyDone
<1>16. ASSUME NEW t \in Threads, Block(t) PROVE ReturnInv'
  BY <1>16 DEF Block
<1>17. ASSUME NEW t \in Threads, Spurious(t) PROVE ReturnInv'
  BY <1>17 DEF Spurious
<1>18. CASE UNCHANGED vars
  BY <1>18 DEF vars
<1>19. QED
  BY <1>1, <1>2, <1>3, <1>4, <1>5, <1>6, <1>7, <1>8, <1>9, <1>10, <1>11,
     <1>12, <1>13, <1>14, <1>15, <1>16, <1>17, <1>18 DEF Next, Run, Loop,
     Drain, Quiescent

\* Every step keeps remaining_ and active_ equal to what they count.
LEMMA CounterStep ==
  ASSUME PoolInv, [Next]_vars
  PROVE  CounterInv'
<1>f. \A x \in Outstanding :
        Cardinality(Outstanding \ {x}) = Cardinality(Outstanding) - 1
  BY OutstandingFinite, RemoveOne DEF PoolInv, TypeOK
<1> USE DEF PoolInv, TypeOK, CounterInv, Threads, Jobs, Joined, Draining,
            Goto, locks, tickets, Outstanding, JoinedWorkers, Holding
<1>1. ASSUME NEW c \in Callers, Acquire(c) PROVE CounterInv'
  BY <1>1 DEF Acquire
<1>2. ASSUME NEW c \in Callers, NEW n \in Counts, Publish(c, n) PROVE CounterInv'
  <2>1. JoinedWorkers' = JoinedWorkers
    BY <1>2 DEF Publish
  <2>2. ChunksOf(n) \in Nat
    BY ChunksOfType
  <2>3. Outstanding' = 0 .. ChunksOf(n) - 1
    BY <1>2, <2>2 DEF Publish
  <2>4. Cardinality(0 .. ChunksOf(n) - 1) = ChunksOf(n)
    BY <2>2, IntervalCardinality
  <2>5. QED
    BY <1>2, <2>1, <2>3, <2>4 DEF Publish
<1>3. ASSUME NEW c \in Callers, NotifyReady(c) PROVE CounterInv'
  BY <1>3 DEF NotifyReady
<1>4. ASSUME NEW c \in Callers, Finish(c) PROVE CounterInv'
  BY <1>4 DEF Finish
<1>5. ASSUME NEW c \in Callers, AwaitDone(c) PROVE CounterInv'
  BY <1>5 DEF AwaitDone
<1>6. ASSUME NEW c \in Callers, Return(c) PROVE CounterInv'
  BY <1>6 DEF Return
<1>7. ASSUME NEW w \in Workers, TakeJob(w) PROVE CounterInv'
  <2>1. Outstanding' = Outstanding
    BY <1>7 DEF TakeJob
  <2>2. JoinedWorkers' = JoinedWorkers \cup {w} /\ w \notin JoinedWorkers
    BY <1>7 DEF TakeJob
  <2>3. Cardinality(JoinedWorkers') = Cardinality(JoinedWorkers) + 1
    BY <2>2, JoinedFinite, FS_AddElement
  <2>4. QED
    BY <1>7, <2>1, <2>3 DEF TakeJob
<1>8. ASSUME NEW w \in Workers, MissedJob(w) PROVE CounterInv'
  BY <1>8 DEF MissedJob
<1>9. ASSUME NEW w \in Workers, AwaitJob(w) PROVE CounterInv'
  BY <1>9 DEF AwaitJob
<1>10. ASSUME NEW w \in Workers, Leave(w) PROVE CounterInv'
  <2>1. Outstanding' = Outstanding
    BY <1>10 DEF Leave, NotifyDone
  <2>2. JoinedWorkers' = JoinedWorkers \ {w} /\ w \in JoinedWorkers
    BY <1>10 DEF Leave, NotifyDone
  <2>3. Cardinality(JoinedWorkers') = Cardinality(JoinedWorkers) - 1
    BY <2>2, JoinedFinite, RemoveOne
  <2>4. QED
    BY <1>10, <2>1, <2>3 DEF Leave
<1>11. ASSUME NEW t \in Threads, ClaimTicket(t) PROVE CounterInv'
  <2>1. JoinedWorkers' = JoinedWorkers
    BY <1>11 DEF ClaimTicket
  <2>2. Outstanding' \subseteq Outstanding
    BY <1>11 DEF ClaimTicket, TicketInv
  <2>3. Outstanding \subseteq Outstanding'
    <3>1. ASSUME NEW k \in Outstanding, k >= next, k # next PROVE k \in Outstanding'
      BY <1>11, <3>1 DEF ClaimTicket
    <3>2. next \in Outstanding'
      BY <1>11 DEF ClaimTicket
    <3>3. ASSUME NEW k \in Outstanding, NEW u \in Threads, Holding(u), ticket[u] = k
          PROVE  k \in Outstanding'
      BY <1>11, <3>3 DEF ClaimTicket
    <3>4. QED
      BY <3>1, <3>2, <3>3
  <2>4. Outstanding' = Outstanding
    BY <2>2, <2>3
  <2>5. QED
    BY <1>11, <2>1, <2>4 DEF ClaimTicket
<1>12. ASSUME NEW t \in Threads, Exhausted(t) PROVE CounterInv'
  <2>1. JoinedWorkers' = JoinedWorkers
    BY <1>12 DEF Exhausted
  <2>2. Outstanding' = Outstanding
    BY <1>12 DEF Exhausted
  <2>3. QED
    BY <1>12, <2>1, <2>2 DEF Exhausted
<1>13. ASSUME NEW t \in Threads, Serve(t) PROVE CounterInv'
  BY <1>13 DEF Serve
<1>14. ASSUME NEW t \in Threads, Retire(t) PROVE CounterInv'
  <2>1. JoinedWorkers' = JoinedWorkers
    BY <1>14 DEF Retire
  <2>2. Outstanding' \subseteq Outstanding \ {ticket[t]}
    BY <1>14 DEF Retire, TicketInv
  <2>3. Outstanding \ {ticket[t]} \subseteq Outstanding'
    BY <1>14 DEF Retire
  <2>4. ticket[t] \in Outstanding
    BY <1>14 DEF Retire, TicketInv
  <2>5. Outstanding' = Outstanding \ {ticket[t]}
    BY <2>2, <2>3
  <2>6. Cardinality(Outstanding') = Cardinality(Outstanding) - 1
    BY <2>4, <2>5, <1>f
  <2>7. QED
    BY <1>14, <2>1, <2>6 DEF Retire
<1>15. ASSUME NEW t \in Threads, Signal(t) PROVE CounterInv'
  BY <1>15 DEF Signal, NotifyDone
<1>16. ASSUME NEW t \in Threads, Block(t) PROVE CounterInv'
  BY <1>16 DEF Block
<1>17. ASSUME NEW t \in Threads, Spurious(t) PROVE CounterInv'
  BY <1>17 DEF Spurious
<1>18. CASE UNCHANGED vars
  BY <1>18 DEF vars
<1>19. QED
  BY <1>1, <1>2, <1>3, <1>4, <1>5, <1>6, <1>7, <1>8, <1>9, <1>10, <1>11,
     <1>12, <1>13, <1>14, <1>15, <1>16, <1>17, <1>18 DEF Next, Run, Loop,
     Drain, Quiescent

-----------------------------------------------------------------------------

\* The pool's inductive invariant: in every reachable state the two counters
\* of run() count what they stand for and the pointers, tickets and published
\* work behind them are consistent.
THEOREM PoolInvariant == Spec => []PoolInv
<1>1. Init => PoolInv
  BY InitPoolInv
<1>2. PoolInv /\ [Next]_vars => PoolInv'
  BY TypeStep, CallerStep, WorkerStep, TicketStep, ServedStep, CounterStep,
     ReturnStep DEF PoolInv
<1>3. QED
  BY <1>1, <1>2, PTL DEF Spec

\* No worker outlives the call it works for: a worker inside drain() holds the
\* Work that is published now.
THEOREM NoStaleWorkerHolds == Spec => []NoStaleWorker
<1>1. PoolInv => NoStaleWorker
  BY DEF PoolInv, WorkerInv, NoStaleWorker
<1>2. QED
  BY <1>1, PoolInvariant, PTL

\* run() resets the ticket counters only when no thread is in drain().
THEOREM NoResetUnderDrainHolds == Spec => []NoResetUnderDrain
<1>1. PoolInv => NoResetUnderDrain
  <2> SUFFICES ASSUME PoolInv, NEW c \in Callers, pc[c] = "publish",
                      NEW t \in Threads, pc[t] \in Joined
               PROVE  FALSE
    BY DEF NoResetUnderDrain
  <2> USE DEF PoolInv, CallerInv, WorkerInv, TypeOK, Joined, Draining, Threads
  <2>1. caller = c
    OBVIOUS
  <2>2. CASE t \in Callers
    BY <2>1, <2>2
  <2>3. CASE t \in Workers
    BY <2>1, <2>3
  <2>4. QED
    BY <2>2, <2>3
<1>2. QED
  BY <1>1, PoolInvariant, PTL

\* Every ticket is served by one thread, once.
THEOREM ServedOnceHolds == Spec => []ServedOnce
<1>1. PoolInv => ServedOnce
  BY DEF PoolInv, TicketInv, ServedOnce, Holding
<1>2. QED
  BY <1>1, PoolInvariant, PTL

-----------------------------------------------------------------------------
(* The division into chunks. *)

\* The tickets of a work of n ids cover every id.
LEMMA SpansCover ==
  ASSUME NEW n \in Nat
  PROVE  UNION {Span(k, n) : k \in 0 .. ChunksOf(n) - 1} = 0 .. n - 1
<1>1. ASSUME NEW i \in 0 .. n - 1
      PROVE  \E k \in 0 .. ChunksOf(n) - 1 : i \in Span(k, n)
  <2> DEFINE k == i \div Chunk
  <2>1. k \in Nat /\ k * Chunk <= i /\ i < (k + 1) * Chunk
    OBVIOUS
  <2>2. k < (n + Chunk - 1) \div Chunk
    OBVIOUS
  <2> HIDE DEF k
  <2>3. i \in Span(k, n)
    BY <2>1 DEF Span
  <2>4. (n + Chunk - 1) \div Chunk \in Int
    OBVIOUS
  <2>5. QED
    BY <2>1, <2>2, <2>3, <2>4 DEF ChunksOf
<1>2. \A k : Span(k, n) \subseteq 0 .. n - 1
  BY DEF Span
<1>3. QED
  BY <1>1, <1>2

\* Two tickets share no id.
LEMMA SpansDisjoint ==
  ASSUME NEW n \in Nat, NEW j \in Nat, NEW k \in Nat, j # k
  PROVE  Span(j, n) \cap Span(k, n) = {}
<1>1. ASSUME NEW a \in Nat, NEW b \in Nat, a < b
      PROVE  (a + 1) * Chunk <= b * Chunk
  <2>1. PICK d \in Nat : b = a + 1 + d
    BY <1>1
  <2>2. b * Chunk = (a + 1) * Chunk + d * Chunk
    BY <2>1
  <2>3. d * Chunk \in Nat /\ (a + 1) * Chunk \in Nat
    OBVIOUS
  <2>4. QED
    BY <2>2, <2>3
<1>2. (j + 1) * Chunk \in Nat /\ j * Chunk \in Nat /\ (k + 1) * Chunk \in Nat
      /\ k * Chunk \in Nat
  OBVIOUS
<1>3. CASE j < k
  BY <1>1, <1>2, <1>3 DEF Span
<1>4. CASE k < j
  BY <1>1, <1>2, <1>4 DEF Span
<1>5. QED
  BY <1>3, <1>4

\* A ticket below the bound stands for at least one id.
LEMMA SpansNonEmpty ==
  ASSUME NEW n \in Nat, NEW k \in 0 .. ChunksOf(n) - 1
  PROVE  k * Chunk \in Span(k, n)
<1>1. k \in Nat /\ k + 1 <= (n + Chunk - 1) \div Chunk
  BY DEF ChunksOf
<1>2. (k + 1) * Chunk <= n + Chunk - 1
  <2> DEFINE q == (n + Chunk - 1) \div Chunk
  <2>1. q \in Int /\ q * Chunk <= n + Chunk - 1
    OBVIOUS
  <2>2. k + 1 <= q
    BY <1>1
  <2> HIDE DEF q
  <2>3. PICK d \in Nat : q = k + 1 + d
    BY <1>1, <2>1, <2>2
  <2>4. q * Chunk = (k + 1) * Chunk + d * Chunk
    BY <1>1, <2>3
  <2>5. d * Chunk \in Nat /\ (k + 1) * Chunk \in Nat
    BY <1>1
  <2>6. QED
    BY <2>1, <2>4, <2>5
<1>3. (k + 1) * Chunk = k * Chunk + Chunk /\ k * Chunk \in Nat
  BY <1>1
<1>4. QED
  BY <1>2, <1>3 DEF Span

\* A call returns only when every id of its work was served.
THEOREM RunCompleteHolds == Spec => []RunComplete
<1>1. PoolInv => RunComplete
  <2> SUFFICES ASSUME PoolInv, NEW c \in Callers, pc[c] = "return"
               PROVE  Delivered(work[c]) = 0 .. count[work[c]] - 1
    BY DEF RunComplete
  <2>1. work[c] \in Jobs /\ count[work[c]] \in Nat
    BY DEF PoolInv, CallerInv, TypeOK
  <2>2. served[work[c]] = 0 .. ChunksOf(count[work[c]]) - 1
    BY DEF PoolInv, ReturnInv
  <2>3. QED
    BY <2>1, <2>2, SpansCover DEF Delivered
<1>2. QED
  BY <1>1, PoolInvariant, PTL

-----------------------------------------------------------------------------
(* The pool implements the loop its callers rely on. *)

\* The pool starts as an idle loop.
LEMMA LoopInit == Init => Loops!Init
  BY DEF Init, Loops!Init

\* Nothing the loop shows changes when neither the published work nor what was
\* delivered of it does.
LEMMA LoopStutter ==
  ASSUME job' = job, count' = count, served' = served,
         job # 0 => caller' = caller
  PROVE  UNCHANGED Loops!vars
  BY DEF Loops!vars, Delivered, Span

\* Publishing a work begins the loop over its ids.
LEMMA PublishBegins ==
  ASSUME PoolInv, NEW c \in Callers, NEW n \in Counts, Publish(c, n)
  PROVE  Loops!Next
<1> USE DEF PoolInv, TypeOK, CallerInv, TicketInv, Jobs
<1>1. job = 0
  BY DEF Publish
<1>2. generation + 1 \in Jobs /\ job' = generation + 1 /\ job' # 0
  BY DEF Publish
<1>3. caller = c /\ caller' = c
  BY DEF Publish
<1>4. count'[job'] = n /\ served'[job'] = {}
  BY <1>2 DEF Publish
<1>5. Delivered(job)' = {}
  BY <1>4 DEF Delivered
<1>6. Loops!Begin(c, n)
  BY <1>1, <1>2, <1>3, <1>4, <1>5 DEF Loops!Begin
<1>7. QED
  BY <1>6 DEF Loops!Next

\* The wait that finds its predicate true ends the loop.
LEMMA FinishEnds ==
  ASSUME PoolInv, NEW c \in Callers, Finish(c)
  PROVE  Loops!Next
<1>1. job = generation /\ job \in Jobs /\ job # 0 /\ caller = c
      /\ count[job] \in Nat
  BY DEF Finish, PoolInv, TypeOK, CallerInv, Jobs
<1>2. served[job] = 0 .. chunks - 1
  BY <1>1, AllServed DEF Finish, Done
<1>3. chunks = ChunksOf(count[job])
  BY <1>1 DEF PoolInv, ServedInv
<1>4. Delivered(job) = 0 .. count[job] - 1
  BY <1>1, <1>2, <1>3, SpansCover DEF Delivered
<1>5. c # NoThread
  OBVIOUS
<1>6. Loops!End
  BY <1>1, <1>4, <1>5 DEF Loops!End, Finish
<1>7. QED
  BY <1>6 DEF Loops!Next

\* Serving a ticket handles its ids, none of which was handled before.
LEMMA ServeHandles ==
  ASSUME PoolInv, NEW t \in Threads, Serve(t)
  PROVE  Loops!Next
<1> DEFINE batch == Span(ticket[t], count[job])
<1>1. job \in Jobs /\ job # 0 /\ work[t] = job /\ count[job] \in Nat
  BY DrainsCurrentJob DEF Serve, PoolInv, TypeOK, Jobs, Draining
<1>2. caller # NoThread
  BY <1>1 DEF PoolInv, CallerInv
<1>3. ticket[t] \in 0 .. ChunksOf(count[job]) - 1
  BY <1>1 DEF Serve, PoolInv, TypeOK, TicketInv, ServedInv, Holding
<1>4. batch # {} /\ batch \subseteq 0 .. count[job] - 1
  BY <1>1, <1>3, SpansNonEmpty DEF Span
<1>5. ticket[t] \notin served[job] /\ served[job] \subseteq Nat
  BY <1>1 DEF Serve, PoolInv, TicketInv, TypeOK
<1>6. batch \cap Delivered(job) = {}
  <2>1. \A k \in served[job] : batch \cap Span(k, count[job]) = {}
    BY <1>1, <1>3, <1>5, SpansDisjoint
  <2>2. QED
    BY <2>1 DEF Delivered
<1>7. served'[job] = served[job] \cup {ticket[t]} /\ job' = job /\ count' = count
      /\ caller' = caller
  BY <1>1 DEF Serve, PoolInv, TypeOK, locks
<1>8. Delivered(job)' = Delivered(job) \cup batch
  BY <1>7 DEF Delivered, Span
<1>9. Loops!Handle(batch)
  BY <1>1, <1>2, <1>4, <1>6, <1>7, <1>8 DEF Loops!Handle
<1>10. QED
  BY <1>1, <1>4, <1>9 DEF Loops!Next

\* Every behaviour of the pool is, seen by its callers, a behaviour of a loop
\* over one work at a time.
THEOREM PoolImplementsLoop == Spec => ImplementsLoop
<1>1. PoolInv /\ [Next]_vars => [Loops!Next]_Loops!vars
  <2> SUFFICES ASSUME PoolInv, [Next]_vars
               PROVE  Loops!Next \/ UNCHANGED Loops!vars
    OBVIOUS
  <2> USE DEF locks, tickets
  <2>1. ASSUME NEW c \in Callers, Acquire(c) PROVE UNCHANGED Loops!vars
    <3>1. job = 0
      BY <2>1 DEF Acquire, PoolInv, CallerInv
    <3>2. QED
      BY <2>1, <3>1, LoopStutter DEF Acquire
  <2>2. ASSUME NEW c \in Callers, Return(c) PROVE UNCHANGED Loops!vars
    <3>1. job = 0
      BY <2>2 DEF Return, PoolInv, CallerInv
    <3>2. QED
      BY <2>2, <3>1, LoopStutter DEF Return
  <2>3. ASSUME NEW c \in Callers, NotifyReady(c) \/ AwaitDone(c)
        PROVE  UNCHANGED Loops!vars
    BY <2>3, LoopStutter DEF NotifyReady, AwaitDone
  <2>4. ASSUME NEW w \in Workers, Loop(w) PROVE UNCHANGED Loops!vars
    BY <2>4, LoopStutter DEF Loop, TakeJob, MissedJob, AwaitJob, Leave
  <2>5. ASSUME NEW t \in Threads,
               \/ ClaimTicket(t) \/ Exhausted(t) \/ Retire(t) \/ Signal(t)
               \/ Block(t) \/ Spurious(t)
        PROVE  UNCHANGED Loops!vars
    BY <2>5, LoopStutter
       DEF ClaimTicket, Exhausted, Retire, Signal, Block, Spurious
  <2>6. CASE UNCHANGED vars
    BY <2>6, LoopStutter DEF vars
  <2>7. QED
    BY <2>1, <2>2, <2>3, <2>4, <2>5, <2>6, PublishBegins, FinishEnds,
       ServeHandles DEF Next, Run, Drain, Loop, Quiescent
<1>2. QED
  BY <1>1, LoopInit, PoolInvariant, PTL DEF Spec, ImplementsLoop, Loops!Spec

===============================================================================
