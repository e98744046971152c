------------------------- MODULE EngramPrefetchProofs -------------------------
(***************************************************************************)
(* Without errors and foreign lookups every gather delivers the rows of    *)
(* its ids, the CHECK mode finds no difference and no two streams touch a  *)
(* buffer at once, for any number of layers and forward passes.            *)
(*                                                                         *)
(* A stream's operations are numbered from 1, run or not, as wait_stream   *)
(* numbers them.  The invariant has a part about the operations not yet    *)
(* run, which no stream changes by running, and a part about the buffers   *)
(* that the first operation of a stream is about to read.                  *)
(***************************************************************************)
EXTENDS EngramPrefetch, SequenceTheorems, TLAPS

\* The numbers of a stream's operations to run, and each of these.
Pending(s) == done[s] + 1 .. Issued(s)
OpAt(s, k) == queue[s][k - done[s]]

HashAt(k) == OpAt(Main, k).do = "hash"

\* The hash ids of the passes up to m have been computed.
Hashed(m) == \A k \in Pending(Main) : HashAt(k) => OpAt(Main, k).pass > m

\* The side stream of e has nothing more to run for the passes up to m.
Drained(e, m) == \A k \in Pending(e) : OpAt(e, k).pass > m

\* What the main stream runs first of a layer, or for a pass.
Begins(op) == op.do = "hash" \/ op.do = IF disabled THEN "ids" ELSE "wait"

\* What has to follow an operation, for the same layer and pass.
MainNext(do) ==
  CASE do = "wait" -> "gather"
    [] do = "ids" -> "serve"
    [] do = "serve" -> "rows"
    [] do = "rows" -> IF disabled THEN "gather" ELSE "compare"
    [] do = "gather" -> IF check THEN "ids" ELSE "end"
    [] OTHER -> "end"
SideNext(do) ==
  CASE do = "wait" -> "ids" [] do = "ids" -> "serve" [] do = "serve" -> "rows"
    [] OTHER -> "end"

-----------------------------------------------------------------------------
(* The operations not yet run. *)

\* Operations of the main stream, and in which order.
MainTyped ==
  \A k \in Pending(Main) : LET op == OpAt(Main, k) IN
    /\ op.pass \in 0 .. step
    /\ op.do \in {"hash", "wait", "gather", "ids", "serve", "rows", "compare"}
    /\ IF op.do = "hash" THEN op.e \in Slots ELSE op.e \in Embeds
    /\ op.do \in {"hash", "gather", "compare"} => op.n = op.pass
    /\ op.do = "ids" => op.n \in Slots
    /\ op.do = "wait" => ~disabled /\ op.n \in Nat
    /\ op.do = "compare" => ~disabled

MainShape ==
  \A k \in Pending(Main) : LET op == OpAt(Main, k)  do == MainNext(op.do) IN
    IF do = "end"
    THEN k + 1 \in Pending(Main) => Begins(OpAt(Main, k + 1))
    ELSE /\ k + 1 \in Pending(Main)
         /\ OpAt(Main, k + 1).do = do
         /\ OpAt(Main, k + 1).e = op.e /\ OpAt(Main, k + 1).pass = op.pass

\* A pass begins with its hash ids, and all later ones are still to come.
MainOrder ==
  \A k \in Pending(Main) :
    /\ \A l \in Pending(Main) : k < l =>
         /\ OpAt(Main, k).pass <= OpAt(Main, l).pass
         /\ HashAt(l) => OpAt(Main, k).pass < OpAt(Main, l).pass
    /\ \A m \in OpAt(Main, k).pass + 1 .. step :
         \E l \in Pending(Main) : HashAt(l) /\ OpAt(Main, l).pass = m

\* The same of the side streams.
SideTyped ==
  \A e \in Embeds : \A k \in Pending(e) : LET op == OpAt(e, k) IN
    /\ op.pass \in 0 .. step
    /\ op.do \in {"wait", "ids", "serve", "rows"}
    /\ op.e = IF op.do = "wait" THEN Main ELSE e
    /\ op.do = "ids" => op.n \in Slots
    /\ op.do = "wait" => op.n \in Nat
    /\ ~disabled

SideShape ==
  \A e \in Embeds : \A k \in Pending(e) :
    LET op == OpAt(e, k)  do == SideNext(op.do) IN
    IF do = "end"
    THEN k + 1 \in Pending(e) => OpAt(e, k + 1).do = "wait"
    ELSE /\ k + 1 \in Pending(e)
         /\ OpAt(e, k + 1).do = do /\ OpAt(e, k + 1).pass = op.pass

SideOrder ==
  \A e \in Embeds : \A k, l \in Pending(e) : k < l =>
    /\ OpAt(e, k).pass <= OpAt(e, l).pass
    /\ OpAt(e, k).do = "rows" => OpAt(e, k).pass < OpAt(e, l).pass

\* The hash ids of pass m are in slot a, or will be.
SlotHolds(m, a) ==
  \/ Hashed(m) /\ hash[a] = m
  \/ \E k \in Pending(Main) :
       HashAt(k) /\ OpAt(Main, k).pass = m /\ OpAt(Main, k).e = a

IdsOfPass ==
  /\ SlotHolds(step, slot)
  /\ \A s \in Streams : \A k \in Pending(s) :
       OpAt(s, k).do = "ids" => SlotHolds(OpAt(s, k).pass, OpAt(s, k).n)

\* After its first n operations the main stream has hashed pass m.
HashPoint(n, m) ==
  \/ n <= done[Main] /\ Hashed(m)
  \/ n \in Pending(Main) /\ HashAt(n) /\ OpAt(Main, n).pass = m

Forked ==
  \A e \in Embeds : \A k \in Pending(e) :
    OpAt(e, k).do = "wait" => HashPoint(OpAt(e, k).n, OpAt(e, k).pass)

\* After its first n operations the side stream of e has fetched pass m.
Fetched(e, n, m) ==
  \/ n \in Pending(e) /\ OpAt(e, n).do = "rows" /\ OpAt(e, n).pass = m
  \/ n <= done[e] /\ device[e] = m /\ Hashed(m) /\ Drained(e, m)

\* A gather waits for the rows of its pass.
Fetching ==
  /\ \A k \in Pending(Main) : LET op == OpAt(Main, k) IN
       op.do = "wait" => Fetched(op.e, op.n, op.pass)
  /\ \A e \in Embeds : pending[e] => Fetched(e, Issued(e), step)

\* Whatever a side stream runs is waited for within its pass.
Joined ==
  \A e \in Embeds : \A k \in Pending(e) :
    \/ pending[e] /\ OpAt(e, k).pass = step
    \/ \E l \in Pending(Main) : LET op == OpAt(Main, l) IN
         op.do = "wait" /\ op.e = e /\ op.n >= k /\ op.pass = OpAt(e, k).pass

\* The Python thread.
Python ==
  /\ at # "failed"
  /\ check => ~disabled
  /\ at = "idle" => layer = 1 /\ \A e \in Embeds : ~pending[e]
  /\ at = "prefetch" =>
       /\ ~disabled
       /\ \A e \in Embeds : pending[e] <=> e < layer
       /\ \A k \in Pending(Main) : ~HashAt(k) => OpAt(Main, k).pass < step
       /\ HashPoint(Issued(Main), step)
  /\ at = "layer" => \A e \in Embeds : pending[e] <=> ~disabled /\ e >= layer

-----------------------------------------------------------------------------
(* The buffers. *)

MainReads ==
  LET k == done[Main] + 1  op == OpAt(Main, k) IN
  k \in Pending(Main) /\ op.do \in {"ids", "serve", "rows", "gather", "compare"} =>
    /\ Drained(op.e, op.pass)
    /\ op.do = "serve" => ids[op.e] = op.pass
    /\ op.do = "rows" => rows[op.e] = op.pass
    /\ op.do \in {"gather", "compare"} => device[op.e] = op.pass
    /\ op.do # "gather" /\ ~disabled => out[op.e].got = op.pass

SideReads ==
  \A e \in Embeds : LET k == done[e] + 1  op == OpAt(e, k) IN
    k \in Pending(e) /\ op.do # "wait" =>
      /\ Hashed(op.pass)
      /\ op.do = "serve" => ids[e] = op.pass
      /\ op.do = "rows" => rows[e] = op.pass

Exact == GatherExact /\ ~differed

Kinds == {"hash", "wait", "gather", "ids", "serve", "rows", "compare"}
Ops == [do : Kinds, e : Nat, n : Int, pass : Nat]

QueueTyped ==
  /\ queue \in [Streams -> Seq(Ops)]
  /\ done \in [Streams -> Nat]
  /\ step \in Nat /\ slot \in Slots
  /\ disabled \in BOOLEAN /\ check \in BOOLEAN
  /\ at \in {"idle", "prefetch", "layer", "failed"} /\ layer \in Embeds
  /\ pending \in [Embeds -> BOOLEAN]
  /\ DOMAIN hash = Slots
  /\ DOMAIN ids = Embeds /\ DOMAIN rows = Embeds /\ DOMAIN device = Embeds
  /\ DOMAIN out = Embeds
  /\ differed \in BOOLEAN
  /\ errors \in Nat /\ others \in Nat

Order == MainTyped /\ MainShape /\ MainOrder /\ SideTyped /\ SideShape /\ SideOrder
Links == IdsOfPass /\ Forked /\ Fetching /\ Joined
Reads == MainReads /\ SideReads /\ Exact

SmoothInv == Order /\ Links /\ Python /\ Reads

PrefetchInv == QueueTyped /\ (Smooth => SmoothInv)

-----------------------------------------------------------------------------
(* What queueing and running do to the operations not yet run. *)

LEMMA NumberedOps ==
  ASSUME QueueTyped, NEW s \in Streams
  PROVE  /\ done[s] \in Nat /\ Issued(s) \in Nat /\ done[s] <= Issued(s)
         /\ Issued(s) = done[s] + Len(queue[s])
         /\ \A k \in Pending(s) : k \in Nat /\ k - done[s] \in 1 .. Len(queue[s])
                                 /\ OpAt(s, k) \in Ops
<1>1. queue[s] \in Seq(Ops) /\ done[s] \in Nat
  BY DEF QueueTyped
<1>2. QED
  BY <1>1 DEF Issued, Pending, OpAt

\* Operations queued on one stream get the next numbers.
LEMMA Queueing ==
  ASSUME QueueTyped, NEW s \in Streams, NEW new \in Seq(Ops),
         queue' = [queue EXCEPT ![s] = @ \o new], done' = done
  PROVE  /\ queue' \in [Streams -> Seq(Ops)]
         /\ Issued(s)' = Issued(s) + Len(new)
         /\ \A k \in Int : k \in Pending(s)' <=>
              k \in Pending(s) \/ k \in Issued(s) + 1 .. Issued(s) + Len(new)
         /\ \A k \in Pending(s) : OpAt(s, k)' = OpAt(s, k)
         /\ \A k \in Issued(s) + 1 .. Issued(s) + Len(new) :
              OpAt(s, k)' = new[k - Issued(s)]
         /\ \A u \in Streams \ {s} :
              /\ Issued(u)' = Issued(u) /\ Pending(u)' = Pending(u)
              /\ \A k \in Pending(u) : OpAt(u, k)' = OpAt(u, k)
<1>1. queue[s] \in Seq(Ops) /\ done[s] \in Nat
  BY DEF QueueTyped
<1>2. /\ queue'[s] = queue[s] \o new
      /\ \A u \in Streams \ {s} : queue'[u] = queue[u]
  BY DEF QueueTyped
<1>3. /\ queue'[s] \in Seq(Ops) /\ Len(queue'[s]) = Len(queue[s]) + Len(new)
      /\ \A i \in 1 .. Len(queue[s]) : queue'[s][i] = queue[s][i]
      /\ \A i \in 1 .. Len(new) : queue'[s][Len(queue[s]) + i] = new[i]
  BY <1>1, <1>2
<1>4. queue' \in [Streams -> Seq(Ops)]
  BY <1>2, <1>3 DEF QueueTyped
<1>5. Issued(s)' = Issued(s) + Len(new)
  BY <1>1, <1>3 DEF Issued
<1>6. \A k \in Int : k \in Pending(s)' <=>
        k \in Pending(s) \/ k \in Issued(s) + 1 .. Issued(s) + Len(new)
  BY <1>1, <1>3 DEF Issued, Pending
<1>7. \A k \in Pending(s) : OpAt(s, k)' = OpAt(s, k)
  BY <1>1, <1>3 DEF Issued, Pending, OpAt
<1>8. \A k \in Issued(s) + 1 .. Issued(s) + Len(new) : OpAt(s, k)' = new[k - Issued(s)]
  BY <1>1, <1>3 DEF Issued, OpAt
<1>9. \A u \in Streams \ {s} :
        /\ Issued(u)' = Issued(u) /\ Pending(u)' = Pending(u)
        /\ \A k \in Pending(u) : OpAt(u, k)' = OpAt(u, k)
  BY <1>2 DEF Issued, Pending, OpAt
<1>10. QED
  BY <1>4, <1>5, <1>6, <1>7, <1>8, <1>9

\* A stream that runs goes on to its next operation.
LEMMA Running ==
  ASSUME QueueTyped, NEW s \in Streams, Run(s)
  PROVE  /\ queue' \in [Streams -> Seq(Ops)] /\ done' \in [Streams -> Nat]
         /\ done[s] + 1 \in Pending(s) /\ Head(queue[s]) = OpAt(s, done[s] + 1)
         /\ done'[s] = done[s] + 1 /\ \A u \in Streams \ {s} : done'[u] = done[u]
         /\ \A u \in Streams : Issued(u)' = Issued(u)
         /\ \A k \in Int : k \in Pending(s)' <=> k \in Pending(s) /\ k # done[s] + 1
         /\ \A k \in Pending(s)' : OpAt(s, k)' = OpAt(s, k)
         /\ \A u \in Streams \ {s} :
              Pending(u)' = Pending(u) /\ \A k \in Pending(u) : OpAt(u, k)' = OpAt(u, k)
<1>1. /\ queue[s] \in Seq(Ops) /\ done[s] \in Nat /\ queue[s] # <<>>
      /\ queue' = [queue EXCEPT ![s] = Tail(@)] /\ done' = [done EXCEPT ![s] = @ + 1]
  BY DEF QueueTyped, Run, Ready
<1>2. /\ queue'[s] = Tail(queue[s]) /\ done'[s] = done[s] + 1
      /\ \A u \in Streams \ {s} : queue'[u] = queue[u] /\ done'[u] = done[u]
      /\ done' \in [Streams -> Nat]
  BY <1>1 DEF QueueTyped
<1>3. /\ queue'[s] \in Seq(Ops) /\ Len(queue'[s]) = Len(queue[s]) - 1 /\ Len(queue[s]) \in Nat
      /\ \A i \in 1 .. Len(queue[s]) - 1 : queue'[s][i] = queue[s][i + 1]
      /\ Head(queue[s]) = queue[s][1] /\ Len(queue[s]) > 0
  <2>1. /\ Tail(queue[s]) \in Seq(Ops) /\ Len(Tail(queue[s])) = Len(queue[s]) - 1
        /\ \A i \in 1 .. Len(Tail(queue[s])) : Tail(queue[s])[i] = queue[s][i + 1]
    BY <1>1, HeadTailProperties
  <2>2. Len(queue[s]) \in Nat \ {0} /\ Head(queue[s]) = queue[s][1]
    BY <1>1, EmptySeq
  <2>3. QED
    BY <1>2, <2>1, <2>2
<1>4. queue' \in [Streams -> Seq(Ops)]
  BY <1>1, <1>2, <1>3 DEF QueueTyped
<1>5. done[s] + 1 \in Pending(s) /\ Head(queue[s]) = OpAt(s, done[s] + 1)
  BY <1>1, <1>3 DEF Pending, Issued, OpAt
<1>6. Issued(s)' = Issued(s) /\ \A u \in Streams \ {s} : Issued(u)' = Issued(u)
  <2>1. (done[s] + 1) + (Len(queue[s]) - 1) = done[s] + Len(queue[s])
    BY <1>1, <1>3
  <2>2. Issued(s)' = Issued(s)
    BY <1>2, <1>3, <2>1 DEF Issued
  <2>3. \A u \in Streams \ {s} : Issued(u)' = Issued(u)
    BY <1>2 DEF Issued
  <2>4. QED
    BY <2>2, <2>3
<1>7. \A k \in Int : k \in Pending(s)' <=> k \in Pending(s) /\ k # done[s] + 1
  BY <1>1, <1>2, <1>3 DEF Pending, Issued
<1>8. \A k \in Pending(s)' : OpAt(s, k)' = OpAt(s, k)
  <2> TAKE k \in Pending(s)'
  <2>1. k - done[s] - 1 \in 1 .. Len(queue[s]) - 1 /\ k \in Int
    BY <1>1, <1>2, <1>3 DEF Pending, Issued
  <2>2. queue'[s][k - done[s] - 1] = queue[s][(k - done[s] - 1) + 1]
    BY <1>3, <2>1
  <2>3. QED
    BY <1>1, <1>2, <2>1, <2>2 DEF OpAt
<1>9. \A u \in Streams \ {s} :
        Pending(u)' = Pending(u) /\ \A k \in Pending(u) : OpAt(u, k)' = OpAt(u, k)
  BY <1>2 DEF Issued, Pending, OpAt
<1>10. QED
  BY <1>2, <1>4, <1>5, <1>6, <1>7, <1>8, <1>9

-----------------------------------------------------------------------------
(* What the Python thread queues. *)

SideOps(e) ==
  <<Op("wait", Main, Issued(Main)), Op("ids", e, slot), Op("serve", e, 0), Op("rows", e, 0)>>
SyncOps(e) ==
  <<Op("ids", e, slot), Op("serve", e, 0), Op("rows", e, 0), Op("gather", e, step)>>
JoinOps(e) == <<Op("wait", e, Issued(e)), Op("gather", e, step)>>
CheckOps(e) ==
  <<Op("wait", e, Issued(e)), Op("gather", e, step),
    Op("ids", e, slot), Op("serve", e, 0), Op("rows", e, 0), Op("compare", e, step)>>

LEMMA ConcatIs ==
  ASSUME NEW s \in Seq(Ops), NEW t \in Seq(Ops), NEW u \in Seq(Ops),
         Len(u) = Len(s) + Len(t),
         \A i \in 1 .. Len(s) : u[i] = s[i],
         \A i \in 1 .. Len(t) : u[Len(s) + i] = t[i]
  PROVE  s \o t = u
<1>1. /\ s \o t \in Seq(Ops) /\ Len(s \o t) = Len(s) + Len(t)
      /\ \A i \in 1 .. Len(s) + Len(t) :
           (s \o t)[i] = IF i <= Len(s) THEN s[i] ELSE t[i - Len(s)]
  BY ConcatProperties
<1>2. \A i \in 1 .. Len(s) + Len(t) : (s \o t)[i] = u[i]
  BY <1>1
<1>3. QED
  BY <1>1, <1>2, SeqEqual

LEMMA JoinTwo ==
  ASSUME NEW a \in Ops, NEW b \in Ops
  PROVE  /\ <<a>> \o <<b>> = <<a, b>> /\ <<a, b>> \in Seq(Ops)
         /\ <<a>> \in Seq(Ops) /\ <<b>> \in Seq(Ops)
<1> DEFINE s == <<a>>
           t == <<b>>
           u == <<a, b>>
<1>1. s \in Seq(Ops) /\ t \in Seq(Ops) /\ u \in Seq(Ops)
  OBVIOUS
<1>2. Len(u) = Len(s) + Len(t)
  OBVIOUS
<1>3. \A i \in 1 .. Len(s) : u[i] = s[i]
  OBVIOUS
<1>4. \A i \in 1 .. Len(t) : u[Len(s) + i] = t[i]
  OBVIOUS
<1> HIDE DEF s, t, u
<1>5. s \o t = u
  BY <1>1, <1>2, <1>3, <1>4, ConcatIs
<1>6. QED
  BY <1>1, <1>5 DEF s, t, u

LEMMA JoinOneThree ==
  ASSUME NEW a \in Ops, NEW b \in Ops, NEW c \in Ops, NEW d \in Ops
  PROVE  /\ <<a>> \o <<b, c, d>> = <<a, b, c, d>> /\ <<a, b, c, d>> \in Seq(Ops)
         /\ <<a>> \in Seq(Ops) /\ <<b, c, d>> \in Seq(Ops)
<1> DEFINE s == <<a>>
           t == <<b, c, d>>
           u == <<a, b, c, d>>
<1>1. s \in Seq(Ops) /\ t \in Seq(Ops) /\ u \in Seq(Ops)
  OBVIOUS
<1>2. Len(u) = Len(s) + Len(t)
  OBVIOUS
<1>3. \A i \in 1 .. Len(s) : u[i] = s[i]
  OBVIOUS
<1>4. \A i \in 1 .. Len(t) : u[Len(s) + i] = t[i]
  OBVIOUS
<1> HIDE DEF s, t, u
<1>5. s \o t = u
  BY <1>1, <1>2, <1>3, <1>4, ConcatIs
<1>6. QED
  BY <1>1, <1>5 DEF s, t, u

LEMMA JoinThreeOne ==
  ASSUME NEW a \in Ops, NEW b \in Ops, NEW c \in Ops, NEW d \in Ops
  PROVE  /\ <<a, b, c>> \o <<d>> = <<a, b, c, d>> /\ <<a, b, c, d>> \in Seq(Ops)
         /\ <<a, b, c>> \in Seq(Ops) /\ <<d>> \in Seq(Ops)
<1> DEFINE s == <<a, b, c>>
           t == <<d>>
           u == <<a, b, c, d>>
<1>1. s \in Seq(Ops) /\ t \in Seq(Ops) /\ u \in Seq(Ops)
  OBVIOUS
<1>2. Len(u) = Len(s) + Len(t)
  OBVIOUS
<1>3. \A i \in 1 .. Len(s) : u[i] = s[i]
  OBVIOUS
<1>4. \A i \in 1 .. Len(t) : u[Len(s) + i] = t[i]
  OBVIOUS
<1> HIDE DEF s, t, u
<1>5. s \o t = u
  BY <1>1, <1>2, <1>3, <1>4, ConcatIs
<1>6. QED
  BY <1>1, <1>5 DEF s, t, u

LEMMA JoinSix ==
  ASSUME NEW a \in Ops, NEW b \in Ops, NEW c \in Ops, NEW d \in Ops,
         NEW e \in Ops, NEW f \in Ops
  PROVE  /\ <<a, b>> \o <<c, d, e, f>> = <<a, b, c, d, e, f>> /\ <<a, b, c, d, e, f>> \in Seq(Ops)
         /\ <<a, b>> \in Seq(Ops) /\ <<c, d, e, f>> \in Seq(Ops)
<1> DEFINE s == <<a, b>>
           t == <<c, d, e, f>>
           u == <<a, b, c, d, e, f>>
<1>1. s \in Seq(Ops) /\ t \in Seq(Ops) /\ u \in Seq(Ops)
  OBVIOUS
<1>2. Len(u) = Len(s) + Len(t)
  OBVIOUS
<1>3. \A i \in 1 .. Len(s) : u[i] = s[i]
  OBVIOUS
<1>4. \A i \in 1 .. Len(t) : u[Len(s) + i] = t[i]
  OBVIOUS
<1> HIDE DEF s, t, u
<1>5. s \o t = u
  BY <1>1, <1>2, <1>3, <1>4, ConcatIs
<1>6. QED
  BY <1>1, <1>5 DEF s, t, u

LEMMA StreamsTyped ==
  ASSUME PrefetchAssumption
  PROVE  /\ Main \in Streams /\ Main \notin Embeds
         /\ \A e \in Embeds : e \in Streams /\ e \in Nat /\ e # Main
         /\ \A s \in Streams : s \in Nat
  BY DEF PrefetchAssumption, Streams, Embeds, Main

LEMMA QueuedOps ==
  ASSUME QueueTyped, PrefetchAssumption
  PROVE  /\ SideOps(layer) \in Seq(Ops) /\ SyncOps(layer) \in Seq(Ops)
         /\ JoinOps(layer) \in Seq(Ops) /\ CheckOps(layer) \in Seq(Ops)
         /\ Prefetch => queue' = [queue EXCEPT ![layer] = @ \o SideOps(layer)]
         /\ LookUp => queue' = [queue EXCEPT ![Main] = @ \o SyncOps(layer)]
         /\ Gather => queue' = [queue EXCEPT ![Main] =
                                 @ \o (IF check THEN CheckOps(layer) ELSE JoinOps(layer))]
<1>1. /\ layer \in Embeds /\ layer \in Streams /\ layer \in Nat /\ Main \in Nat /\ Main \in Streams
      /\ step \in Nat /\ slot \in Int
  BY StreamsTyped DEF QueueTyped, Slots, Main
<1>2. Issued(Main) \in Int /\ Issued(layer) \in Int
  BY <1>1, NumberedOps
<1> DEFINE join == Op("wait", layer, Issued(layer))
           gather == Op("gather", layer, step)
           fork == Op("wait", Main, Issued(Main))
           id == Op("ids", layer, slot)
           serve == Op("serve", layer, 0)
           row == Op("rows", layer, 0)
           compare == Op("compare", layer, step)
<1>3. /\ join \in Ops /\ gather \in Ops /\ fork \in Ops /\ id \in Ops /\ serve \in Ops
      /\ row \in Ops /\ compare \in Ops
  <2>1. join \in Ops /\ fork \in Ops
    BY <1>1, <1>2 DEF Op, OpOf, Ops, Kinds
  <2>2. gather \in Ops /\ compare \in Ops
    BY <1>1 DEF Op, OpOf, Ops, Kinds
  <2>3. id \in Ops /\ serve \in Ops /\ row \in Ops
    BY <1>1 DEF Op, OpOf, Ops, Kinds
  <2>4. QED
    BY <2>1, <2>2, <2>3
<1>4. /\ Fork(layer) = <<fork>> /\ Join(layer) = <<join>>
      /\ Lookup(layer, slot) = <<id, serve, row>>
      /\ Synchronous(layer, slot, "gather", step) = <<id, serve, row>> \o <<gather>>
      /\ Synchronous(layer, slot, "compare", step) = <<id, serve, row>> \o <<compare>>
      /\ SideOps(layer) = <<fork, id, serve, row>>
      /\ SyncOps(layer) = <<id, serve, row, gather>>
      /\ JoinOps(layer) = <<join, gather>>
      /\ CheckOps(layer) = <<join, gather, id, serve, row, compare>>
  BY DEF Fork, Join, Lookup, Synchronous, SideOps, SyncOps, JoinOps, CheckOps
<1>5. Prefetch => queue' = [queue EXCEPT ![layer] = @ \o Fork(layer) \o Lookup(layer, slot)]
  BY DEF Prefetch
<1>6. LookUp => queue' = [queue EXCEPT ![Main] = @ \o Synchronous(layer, slot, "gather", step)]
  BY DEF LookUp
<1>7. Gather => queue' = [queue EXCEPT ![Main] = @ \o Join(layer) \o <<gather>> \o
                   (IF check THEN Synchronous(layer, slot, "compare", step) ELSE <<>>)]
  BY DEF Gather
<1> HIDE DEF join, gather, fork, id, serve, row, compare
<1>8. queue[layer] \in Seq(Ops) /\ queue[Main] \in Seq(Ops)
  BY <1>1 DEF QueueTyped
<1>9. /\ <<fork>> \o <<id, serve, row>> = <<fork, id, serve, row>>
      /\ <<fork, id, serve, row>> \in Seq(Ops) /\ <<fork>> \in Seq(Ops)
      /\ <<id, serve, row>> \in Seq(Ops)
  BY <1>3, JoinTwo, JoinOneThree
<1>10. /\ <<id, serve, row>> \o <<gather>> = <<id, serve, row, gather>>
       /\ <<id, serve, row, gather>> \in Seq(Ops)
  BY <1>3, JoinThreeOne
<1>11. /\ <<join>> \o <<gather>> = <<join, gather>> /\ <<join, gather>> \in Seq(Ops)
       /\ <<join>> \in Seq(Ops) /\ <<gather>> \in Seq(Ops)
  BY <1>3, JoinTwo
<1>12. /\ <<id, serve, row>> \o <<compare>> = <<id, serve, row, compare>>
       /\ <<id, serve, row, compare>> \in Seq(Ops)
  BY <1>3, JoinThreeOne
<1>13. /\ <<join, gather>> \o <<id, serve, row, compare>>
            = <<join, gather, id, serve, row, compare>>
       /\ <<join, gather, id, serve, row, compare>> \in Seq(Ops)
  BY <1>3, JoinSix
<1>14. Prefetch => queue' = [queue EXCEPT ![layer] = @ \o SideOps(layer)]
  <2>1. (queue[layer] \o <<fork>>) \o <<id, serve, row>> = queue[layer] \o (<<fork>> \o <<id, serve, row>>)
    BY <1>8, <1>9, ConcatAssociative
  <2>2. QED
    BY <1>4, <1>5, <1>9, <2>1
<1>15. LookUp => queue' = [queue EXCEPT ![Main] = @ \o SyncOps(layer)]
  BY <1>4, <1>6, <1>10
<1>16. Gather => queue' = [queue EXCEPT ![Main] =
                              @ \o (IF check THEN CheckOps(layer) ELSE JoinOps(layer))]
  <2>1. (queue[Main] \o <<join>>) \o <<gather>> = queue[Main] \o (<<join>> \o <<gather>>)
    BY <1>8, <1>11, ConcatAssociative
  <2>2. (queue[Main] \o <<join, gather>>) \o <<id, serve, row, compare>>
          = queue[Main] \o (<<join, gather>> \o <<id, serve, row, compare>>)
    BY <1>8, <1>11, <1>12, ConcatAssociative
  <2>3. (queue[Main] \o <<join, gather>>) \o <<>> = queue[Main] \o <<join, gather>>
    BY <1>8, <1>11, ConcatProperties, ConcatEmptySeq
  <2>4. CASE check
    BY <1>4, <1>7, <1>11, <1>12, <1>13, <2>1, <2>2, <2>4
  <2>5. CASE ~check
    BY <1>4, <1>7, <1>11, <2>1, <2>3, <2>5
  <2>6. QED
    BY <2>4, <2>5
<1>17. QED
  BY <1>4, <1>9, <1>10, <1>11, <1>13, <1>14, <1>15, <1>16

-----------------------------------------------------------------------------
(* Types: also of what is queued after an error or for other ids. *)

LEMMA TypedInit == Init /\ PrefetchAssumption => QueueTyped
<1> SUFFICES ASSUME Init, PrefetchAssumption PROVE QueueTyped
  OBVIOUS
<1>1. /\ queue \in [Streams -> Seq(Ops)] /\ done \in [Streams -> Nat]
      /\ pending \in [Embeds -> BOOLEAN]
      /\ step \in Nat /\ slot \in Slots /\ errors \in Nat /\ others \in Nat
  BY DEF Init, Slots
<1>2. disabled \in BOOLEAN /\ check \in BOOLEAN /\ differed \in BOOLEAN
  BY DEF Init
<1>3. at = "idle" /\ layer \in Embeds
  BY DEF Init, Embeds, PrefetchAssumption
<1>4. /\ DOMAIN hash = Slots /\ DOMAIN ids = Embeds /\ DOMAIN rows = Embeds
      /\ DOMAIN device = Embeds /\ DOMAIN out = Embeds
  BY DEF Init
<1>5. QED
  BY <1>1, <1>2, <1>3, <1>4 DEF QueueTyped

LEMMA AppendTyped ==
  ASSUME QueueTyped, NEW s \in Streams, NEW q \in Seq(Ops),
         queue' = [queue EXCEPT ![s] = q]
  PROVE  queue' \in [Streams -> Seq(Ops)]
  BY DEF QueueTyped

LEMMA AdvanceTyped ==
  ASSUME QueueTyped, PrefetchAssumption, NEW from \in {"prefetch", "layer"}, Advance(from)
  PROVE  at' \in {"idle", "prefetch", "layer"} /\ layer' \in Embeds
  BY DEF QueueTyped, Advance, Embeds, PrefetchAssumption

LEMMA TypedPython ==
  ASSUME QueueTyped, PrefetchAssumption,
         \/ Forward \/ Prefetch \/ PrefetchFails
         \/ Gather \/ LookUp \/ LookUpOther \/ LookUpFails
  PROVE  QueueTyped'
<1> DEFINE Kept == UNCHANGED <<check, done, hash, ids, rows, device, out, differed>>
<1>1. /\ Main \in Streams /\ Main \in Nat /\ layer \in Embeds /\ layer \in Streams
      /\ layer \in Nat /\ step \in Nat /\ slot \in Int /\ slot \in Slots
      /\ Issued(Main) \in Int /\ Issued(layer) \in Int
      /\ queue[Main] \in Seq(Ops) /\ queue[layer] \in Seq(Ops)
  BY StreamsTyped, NumberedOps DEF QueueTyped, Slots, Main
<1>2. Fork(layer) \in Seq(Ops) /\ Join(layer) \in Seq(Ops)
  BY <1>1 DEF Fork, Join, Op, OpOf, Ops, Kinds
<1>3. ASSUME NEW n \in Int PROVE <<Op("ids", layer, n)>> \in Seq(Ops)
  BY <1>1 DEF Op, OpOf, Ops, Kinds
<1>4. ASSUME NEW n \in Int PROVE <<Op("gather", layer, n)>> \in Seq(Ops)
  BY <1>1 DEF Op, OpOf, Ops, Kinds
<1>5. ASSUME NEW n \in Int, NEW m \in Int
      PROVE  Synchronous(layer, n, "gather", m) \in Seq(Ops)
  <2>1. Lookup(layer, n) \in Seq(Ops)
    BY <1>1 DEF Lookup, Op, OpOf, Ops, Kinds
  <2>2. QED
    BY <1>4, <2>1, ConcatProperties DEF Synchronous
<1>6. CASE Forward
  <2>1. slot' \in Slots /\ step' = step + 1
    BY <1>6 DEF Forward
  <2>2. OpOf(step + 1, "hash", slot', step + 1) \in Ops
    BY <1>1, <2>1 DEF OpOf, Ops, Kinds, Slots
  <2>3. Append(queue[Main], OpOf(step + 1, "hash", slot', step + 1)) \in Seq(Ops)
    BY <1>1, <2>2, AppendProperties
  <2>4. queue' \in [Streams -> Seq(Ops)]
    BY <1>1, <1>6, <2>3, AppendTyped DEF Forward
  <2>5. at' \in {"layer", "prefetch"} /\ UNCHANGED <<layer, pending, disabled, errors, others>> /\ Kept
    BY <1>6 DEF Forward, memory
  <2>6. QED
    BY <1>1, <2>1, <2>4, <2>5 DEF QueueTyped
<1>7. CASE Prefetch
  <2>1. queue' \in [Streams -> Seq(Ops)]
    BY <1>1, <1>7, QueuedOps, Queueing DEF Prefetch
  <2>2. at' \in {"idle", "prefetch", "layer"} /\ layer' \in Embeds
    BY <1>7, AdvanceTyped DEF Prefetch
  <2>3. pending' \in [Embeds -> BOOLEAN] /\ UNCHANGED <<step, slot, disabled, errors, others>> /\ Kept
    BY <1>7 DEF Prefetch, memory, QueueTyped
  <2>4. QED
    BY <2>1, <2>2, <2>3 DEF QueueTyped
<1>8. CASE PrefetchFails
  <2>1. (queue[layer] \o Fork(layer)) \o <<Op("ids", layer, slot)>> \in Seq(Ops)
    BY <1>1, <1>2, <1>3, ConcatProperties
  <2>2. queue' \in [Streams -> Seq(Ops)]
    BY <1>1, <1>8, <2>1, AppendTyped DEF PrefetchFails, QueueTyped
  <2>3. /\ at' = "layer" /\ layer' \in Embeds /\ errors' \in Nat
        /\ disabled' = TRUE /\ pending' \in [Embeds -> BOOLEAN]
        /\ UNCHANGED <<step, slot, others>> /\ Kept
    BY <1>8 DEF PrefetchFails, memory, QueueTyped, Embeds, PrefetchAssumption
  <2>4. QED
    BY <2>2, <2>3 DEF QueueTyped
<1>9. CASE Gather
  <2>1. queue' \in [Streams -> Seq(Ops)]
    <3>1. CASE check
      BY <1>1, <1>9, <3>1, QueuedOps, Queueing DEF Gather
    <3>2. CASE ~check
      BY <1>1, <1>9, <3>2, QueuedOps, Queueing DEF Gather
    <3>3. QED
      BY <3>1, <3>2
  <2>2. at' \in {"idle", "prefetch", "layer"} /\ layer' \in Embeds
    BY <1>9, AdvanceTyped DEF Gather
  <2>3. pending' \in [Embeds -> BOOLEAN] /\ UNCHANGED <<step, slot, disabled, errors, others>> /\ Kept
    BY <1>9 DEF Gather, memory, QueueTyped
  <2>4. QED
    BY <2>1, <2>2, <2>3 DEF QueueTyped
<1>10. CASE LookUp \/ LookUpOther
  <2>1. queue' \in [Streams -> Seq(Ops)]
    <3>1. queue[Main] \o Synchronous(layer, slot, "gather", step) \in Seq(Ops)
      BY <1>1, <1>5, ConcatProperties
    <3>2. Other(step) \in Int
      BY <1>1 DEF Other
    <3>3. queue[Main] \o Synchronous(layer, Other(step), "gather", Other(step)) \in Seq(Ops)
      BY <1>1, <1>5, <3>2, ConcatProperties
    <3>4. QED
      BY <1>1, <1>10, <3>1, <3>3, AppendTyped DEF LookUp, LookUpOther
  <2>2. at' \in {"idle", "prefetch", "layer"} /\ layer' \in Embeds
    BY <1>10, AdvanceTyped DEF LookUp, LookUpOther
  <2>3. others' \in Nat /\ UNCHANGED <<step, slot, pending, disabled, errors>> /\ Kept
    BY <1>10 DEF LookUp, LookUpOther, memory, QueueTyped
  <2>4. QED
    BY <2>1, <2>2, <2>3 DEF QueueTyped
<1>11. CASE LookUpFails
  <2>1. queue' \in [Streams -> Seq(Ops)]
    <3> DEFINE gathered == IF pending[layer] THEN Join(layer) \o <<Op("gather", layer, step)>> ELSE <<>>
    <3>1. gathered \in Seq(Ops)
      <4>1. Join(layer) \o <<Op("gather", layer, step)>> \in Seq(Ops)
        BY <1>1, <1>2, <1>4, ConcatProperties
      <4>2. QED
        BY <4>1
    <3>2. queue' = [queue EXCEPT ![Main] = @ \o gathered \o <<Op("ids", layer, slot)>>]
      BY <1>11 DEF LookUpFails
    <3> HIDE DEF gathered
    <3>3. (queue[Main] \o gathered) \o <<Op("ids", layer, slot)>> \in Seq(Ops)
      BY <1>1, <1>3, <3>1, ConcatProperties
    <3>4. QED
      BY <1>1, <3>2, <3>3, AppendTyped
  <2>2. /\ at' = "failed" /\ errors' \in Nat /\ pending' \in [Embeds -> BOOLEAN]
        /\ UNCHANGED <<step, slot, layer, disabled, others>> /\ Kept
    BY <1>11 DEF LookUpFails, memory, QueueTyped
  <2>3. QED
    BY <2>1, <2>2 DEF QueueTyped
<1>12. QED
  BY <1>6, <1>7, <1>8, <1>9, <1>10, <1>11

LEMMA TypedRun ==
  ASSUME QueueTyped, NEW s \in Streams, Run(s)
  PROVE  QueueTyped'
<1>1. /\ UNCHANGED <<step, slot, at, layer, pending, disabled, errors, others, check>>
      /\ Effect(Head(queue[s]))
  BY DEF Run, python
<1>2. queue' \in [Streams -> Seq(Ops)] /\ done' \in [Streams -> Nat]
  BY Running
<1>3. Head(queue[s]).do \in Kinds
  BY Running, NumberedOps DEF Ops
<1>4. /\ DOMAIN hash' = Slots /\ DOMAIN ids' = Embeds /\ DOMAIN rows' = Embeds
      /\ DOMAIN device' = Embeds /\ DOMAIN out' = Embeds
  BY <1>1, <1>3 DEF Effect, QueueTyped, Kinds, memory
<1>5. differed' \in BOOLEAN
  BY <1>1, <1>3 DEF Effect, QueueTyped, Kinds, memory
<1>6. QED
  BY <1>1, <1>2, <1>4, <1>5 DEF QueueTyped

-----------------------------------------------------------------------------
(* Steps of the Python thread, without an error so far. *)

\* What is queued takes nothing from what was queued or fetched before.
LEMMA QueueingKeeps ==
  ASSUME QueueTyped, PrefetchAssumption, NEW s \in Streams, NEW new \in Seq(Ops),
         queue' = [queue EXCEPT ![s] = @ \o new],
         UNCHANGED <<done, hash, ids, rows, device, out, differed>>,
         \A i \in 1 .. Len(new) : new[i].do = "hash" => new[i].pass > step
  PROVE  \A m \in 0 .. step :
           /\ Hashed(m) => Hashed(m)'
           /\ \A a \in Slots : SlotHolds(m, a) => SlotHolds(m, a)'
           /\ \A n \in Int : HashPoint(n, m) => HashPoint(n, m)'
           /\ \A e \in Embeds : (e = s => \A i \in 1 .. Len(new) : new[i].pass > m) =>
                /\ Drained(e, m) => Drained(e, m)'
                /\ \A n \in Int : Fetched(e, n, m) => Fetched(e, n, m)'
<1> TAKE m \in 0 .. step
<1>0. done[Main] \in Nat /\ \A k \in Pending(Main) : k \in Nat
  BY StreamsTyped, NumberedOps
<1>1. ASSUME NEW u \in Streams
      PROVE  /\ \A k \in Pending(u) : k \in Pending(u)' /\ OpAt(u, k)' = OpAt(u, k)
             /\ \A k \in Pending(u)' :
                  \/ k \in Pending(u)
                  \/ u = s /\ \E i \in 1 .. Len(new) : OpAt(u, k)' = new[i]
  <2>1. \A k \in Pending(u) : k \in Int
    BY NumberedOps
  <2>2. CASE u = s
    <3>1. Issued(s) \in Nat /\ Len(new) \in Nat /\ \A k \in Pending(s)' : k \in Int
      BY NumberedOps, Queueing DEF Pending, QueueTyped, Issued
    <3>2. \A k \in Pending(s) : k \in Pending(s)' /\ OpAt(s, k)' = OpAt(s, k)
      BY <2>1, <2>2, Queueing
    <3>3. \A k \in Pending(s)' : k \in Pending(s) \/ k \in Issued(s) + 1 .. Issued(s) + Len(new)
      BY <3>1, Queueing
    <3>4. \A k \in Issued(s) + 1 .. Issued(s) + Len(new) : OpAt(s, k)' = new[k - Issued(s)]
      BY Queueing
    <3>5. \A k \in Issued(s) + 1 .. Issued(s) + Len(new) : k - Issued(s) \in 1 .. Len(new)
      BY <3>1
    <3>6. \A k \in Pending(s)' : k \in Pending(s) \/ \E i \in 1 .. Len(new) : OpAt(s, k)' = new[i]
      BY <3>3, <3>4, <3>5
    <3>7. QED
      BY <2>2, <3>2, <3>6 DEF Pending, Issued, OpAt
  <2>3. CASE u # s
    <3>1. Pending(u)' = Pending(u) /\ \A k \in Pending(u) : OpAt(u, k)' = OpAt(u, k)
      BY <2>3, Queueing
    <3>2. QED
      BY <3>1 DEF Pending, Issued, OpAt
  <2>4. QED
    BY <2>2, <2>3
<1>2. Hashed(m) => Hashed(m)'
  <2>1. Main \in Streams /\ step \in Nat
    BY StreamsTyped DEF QueueTyped
  <2>2. \A k \in Pending(Main)' : k \in Pending(Main)
           \/ \E i \in 1 .. Len(new) : OpAt(Main, k)' = new[i]
    BY <1>1, <2>1
  <2>3. \A k \in Pending(Main) : OpAt(Main, k)' = OpAt(Main, k)
    BY <1>1, <2>1
  <2>4. \A i \in 1 .. Len(new) : new[i].pass \in Nat
    <3>1. \A i \in 1 .. Len(new) : new[i] \in Ops
      OBVIOUS
    <3>2. QED
      BY <3>1 DEF Ops
  <2>5. QED
    BY <2>1, <2>2, <2>3, <2>4 DEF Hashed, HashAt
<1>3. ASSUME NEW a \in Slots, SlotHolds(m, a) PROVE SlotHolds(m, a)'
  BY <1>1, <1>2, <1>3, StreamsTyped DEF SlotHolds, HashAt
<1>4. ASSUME NEW n \in Int, HashPoint(n, m) PROVE HashPoint(n, m)'
  BY <1>1, <1>2, <1>4, StreamsTyped DEF HashPoint, HashAt
<1>5. ASSUME NEW e \in Embeds, e = s => \A i \in 1 .. Len(new) : new[i].pass > m
      PROVE  /\ Drained(e, m) => Drained(e, m)'
             /\ \A n \in Int : Fetched(e, n, m) => Fetched(e, n, m)'
  <2>1. Drained(e, m) => Drained(e, m)'
    BY <1>1, <1>5, StreamsTyped DEF Drained
  <2>2. ASSUME NEW n \in Int, Fetched(e, n, m) PROVE Fetched(e, n, m)'
    BY <1>1, <1>2, <2>1, <2>2, StreamsTyped DEF Fetched
  <2>3. QED
    BY <2>1, <2>2
<1>6. QED
  BY <1>2, <1>3, <1>4, <1>5

\* The stream's first operation is as before, or the first of what was queued.
LEMMA QueueingHeads ==
  ASSUME QueueTyped, NEW s \in Streams, NEW new \in Seq(Ops), Len(new) > 0,
         queue' = [queue EXCEPT ![s] = @ \o new], done' = done
  PROVE  \A u \in Streams : LET k == done[u] + 1 IN k \in Pending(u)' =>
           \/ k \in Pending(u) /\ OpAt(u, k)' = OpAt(u, k)
           \/ u = s /\ OpAt(u, k)' = new[1] /\ k \notin Pending(u)
<1> TAKE u \in Streams
<1>1. CASE u = s
  <2>1. done[s] + 1 \in Pending(s)' /\ done[s] + 1 \notin Pending(s) => done[s] = Issued(s)
    BY NumberedOps, Queueing DEF Pending
  <2>2. done[s] = Issued(s) => OpAt(s, done[s] + 1)' = new[1]
    <3>1. Issued(s) + 1 \in Issued(s) + 1 .. Issued(s) + Len(new)
      BY NumberedOps
    <3>2. \A k \in Issued(s) + 1 .. Issued(s) + Len(new) : OpAt(s, k)' = new[k - Issued(s)]
      BY Queueing
    <3>3. PICK n \in Nat : n = Issued(s)
      BY NumberedOps
    <3>4. OpAt(s, n + 1)' = new[(n + 1) - n]
      BY <3>1, <3>2, <3>3
    <3>5. QED
      BY <3>3, <3>4
  <2>3. done[s] + 1 \in Pending(s) => OpAt(s, done[s] + 1)' = OpAt(s, done[s] + 1)
    BY Queueing
  <2>4. QED
    BY <1>1, <2>1, <2>2, <2>3
<1>2. CASE u # s
  BY <1>2, Queueing
<1>3. QED
  BY <1>1, <1>2

\* A new pass: the main stream gets its hash ids.
LEMMA ForwardStep ==
  ASSUME QueueTyped, PrefetchAssumption, SmoothInv, Forward
  PROVE  SmoothInv'
<1>1. /\ at = "idle" /\ step' = step + 1 /\ slot' \in Slots /\ step \in Nat
      /\ at' = (IF disabled THEN "layer" ELSE "prefetch") /\ layer = 1
      /\ UNCHANGED <<layer, pending, disabled, check, done, hash, ids, rows, device, out, differed>>
      /\ \A e \in Embeds : ~pending[e]
  BY DEF Forward, memory, SmoothInv, Python, QueueTyped
<1>2. PICK op \in Ops : op = OpOf(step + 1, "hash", slot', step + 1)
  <2>1. slot' \in Nat
    BY <1>1 DEF Slots
  <2>2. OpOf(step + 1, "hash", slot', step + 1) \in Ops
    BY <1>1, <2>1 DEF OpOf, Ops, Kinds
  <2>3. QED
    BY <2>2
<1>3. op.do = "hash" /\ op.e = slot' /\ op.n = step + 1 /\ op.pass = step + 1
  BY <1>2 DEF OpOf
<1>4. queue' = [queue EXCEPT ![Main] = @ \o <<op>>] /\ <<op>> \in Seq(Ops)
  <2>1. queue[Main] \in Seq(Ops)
    BY StreamsTyped DEF QueueTyped
  <2>2. Append(queue[Main], op) = queue[Main] \o <<op>>
    BY <2>1, AppendIsConcat
  <2>3. queue' = [queue EXCEPT ![Main] = Append(@, op)]
    BY <1>2 DEF Forward
  <2>4. QED
    BY <2>2, <2>3
<1>5. PICK n \in Nat : n = Issued(Main)
  BY StreamsTyped, NumberedOps
<1>6. /\ n + 1 \in Pending(Main)' /\ Issued(Main)' = n + 1 /\ OpAt(Main, n + 1)' = op
      /\ \A k \in Pending(Main)' : k \in Pending(Main) \/ k = n + 1
      /\ \A k \in Pending(Main) : k \in Pending(Main)' /\ k <= n /\ k \in Nat
                                 /\ OpAt(Main, k)' = OpAt(Main, k)
  <2>1. /\ Main \in Streams /\ done[Main] \in Nat /\ done[Main] <= n
        /\ Pending(Main) = done[Main] + 1 .. n
    BY <1>5, StreamsTyped, NumberedOps DEF Pending
  <2>2. Issued(Main)' = n + 1
    BY <1>1, <1>4, <1>5, <2>1, Queueing
  <2>3. Pending(Main)' = done[Main] + 1 .. n + 1
    BY <1>1, <2>2 DEF Pending
  <2>4. OpAt(Main, n + 1)' = op
    <3>1. \A k \in n + 1 .. n + Len(<<op>>) : OpAt(Main, k)' = <<op>>[k - n]
      BY <1>1, <1>4, <1>5, <2>1, Queueing
    <3>2. n + 1 \in n + 1 .. n + Len(<<op>>) /\ (n + 1) - n = 1
      OBVIOUS
    <3>3. QED
      BY <3>1, <3>2
  <2>5. \A k \in Pending(Main) : OpAt(Main, k)' = OpAt(Main, k)
    BY <1>1, <1>4, <2>1, Queueing
  <2>6. QED
    BY <2>1, <2>2, <2>3, <2>4, <2>5
<1>7. \A e \in Embeds : /\ Issued(e)' = Issued(e) /\ Pending(e)' = Pending(e)
                        /\ \A k \in Pending(e) : OpAt(e, k)' = OpAt(e, k)
  <2>1. \A u \in Streams \ {Main} : /\ Issued(u)' = Issued(u) /\ Pending(u)' = Pending(u)
                                    /\ \A k \in Pending(u) : OpAt(u, k)' = OpAt(u, k)
    BY <1>1, <1>4, StreamsTyped, Queueing
  <2>2. QED
    BY <2>1, StreamsTyped
<1>8. Order'
  <2>1. MainTyped'
    BY <1>1, <1>3, <1>6 DEF SmoothInv, Order, MainTyped
  <2>2. MainShape'
    BY <1>1, <1>3, <1>6 DEF SmoothInv, Order, MainShape, MainNext, Begins
  <2>3. MainOrder'
    BY <1>1, <1>3, <1>6 DEF SmoothInv, Order, MainOrder, MainTyped, HashAt
  <2>4. SideTyped' /\ SideShape' /\ SideOrder'
    BY <1>1, <1>7 DEF SmoothInv, Order, SideTyped, SideShape, SideOrder
  <2>5. QED
    BY <2>1, <2>2, <2>3, <2>4 DEF Order
<1>9. \A m \in 0 .. step :
        /\ Hashed(m) => Hashed(m)'
        /\ \A a \in Slots : SlotHolds(m, a) => SlotHolds(m, a)'
        /\ \A i \in Int : HashPoint(i, m) => HashPoint(i, m)'
        /\ \A e \in Embeds :
             /\ Drained(e, m) => Drained(e, m)'
             /\ \A i \in Int : Fetched(e, i, m) => Fetched(e, i, m)'
  <2>1. \A i \in 1 .. Len(<<op>>) : <<op>>[i].do = "hash" => <<op>>[i].pass > step
    BY <1>1, <1>3
  <2>2. \A e \in Embeds : e # Main
    BY StreamsTyped
  <2>3. QED
    BY <1>1, <1>4, <2>1, <2>2, StreamsTyped, QueueingKeeps
<1>10. Links'
  <2>1. IdsOfPass'
    <3>1. SlotHolds(step, slot)'
      BY <1>1, <1>3, <1>6 DEF SlotHolds, HashAt
    <3>2. ASSUME NEW k \in Pending(Main)', OpAt(Main, k)'.do = "ids"
          PROVE  SlotHolds(OpAt(Main, k).pass, OpAt(Main, k).n)'
      <4>1. k \in Pending(Main) /\ OpAt(Main, k)' = OpAt(Main, k)
        BY <1>3, <1>6, <3>2
      <4>2. PICK m \in 0 .. step, a \in Slots : m = OpAt(Main, k).pass /\ a = OpAt(Main, k).n
        BY <3>2, <4>1 DEF SmoothInv, Order, MainTyped
      <4>3. SlotHolds(m, a)
        BY <3>2, <4>1, <4>2, StreamsTyped DEF SmoothInv, Links, IdsOfPass
      <4>4. SlotHolds(m, a)'
        BY <1>9, <4>3
      <4>5. QED
        BY <4>1, <4>2, <4>4
    <3>3. ASSUME NEW e \in Embeds, NEW k \in Pending(e)', OpAt(e, k)'.do = "ids"
          PROVE  SlotHolds(OpAt(e, k).pass, OpAt(e, k).n)'
      <4>1. k \in Pending(e) /\ OpAt(e, k)' = OpAt(e, k)
        BY <1>7, <3>3
      <4>2. PICK m \in 0 .. step, a \in Slots : m = OpAt(e, k).pass /\ a = OpAt(e, k).n
        BY <3>3, <4>1 DEF SmoothInv, Order, SideTyped
      <4>3. SlotHolds(m, a)
        BY <3>3, <4>1, <4>2, StreamsTyped DEF SmoothInv, Links, IdsOfPass
      <4>4. SlotHolds(m, a)'
        BY <1>9, <4>3
      <4>5. QED
        BY <4>1, <4>2, <4>4
    <3>4. QED
      BY <3>1, <3>2, <3>3 DEF IdsOfPass, Streams
  <2>2. Forked'
    BY <1>7, <1>9 DEF SmoothInv, Order, SideTyped, Links, Forked
  <2>3. Fetching'
    <3>1. ASSUME NEW k \in Pending(Main)', OpAt(Main, k)'.do = "wait"
          PROVE  Fetched(OpAt(Main, k).e, OpAt(Main, k).n, OpAt(Main, k).pass)'
      <4>1. k \in Pending(Main) /\ OpAt(Main, k)' = OpAt(Main, k)
        BY <1>3, <1>6, <3>1
      <4>2. PICK m \in 0 .. step, e \in Embeds, i \in Int :
              m = OpAt(Main, k).pass /\ e = OpAt(Main, k).e /\ i = OpAt(Main, k).n
        BY <3>1, <4>1 DEF SmoothInv, Order, MainTyped
      <4>3. Fetched(e, i, m)
        BY <3>1, <4>1, <4>2 DEF SmoothInv, Links, Fetching
      <4>4. Fetched(e, i, m)'
        BY <1>9, <4>3
      <4>5. QED
        BY <4>1, <4>2, <4>4
    <3>2. \A e \in Embeds : ~pending'[e]
      BY <1>1
    <3>3. QED
      BY <3>1, <3>2 DEF Fetching
  <2>4. Joined'
    BY <1>1, <1>6, <1>7 DEF SmoothInv, Links, Joined
  <2>5. QED
    BY <2>1, <2>2, <2>3, <2>4 DEF Links
<1>11. Python'
  <2>1. \A k \in Pending(Main)' : ~HashAt(k)' => OpAt(Main, k)'.pass < step'
    BY <1>1, <1>3, <1>6 DEF HashAt, SmoothInv, Order, MainTyped
  <2>2. HashPoint(Issued(Main), step)'
    BY <1>1, <1>3, <1>6 DEF HashPoint, HashAt
  <2>3. \A e \in Embeds : e \in Nat /\ e >= 1
    BY DEF Embeds
  <2>4. QED
    BY <1>1, <2>1, <2>2, <2>3 DEF SmoothInv, Python
<1>12. Reads'
  <2>1. MainReads'
    <3>1. CASE done[Main] + 1 \in Pending(Main)
      <4>1. PICK h \in Pending(Main) : h = done[Main] + 1
        BY <3>1
      <4>2. OpAt(Main, h)' = OpAt(Main, h) /\ done' = done
        BY <1>1, <1>6
      <4>3. OpAt(Main, h).pass \in 0 .. step
            /\ (OpAt(Main, h).do # "hash" => OpAt(Main, h).e \in Embeds)
        BY DEF SmoothInv, Order, MainTyped
      <4>4. OpAt(Main, h).do # "hash" =>
              (Drained(OpAt(Main, h).e, OpAt(Main, h).pass) =>
               Drained(OpAt(Main, h).e, OpAt(Main, h).pass)')
        BY <1>9, <4>2, <4>3
      <4>5. QED
        BY <1>1, <1>6, <4>1, <4>2, <4>4 DEF SmoothInv, Reads, MainReads
    <3>2. CASE done[Main] + 1 \notin Pending(Main)
      BY <1>1, <1>3, <1>6, <3>2 DEF MainReads
    <3>3. QED
      BY <3>1, <3>2
  <2>2. SideReads'
    BY <1>1, <1>7, <1>9 DEF SmoothInv, Reads, SideReads, Order, SideTyped
  <2>3. Exact'
    BY <1>1 DEF SmoothInv, Reads, Exact, GatherExact
  <2>4. QED
    BY <2>1, <2>2, <2>3 DEF Reads
<1>13. QED
  BY <1>8, <1>10, <1>11, <1>12 DEF SmoothInv

\* Where queued operations stand.
LEMMA Placed ==
  ASSUME QueueTyped, NEW s \in Streams, NEW new \in Seq(Ops),
         queue' = [queue EXCEPT ![s] = @ \o new], done' = done
  PROVE  \A N \in Nat : N = Issued(s) =>
           /\ Issued(s)' = N + Len(new) /\ Len(new) \in Nat
           /\ \A k \in Pending(s) : k \in Nat /\ k <= N /\ k \in Pending(s)'
                                    /\ OpAt(s, k)' = OpAt(s, k)
           /\ \A i \in 1 .. Len(new) :
                N + i \in Pending(s)' /\ N + i \notin Pending(s) /\ OpAt(s, N + i)' = new[i]
           /\ \A k \in Pending(s)' : k \in Pending(s) \/ k \in N + 1 .. N + Len(new)
<1> SUFFICES ASSUME NEW N \in Nat, N = Issued(s)
             PROVE  /\ Issued(s)' = N + Len(new) /\ Len(new) \in Nat
                    /\ \A k \in Pending(s) : k \in Nat /\ k <= N /\ k \in Pending(s)'
                                             /\ OpAt(s, k)' = OpAt(s, k)
                    /\ \A i \in 1 .. Len(new) :
                         /\ N + i \in Pending(s)' /\ N + i \notin Pending(s)
                         /\ OpAt(s, N + i)' = new[i]
                    /\ \A k \in Pending(s)' : k \in Pending(s) \/ k \in N + 1 .. N + Len(new)
  OBVIOUS
<1>1. /\ done[s] \in Nat /\ done[s] <= N /\ Pending(s) = done[s] + 1 .. N /\ Len(new) \in Nat
  BY NumberedOps DEF Pending
<1>2. Issued(s)' = N + Len(new)
  BY Queueing
<1>3. Pending(s)' = done[s] + 1 .. N + Len(new)
  BY <1>2 DEF Pending
<1>4. \A k \in Pending(s) : OpAt(s, k)' = OpAt(s, k)
  BY Queueing
<1>5. ASSUME NEW i \in 1 .. Len(new) PROVE OpAt(s, N + i)' = new[i]
  <2>1. \A k \in N + 1 .. N + Len(new) : OpAt(s, k)' = new[k - N]
    BY Queueing
  <2>2. N + i \in N + 1 .. N + Len(new) /\ (N + i) - N = i
    BY <1>1
  <2>3. QED
    BY <2>1, <2>2
<1>6. QED
  BY <1>1, <1>2, <1>3, <1>4, <1>5

\* What was queued before keeps its links and what it reads.
LEMMA QueueingLinks ==
  ASSUME QueueTyped, PrefetchAssumption, SmoothInv, NEW s \in Streams, NEW new \in Seq(Ops),
         queue' = [queue EXCEPT ![s] = @ \o new],
         UNCHANGED <<done, disabled, hash, ids, rows, device, out, differed>>,
         \A i \in 1 .. Len(new) : new[i].do # "hash" /\ new[i].pass = step,
         s # Main => \A k \in Pending(Main) : ~HashAt(k) => OpAt(Main, k).pass < step
  PROVE  /\ \A u \in Streams : \A k \in Pending(u) :
              (OpAt(u, k).do = "ids" => SlotHolds(OpAt(u, k).pass, OpAt(u, k).n))'
         /\ \A e \in Embeds : \A k \in Pending(e) :
              (OpAt(e, k).do = "wait" => HashPoint(OpAt(e, k).n, OpAt(e, k).pass))'
         /\ \A k \in Pending(Main) :
              (OpAt(Main, k).do = "wait" =>
                 Fetched(OpAt(Main, k).e, OpAt(Main, k).n, OpAt(Main, k).pass))'
         /\ done[Main] + 1 \in Pending(Main) => MainReads'
         /\ \A e \in Embeds : done[e] + 1 \in Pending(e) =>
              (LET k == done[e] + 1  op == OpAt(e, k) IN
                 k \in Pending(e) /\ op.do # "wait" =>
                   /\ Hashed(op.pass)
                   /\ op.do = "serve" => ids[e] = op.pass
                   /\ op.do = "rows" => rows[e] = op.pass)'
         /\ Exact'
<1>1. \A m \in 0 .. step :
        /\ Hashed(m) => Hashed(m)'
        /\ \A a \in Slots : SlotHolds(m, a) => SlotHolds(m, a)'
        /\ \A n \in Int : HashPoint(n, m) => HashPoint(n, m)'
        /\ \A e \in Embeds : (e = s => \A i \in 1 .. Len(new) : new[i].pass > m) =>
             /\ Drained(e, m) => Drained(e, m)'
             /\ \A n \in Int : Fetched(e, n, m) => Fetched(e, n, m)'
  BY QueueingKeeps
<1>2. /\ Main \in Streams /\ Main \notin Embeds /\ step \in Nat
      /\ \A e \in Embeds : e \in Streams
  BY StreamsTyped DEF QueueTyped
<1>3. \A u \in Streams : \A k \in Pending(u) : k \in Pending(u)' /\ OpAt(u, k)' = OpAt(u, k)
  <2> TAKE u \in Streams
  <2> TAKE k \in Pending(u)
  <2>1. k \in Int
    BY NumberedOps
  <2>2. CASE u = s
    BY <2>1, <2>2, Queueing
  <2>3. CASE u # s
    BY <2>3, Queueing
  <2>4. QED
    BY <2>2, <2>3
<1>4. ASSUME NEW k \in Pending(Main), OpAt(Main, k).do # "hash"
      PROVE  \A m \in 0 .. step : m = OpAt(Main, k).pass =>
               \A e \in Embeds : e = s => \A i \in 1 .. Len(new) : new[i].pass > m
  BY <1>2, <1>4 DEF HashAt
<1>5. ASSUME NEW u \in Streams, NEW k \in Pending(u), OpAt(u, k)'.do = "ids"
      PROVE  SlotHolds(OpAt(u, k).pass, OpAt(u, k).n)'
  <2>1. OpAt(u, k).do = "ids" /\ OpAt(u, k)' = OpAt(u, k)
    BY <1>3, <1>5
  <2>2. PICK m \in 0 .. step, a \in Slots : m = OpAt(u, k).pass /\ a = OpAt(u, k).n
    <3>1. CASE u = Main
      BY <2>1, <3>1 DEF SmoothInv, Order, MainTyped
    <3>2. CASE u \in Embeds
      BY <2>1, <3>2 DEF SmoothInv, Order, SideTyped
    <3>3. QED
      BY <3>1, <3>2 DEF Streams
  <2>3. SlotHolds(m, a)
    BY <2>1, <2>2 DEF SmoothInv, Links, IdsOfPass
  <2>4. SlotHolds(m, a)'
    BY <1>1, <2>3
  <2>5. QED
    BY <2>1, <2>2, <2>4
<1>6. ASSUME NEW e \in Embeds, NEW k \in Pending(e), OpAt(e, k)'.do = "wait"
      PROVE  HashPoint(OpAt(e, k).n, OpAt(e, k).pass)'
  <2>1. OpAt(e, k).do = "wait" /\ OpAt(e, k)' = OpAt(e, k)
    BY <1>2, <1>3, <1>6
  <2>2. PICK m \in 0 .. step, n \in Int : m = OpAt(e, k).pass /\ n = OpAt(e, k).n
    BY <2>1 DEF SmoothInv, Order, SideTyped
  <2>3. HashPoint(n, m)
    BY <2>1, <2>2 DEF SmoothInv, Links, Forked
  <2>4. HashPoint(n, m)'
    BY <1>1, <2>3
  <2>5. QED
    BY <2>1, <2>2, <2>4
<1>7. ASSUME NEW k \in Pending(Main), OpAt(Main, k)'.do = "wait"
      PROVE  Fetched(OpAt(Main, k).e, OpAt(Main, k).n, OpAt(Main, k).pass)'
  <2>1. OpAt(Main, k).do = "wait" /\ OpAt(Main, k)' = OpAt(Main, k)
    BY <1>2, <1>3, <1>7
  <2>2. PICK m \in 0 .. step, e \in Embeds, n \in Int :
          m = OpAt(Main, k).pass /\ e = OpAt(Main, k).e /\ n = OpAt(Main, k).n
    BY <2>1 DEF SmoothInv, Order, MainTyped
  <2>3. Fetched(e, n, m)
    BY <2>1, <2>2 DEF SmoothInv, Links, Fetching
  <2>4. e = s => \A i \in 1 .. Len(new) : new[i].pass > m
    BY <1>4, <2>1, <2>2
  <2>5. Fetched(e, n, m)'
    BY <1>1, <2>3, <2>4
  <2>6. QED
    BY <2>1, <2>2, <2>5
<1>8. ASSUME done[Main] + 1 \in Pending(Main) PROVE MainReads'
  <2>1. PICK h \in Pending(Main) : h = done[Main] + 1
    BY <1>8
  <2>2. OpAt(Main, h)' = OpAt(Main, h) /\ done'[Main] + 1 = h
    BY <1>2, <1>3, <2>1
  <2>3. ASSUME OpAt(Main, h).do \in {"ids", "serve", "rows", "gather", "compare"}
        PROVE  Drained(OpAt(Main, h).e, OpAt(Main, h).pass)'
    <3>1. PICK m \in 0 .. step, e \in Embeds : m = OpAt(Main, h).pass /\ e = OpAt(Main, h).e
      BY <2>3 DEF SmoothInv, Order, MainTyped
    <3>2. e = s => \A i \in 1 .. Len(new) : new[i].pass > m
      BY <1>4, <2>3, <3>1
    <3>3. Drained(e, m)
      BY <2>1, <2>3, <3>1 DEF SmoothInv, Reads, MainReads
    <3>4. Drained(e, m)'
      BY <1>1, <3>2, <3>3
    <3>5. QED
      BY <2>2, <3>1, <3>4
  <2>4. QED
    BY <2>1, <2>2, <2>3 DEF SmoothInv, Reads, MainReads
<1>9. ASSUME NEW e \in Embeds, done[e] + 1 \in Pending(e)
      PROVE  (LET k == done[e] + 1  op == OpAt(e, k) IN
                k \in Pending(e) /\ op.do # "wait" =>
                  /\ Hashed(op.pass)
                  /\ op.do = "serve" => ids[e] = op.pass
                  /\ op.do = "rows" => rows[e] = op.pass)'
  <2>1. PICK h \in Pending(e) : h = done[e] + 1
    BY <1>9
  <2>2. OpAt(e, h)' = OpAt(e, h) /\ done'[e] + 1 = h
    BY <1>2, <1>3, <2>1
  <2>3. ASSUME OpAt(e, h).do # "wait" PROVE Hashed(OpAt(e, h).pass)'
    <3>1. PICK m \in 0 .. step : m = OpAt(e, h).pass
      BY DEF SmoothInv, Order, SideTyped
    <3>2. Hashed(m)
      BY <2>1, <2>3, <3>1 DEF SmoothInv, Reads, SideReads
    <3>3. QED
      BY <1>1, <2>2, <3>1, <3>2
  <2>4. QED
    BY <2>1, <2>2, <2>3 DEF SmoothInv, Reads, SideReads
<1>10. Exact'
  BY DEF SmoothInv, Reads, Exact, GatherExact
<1>11. QED
  BY <1>5, <1>6, <1>7, <1>8, <1>9, <1>10

\* The rows of a layer are prefetched on its side stream.
LEMMA PrefetchStep ==
  ASSUME QueueTyped, PrefetchAssumption, SmoothInv, Prefetch
  PROVE  SmoothInv'
<1>0. PICK s \in Embeds : s = layer
  BY DEF QueueTyped
<1>1. /\ at = "prefetch" /\ ~disabled /\ layer = s /\ Advance("prefetch")
      /\ pending' = [pending EXCEPT ![s] = TRUE] /\ pending \in [Embeds -> BOOLEAN]
      /\ UNCHANGED <<step, slot, disabled, check, done, hash, ids, rows, device, out, differed>>
      /\ \A e \in Embeds : pending[e] <=> e < s
      /\ \A k \in Pending(Main) : ~HashAt(k) => OpAt(Main, k).pass < step
      /\ HashPoint(Issued(Main), step)
      /\ check => ~disabled
  BY <1>0 DEF Prefetch, memory, SmoothInv, Python, QueueTyped
<1>2. /\ Main \in Streams /\ Main \notin Embeds /\ s \in Streams /\ s \in Nat
      /\ step \in Nat /\ slot \in Slots /\ s # Main /\ \A e \in Embeds : e \in Streams /\ e \in Nat
  BY <1>0, <1>1, StreamsTyped DEF QueueTyped
<1>3. PICK N \in Nat : N = Issued(s)
  BY <1>2, NumberedOps
<1>4. PICK I \in Nat : I = Issued(Main)
  BY <1>2, NumberedOps
<1>5. PICK new \in Seq(Ops) : new = SideOps(s)
  BY <1>0, QueuedOps
<1>6. /\ Len(new) = 4
      /\ new[1].do = "wait" /\ new[1].e = Main /\ new[1].n = I /\ new[1].pass = step
      /\ new[2].do = "ids" /\ new[2].e = s /\ new[2].n = slot /\ new[2].pass = step
      /\ new[3].do = "serve" /\ new[3].e = s /\ new[3].pass = step
      /\ new[4].do = "rows" /\ new[4].e = s /\ new[4].pass = step
  BY <1>4, <1>5 DEF SideOps, Op, OpOf
<1>7. queue' = [queue EXCEPT ![s] = @ \o new]
  BY <1>0, <1>5, QueuedOps
<1>8. /\ Issued(s)' = N + 4
      /\ \A k \in Pending(s) : k \in Nat /\ k <= N /\ k \in Pending(s)'
                                   /\ OpAt(s, k)' = OpAt(s, k)
      /\ \A i \in 1 .. 4 : N + i \in Pending(s)' /\ N + i \notin Pending(s)
                           /\ OpAt(s, N + i)' = new[i]
      /\ \A k \in Pending(s)' : k \in Pending(s) \/ k \in N + 1 .. N + 4
  <2>1. done' = done /\ s \in Streams /\ N = Issued(s)
    BY <1>1, <1>2, <1>3
  <2>2. /\ Issued(s)' = N + Len(new) /\ Len(new) \in Nat
        /\ \A k \in Pending(s) : k \in Nat /\ k <= N /\ k \in Pending(s)'
                                 /\ OpAt(s, k)' = OpAt(s, k)
        /\ \A i \in 1 .. Len(new) : N + i \in Pending(s)' /\ N + i \notin Pending(s)
                                    /\ OpAt(s, N + i)' = new[i]
        /\ \A k \in Pending(s)' : k \in Pending(s) \/ k \in N + 1 .. N + Len(new)
    BY <1>3, <1>7, <2>1, Placed
  <2>3. QED
    BY <1>6, <2>2
<1>9. \A k \in N + 1 .. N + 4 : k = N + 1 \/ k = N + 2 \/ k = N + 3 \/ k = N + 4
  OBVIOUS
<1>10. \A u \in Streams \ {s} :
         /\ Issued(u)' = Issued(u) /\ Pending(u)' = Pending(u)
         /\ \A k \in Pending(u) : OpAt(u, k)' = OpAt(u, k)
  BY <1>1, <1>2, <1>7, Queueing
<1>11. /\ Issued(Main)' = I /\ Pending(Main)' = Pending(Main)
       /\ \A k \in Pending(Main) : OpAt(Main, k)' = OpAt(Main, k)
  BY <1>2, <1>4, <1>10
<1>12. \A k \in Pending(s) : OpAt(s, k).pass < step
  BY <1>1 DEF SmoothInv, Links, Joined, HashAt
<1>13. \A i \in 1 .. Len(new) : new[i].do # "hash" /\ new[i].pass = step
  BY <1>6
<1>14. Order'
  <2>1. MainTyped'
    BY <1>1, <1>11 DEF SmoothInv, Order, MainTyped
  <2>2. MainShape'
    BY <1>1, <1>11 DEF SmoothInv, Order, MainShape, MainNext, Begins
  <2>3. MainOrder'
    BY <1>1, <1>11 DEF SmoothInv, Order, MainOrder, HashAt
  <2>4. SideTyped'
    <3>1. ASSUME NEW e \in Embeds \ {s}, NEW k \in Pending(e)'
          PROVE  k \in Pending(e) /\ OpAt(e, k)' = OpAt(e, k)
      BY <1>2, <1>10, <3>1
    <3>2. \A k \in Pending(s)' : LET op == OpAt(s, k)' IN
            /\ op.pass \in 0 .. step
            /\ op.do \in {"wait", "ids", "serve", "rows"}
            /\ op.e = IF op.do = "wait" THEN Main ELSE s
            /\ op.do = "ids" => op.n \in Slots
            /\ op.do = "wait" => op.n \in Nat
      <4>1. ASSUME NEW k \in Pending(s)
            PROVE  LET op == OpAt(s, k)' IN
                   /\ op.pass \in 0 .. step
                   /\ op.do \in {"wait", "ids", "serve", "rows"}
                   /\ op.e = IF op.do = "wait" THEN Main ELSE s
                   /\ op.do = "ids" => op.n \in Slots
                   /\ op.do = "wait" => op.n \in Nat
        BY <1>8 DEF SmoothInv, Order, SideTyped
      <4>2. ASSUME NEW k \in N + 1 .. N + 4
            PROVE  LET op == OpAt(s, k)' IN
                   /\ op.pass \in 0 .. step
                   /\ op.do \in {"wait", "ids", "serve", "rows"}
                   /\ op.e = IF op.do = "wait" THEN Main ELSE s
                   /\ op.do = "ids" => op.n \in Slots
                   /\ op.do = "wait" => op.n \in Nat
        <5>1. /\ OpAt(s, N + 1)' = new[1] /\ OpAt(s, N + 2)' = new[2]
              /\ OpAt(s, N + 3)' = new[3] /\ OpAt(s, N + 4)' = new[4]
          BY <1>8
        <5>2. step \in 0 .. step /\ I \in Nat
          BY <1>2
        <5>3. QED
          BY <1>2, <1>6, <1>9, <5>1, <5>2
      <4>3. QED
        BY <1>8, <4>1, <4>2
    <3>3. QED
      BY <1>1, <3>1, <3>2 DEF SmoothInv, Order, SideTyped
  <2>5. SideShape'
    <3>1. ASSUME NEW e \in Embeds, e # s, NEW k \in Pending(e)'
          PROVE  /\ k \in Pending(e) /\ OpAt(e, k)' = OpAt(e, k) /\ Pending(e)' = Pending(e)
                 /\ k + 1 \in Pending(e) => OpAt(e, k + 1)' = OpAt(e, k + 1)
      BY <1>2, <1>10, <3>1
    <3>2. \A k \in Pending(s)' :
            LET op == OpAt(s, k)'  do == SideNext(op.do) IN
            IF do = "end"
            THEN k + 1 \in Pending(s)' => OpAt(s, k + 1)'.do = "wait"
            ELSE /\ k + 1 \in Pending(s)'
                 /\ OpAt(s, k + 1)'.do = do /\ OpAt(s, k + 1)'.pass = op.pass
      <4>1. ASSUME NEW k \in Pending(s)
            PROVE  k + 1 \in Pending(s)' => k + 1 \in Pending(s) \/ k + 1 = N + 1
        BY <1>8
      <4>2. ASSUME NEW k \in Pending(s)
            PROVE  LET op == OpAt(s, k)'  do == SideNext(op.do) IN
                   IF do = "end"
                   THEN k + 1 \in Pending(s)' => OpAt(s, k + 1)'.do = "wait"
                   ELSE /\ k + 1 \in Pending(s)'
                        /\ OpAt(s, k + 1)'.do = do /\ OpAt(s, k + 1)'.pass = op.pass
        BY <1>1, <1>6, <1>8, <4>1 DEF SmoothInv, Order, SideShape
      <4>3. N + 4 + 1 \notin Pending(s)'
        BY <1>8
      <4>4. /\ N + 1 + 1 = N + 2 /\ N + 2 + 1 = N + 3 /\ N + 3 + 1 = N + 4
            /\ N + 2 \in Pending(s)' /\ N + 3 \in Pending(s)' /\ N + 4 \in Pending(s)'
            /\ OpAt(s, N + 1)' = new[1] /\ OpAt(s, N + 2)' = new[2]
            /\ OpAt(s, N + 3)' = new[3] /\ OpAt(s, N + 4)' = new[4]
        BY <1>8
      <4>5. ASSUME NEW k \in N + 1 .. N + 4
            PROVE  LET op == OpAt(s, k)'  do == SideNext(op.do) IN
                   IF do = "end"
                   THEN k + 1 \in Pending(s)' => OpAt(s, k + 1)'.do = "wait"
                   ELSE /\ k + 1 \in Pending(s)'
                        /\ OpAt(s, k + 1)'.do = do /\ OpAt(s, k + 1)'.pass = op.pass
        BY <1>6, <1>9, <4>3, <4>4 DEF SideNext
      <4>6. QED
        BY <1>8, <4>2, <4>5
    <3>3. QED
      BY <3>1, <3>2 DEF SmoothInv, Order, SideShape
  <2>6. SideOrder'
    <3>1. ASSUME NEW e \in Embeds, e # s, NEW k \in Pending(e)'
          PROVE  k \in Pending(e) /\ OpAt(e, k)' = OpAt(e, k) /\ Pending(e)' = Pending(e)
      BY <1>2, <1>10, <3>1
    <3>2. \A k, l \in Pending(s)' : k < l =>
            /\ OpAt(s, k)'.pass <= OpAt(s, l)'.pass
            /\ OpAt(s, k)'.do = "rows" => OpAt(s, k)'.pass < OpAt(s, l)'.pass
      <4>1. ASSUME NEW k \in N + 1 .. N + 4
            PROVE  /\ k \in Nat /\ k > N /\ k <= N + 4
                   /\ OpAt(s, k)'.pass = step
                   /\ OpAt(s, k)'.do = "rows" => k = N + 4
        BY <1>6, <1>8, <1>9
      <4>2. ASSUME NEW k \in Pending(s)
            PROVE  /\ k \in Nat /\ k <= N /\ OpAt(s, k)' = OpAt(s, k)
                   /\ OpAt(s, k).pass < step
        BY <1>8, <1>12
      <4>3. \A k, l \in Pending(s) : k < l =>
              /\ OpAt(s, k).pass <= OpAt(s, l).pass
              /\ OpAt(s, k).do = "rows" => OpAt(s, k).pass < OpAt(s, l).pass
        BY <1>1 DEF SmoothInv, Order, SideOrder
      <4>4. \A k \in Pending(s)' : k \in Pending(s) \/ k \in N + 1 .. N + 4
        BY <1>8
      <4>5. \A k \in Pending(s) : OpAt(s, k).pass \in Nat
        BY <1>2, NumberedOps DEF Ops
      <4> SUFFICES ASSUME NEW k \in Pending(s)', NEW l \in Pending(s)', k < l
                   PROVE  /\ OpAt(s, k)'.pass <= OpAt(s, l)'.pass
                          /\ OpAt(s, k)'.do = "rows" => OpAt(s, k)'.pass < OpAt(s, l)'.pass
        OBVIOUS
      <4>6. CASE k \in Pending(s) /\ l \in Pending(s)
        BY <4>2, <4>3, <4>6
      <4>7. CASE k \in Pending(s) /\ l \in N + 1 .. N + 4
        BY <1>2, <4>1, <4>2, <4>5, <4>7
      <4>8. CASE k \in N + 1 .. N + 4 /\ l \in Pending(s)
        BY <4>1, <4>2, <4>8
      <4>9. CASE k \in N + 1 .. N + 4 /\ l \in N + 1 .. N + 4
        BY <1>2, <4>1, <4>9
      <4>10. QED
        BY <4>4, <4>6, <4>7, <4>8, <4>9
    <3>3. QED
      BY <3>1, <3>2 DEF SmoothInv, Order, SideOrder
  <2>7. QED
    BY <2>1, <2>2, <2>3, <2>4, <2>5, <2>6 DEF Order
<1>15. \A m \in 0 .. step :
         /\ \A a \in Slots : SlotHolds(m, a) => SlotHolds(m, a)'
         /\ \A i \in Int : HashPoint(i, m) => HashPoint(i, m)'
         /\ \A e \in Embeds : e # s => \A i \in Int : Fetched(e, i, m) => Fetched(e, i, m)'
  BY <1>1, <1>2, <1>7, <1>13, QueueingKeeps
<1>16. /\ \A u \in Streams : \A k \in Pending(u) :
            (OpAt(u, k).do = "ids" => SlotHolds(OpAt(u, k).pass, OpAt(u, k).n))'
       /\ \A e \in Embeds : \A k \in Pending(e) :
            (OpAt(e, k).do = "wait" => HashPoint(OpAt(e, k).n, OpAt(e, k).pass))'
       /\ \A k \in Pending(Main) :
            (OpAt(Main, k).do = "wait" =>
               Fetched(OpAt(Main, k).e, OpAt(Main, k).n, OpAt(Main, k).pass))'
       /\ done[Main] + 1 \in Pending(Main) => MainReads'
       /\ \A e \in Embeds : done[e] + 1 \in Pending(e) =>
            (LET k == done[e] + 1  op == OpAt(e, k) IN
               k \in Pending(e) /\ op.do # "wait" =>
                 /\ Hashed(op.pass)
                 /\ op.do = "serve" => ids[e] = op.pass
                 /\ op.do = "rows" => rows[e] = op.pass)'
       /\ Exact'
  BY <1>1, <1>2, <1>7, <1>13, QueueingLinks
<1>17. Links'
  <2>1. IdsOfPass'
    <3>1. SlotHolds(step, slot) /\ step \in 0 .. step
      BY <1>2 DEF SmoothInv, Links, IdsOfPass
    <3>2. SlotHolds(step, slot)'
      BY <1>1, <1>2, <1>15, <3>1 DEF SlotHolds, Hashed, HashAt
    <3>3. ASSUME NEW k \in N + 1 .. N + 4
          PROVE  (OpAt(s, k).do = "ids" => SlotHolds(OpAt(s, k).pass, OpAt(s, k).n))'
      <4>1. OpAt(s, k)'.do = "ids" => OpAt(s, k)'.pass = step' /\ OpAt(s, k)'.n = slot'
        BY <1>1, <1>6, <1>8, <1>9
      <4>2. QED
        BY <3>2, <4>1
    <3>4. \A u \in Streams : \A k \in Pending(u)' : k \in Pending(u) \/ (u = s /\ k \in N + 1 .. N + 4)
      BY <1>8, <1>10
    <3>5. QED
      BY <1>16, <3>2, <3>3, <3>4 DEF IdsOfPass
  <2>2. Forked'
    <3>1. HashPoint(I, step)'
      BY <1>1, <1>2, <1>4, <1>15 DEF HashPoint, Hashed, HashAt
    <3>2. ASSUME NEW k \in N + 1 .. N + 4
          PROVE  (OpAt(s, k).do = "wait" => HashPoint(OpAt(s, k).n, OpAt(s, k).pass))'
      <4>1. OpAt(s, k)'.do = "wait" => OpAt(s, k)'.pass = step' /\ OpAt(s, k)'.n = I
        BY <1>1, <1>6, <1>8, <1>9
      <4>2. QED
        BY <3>1, <4>1
    <3>3. \A e \in Embeds : \A k \in Pending(e)' : k \in Pending(e) \/ (e = s /\ k \in N + 1 .. N + 4)
      BY <1>2, <1>8, <1>10
    <3>4. QED
      BY <1>16, <3>2, <3>3 DEF Forked
  <2>3. Fetching'
    <3>1. \A k \in Pending(Main)' : (OpAt(Main, k).do = "wait" =>
            Fetched(OpAt(Main, k).e, OpAt(Main, k).n, OpAt(Main, k).pass))'
      BY <1>11, <1>16
    <3>2. Fetched(s, N + 4, step)'
      BY <1>1, <1>6, <1>8 DEF Fetched
    <3>3. ASSUME NEW e \in Embeds, pending'[e] PROVE Fetched(e, Issued(e), step)'
      <4>1. CASE e = s
        BY <1>1, <1>8, <3>2, <4>1
      <4>2. CASE e # s
        <5>1. PICK n \in Int : n = Issued(e)
          BY <1>2, NumberedOps
        <5>2. Fetched(e, n, step) /\ step \in 0 .. step
          BY <1>1, <1>2, <3>3, <4>2, <5>1 DEF SmoothInv, Links, Fetching
        <5>3. Fetched(e, n, step)'
          BY <1>1, <1>15, <4>2, <5>2 DEF Fetched, Drained, Hashed
        <5>4. Issued(e)' = n
          BY <1>2, <1>10, <4>2, <5>1
        <5>5. QED
          BY <5>3, <5>4
      <4>3. QED
        BY <4>1, <4>2
    <3>4. QED
      BY <3>1, <3>3 DEF Fetching
  <2>4. Joined'
    <3>1. ASSUME NEW k \in N + 1 .. N + 4 PROVE OpAt(s, k)'.pass = step' /\ pending'[s]
      BY <1>1, <1>6, <1>8, <1>9
    <3>2. ASSUME NEW e \in Embeds, NEW k \in Pending(e)
          PROVE  \/ pending'[e] /\ OpAt(e, k)'.pass = step'
                 \/ \E l \in Pending(Main)' : LET op == OpAt(Main, l)' IN
                      op.do = "wait" /\ op.e = e /\ op.n >= k /\ op.pass = OpAt(e, k)'.pass
      <4>1. OpAt(e, k)' = OpAt(e, k)
        BY <1>2, <1>8, <1>10
      <4>2. QED
        BY <1>1, <1>11, <4>1 DEF SmoothInv, Links, Joined
    <3>3. \A e \in Embeds : \A k \in Pending(e)' : k \in Pending(e) \/ (e = s /\ k \in N + 1 .. N + 4)
      BY <1>2, <1>8, <1>10
    <3>4. QED
      BY <3>1, <3>2, <3>3 DEF Joined
  <2>5. QED
    BY <2>1, <2>2, <2>3, <2>4 DEF Links
<1>18. Python'
  <2>1. \A k \in Pending(Main)' : ~HashAt(k)' => OpAt(Main, k)'.pass < step'
    BY <1>1, <1>11 DEF HashAt
  <2>2. HashPoint(I, step)'
    BY <1>1, <1>2, <1>4, <1>15 DEF HashPoint, Hashed, HashAt
  <2>3. \A e \in Embeds : pending'[e] <=> e <= layer
    BY <1>0, <1>1, <1>2
  <2>4. \A e \in Embeds : e >= 1 /\ e <= Layers /\ e \in Nat
    BY DEF Embeds
  <2>5. \/ layer < Layers /\ at' = "prefetch" /\ layer' = layer + 1
        \/ layer = Layers /\ at' = "layer" /\ layer' = 1
    BY <1>1, <2>4, PrefetchAssumption DEF Advance, PrefetchAssumption
  <2>6. HashPoint(Issued(Main), step)'
    BY <1>11, <2>2
  <2>7. QED
    BY <1>1, <1>2, <2>1, <2>3, <2>4, <2>5, <2>6 DEF Python
<1>19. Reads'
  <2>1. MainReads'
    BY <1>1, <1>11, <1>16 DEF MainReads
  <2>2. SideReads'
    <3>1. ASSUME NEW e \in Embeds, done[e] + 1 \in Pending(e)', done[e] + 1 \notin Pending(e)
          PROVE  OpAt(e, done[e] + 1)'.do = "wait"
      <4>1. OpAt(e, done[e] + 1)' = new[1]
        <5>1. done' = done /\ Len(new) > 0 /\ e \in Streams
          <6>1. Len(new) > 0
            BY <1>6
          <6>2. QED
            BY <1>1, <1>2, <6>1
        <5>2. \A u \in Streams : LET k == done[u] + 1 IN k \in Pending(u)' =>
                \/ k \in Pending(u) /\ OpAt(u, k)' = OpAt(u, k)
                \/ u = s /\ OpAt(u, k)' = new[1] /\ k \notin Pending(u)
          BY <1>2, <1>7, <5>1, QueueingHeads
        <5>3. QED
          BY <3>1, <5>1, <5>2
      <4>2. QED
        BY <1>6, <4>1
    <3>2. QED
      BY <1>1, <1>16, <3>1 DEF SideReads
  <2>3. QED
    BY <1>16, <2>1, <2>2 DEF Reads
<1>20. QED
  BY <1>14, <1>17, <1>18, <1>19 DEF SmoothInv

\* What a layer's lookup queues on the main stream follows one another, and
\* waits for the side stream when the rows are on their way.
MainWork(e, new) ==
  /\ Len(new) > 0 /\ Begins(new[1])
  /\ pending[e] => new[1].do = "wait"
  /\ \A i \in 1 .. Len(new) :
       /\ new[i].pass = step /\ new[i].e = e
       /\ new[i].do \in {"wait", "gather", "ids", "serve", "rows", "compare"}
       /\ new[i].do \in {"gather", "compare"} => new[i].n = step
       /\ new[i].do = "ids" => new[i].n = slot
       /\ new[i].do = "wait" => ~disabled /\ pending[e] /\ new[i].n = Issued(e)
       /\ new[i].do = "compare" => ~disabled
       /\ IF MainNext(new[i].do) = "end"
          THEN i = Len(new)
          ELSE i + 1 \in 1 .. Len(new) /\ new[i + 1].do = MainNext(new[i].do)

\* A layer's lookup on the main stream.
LEMMA MainStep ==
  ASSUME QueueTyped, PrefetchAssumption, SmoothInv, NEW s \in Embeds, s = layer,
         at = "layer", Advance("layer"), NEW new \in Seq(Ops), MainWork(s, new),
         queue' = [queue EXCEPT ![Main] = @ \o new],
         pending' = [pending EXCEPT ![s] = FALSE],
         UNCHANGED <<step, slot, disabled, check, done>>,
         UNCHANGED <<hash, ids, rows, device, out, differed>>
  PROVE  SmoothInv'
<1>1. /\ pending \in [Embeds -> BOOLEAN]
      /\ check => ~disabled
      /\ \A e \in Embeds : pending[e] <=> ~disabled /\ e >= s
  BY DEF SmoothInv, Python, QueueTyped
<1>2. /\ Main \in Streams /\ Main \notin Embeds /\ s \in Streams /\ s \in Nat
      /\ step \in Nat /\ slot \in Slots /\ s # Main /\ \A e \in Embeds : e \in Streams /\ e \in Nat
  BY StreamsTyped DEF QueueTyped
<1>3. PICK N \in Nat : N = Issued(Main)
  BY <1>2, NumberedOps
<1>4. PICK I \in Nat : I = Issued(s)
  BY <1>2, NumberedOps
<1>5. /\ Len(new) \in Nat /\ Len(new) > 0 /\ Begins(new[1])
      /\ pending[s] => new[1].do = "wait"
      /\ \A i \in 1 .. Len(new) :
           /\ new[i].pass = step /\ new[i].e = s
           /\ new[i].do \in {"wait", "gather", "ids", "serve", "rows", "compare"}
           /\ new[i].do \in {"gather", "compare"} => new[i].n = step
           /\ new[i].do = "ids" => new[i].n = slot
           /\ new[i].do = "wait" => ~disabled /\ pending[s] /\ new[i].n = I
           /\ new[i].do = "compare" => ~disabled
           /\ IF MainNext(new[i].do) = "end"
              THEN i = Len(new)
              ELSE i + 1 \in 1 .. Len(new) /\ new[i + 1].do = MainNext(new[i].do)
  BY <1>4 DEF MainWork
<1>6. done' = done /\ N = Issued(Main)
  BY <1>3
<1>7. /\ Issued(Main)' = N + Len(new) /\ Len(new) \in Nat
      /\ \A k \in Pending(Main) : k \in Nat /\ k <= N /\ k \in Pending(Main)'
                                  /\ OpAt(Main, k)' = OpAt(Main, k)
      /\ \A i \in 1 .. Len(new) : N + i \in Pending(Main)' /\ N + i \notin Pending(Main)
                                  /\ OpAt(Main, N + i)' = new[i]
      /\ \A k \in Pending(Main)' : k \in Pending(Main) \/ k \in N + 1 .. N + Len(new)
  BY <1>2, <1>3, <1>6, Placed
<1>8. \A k \in Pending(Main)' : k \in Pending(Main) \/ \E i \in 1 .. Len(new) : k = N + i
  <2>1. \A k \in N + 1 .. N + Len(new) : k - N \in 1 .. Len(new) /\ k = N + (k - N)
    BY <1>3, <1>7
  <2>2. QED
    BY <1>7, <2>1
<1>9. \A e \in Embeds :
         /\ Issued(e)' = Issued(e) /\ Pending(e)' = Pending(e)
         /\ \A k \in Pending(e) : OpAt(e, k)' = OpAt(e, k)
  <2>1. \A u \in Streams \ {Main} :
         /\ Issued(u)' = Issued(u) /\ Pending(u)' = Pending(u)
         /\ \A k \in Pending(u) : OpAt(u, k)' = OpAt(u, k)
    BY <1>2, <1>6, Queueing
  <2>2. QED
    BY <1>2, <2>1
<1>10. \A i \in 1 .. Len(new) : new[i].do # "hash" /\ new[i].pass = step
  BY <1>5
<1>11. Order'
  <2>1. MainTyped'
    <3>1. ASSUME NEW k \in Pending(Main)
          PROVE  LET op == OpAt(Main, k)' IN
                 /\ op.pass \in 0 .. step'
                 /\ op.do \in {"hash", "wait", "gather", "ids", "serve", "rows", "compare"}
                 /\ IF op.do = "hash" THEN op.e \in Slots ELSE op.e \in Embeds
                 /\ op.do \in {"hash", "gather", "compare"} => op.n = op.pass
                 /\ op.do = "ids" => op.n \in Slots
                 /\ op.do = "wait" => ~disabled' /\ op.n \in Nat
                 /\ op.do = "compare" => ~disabled'
      BY <1>7 DEF SmoothInv, Order, MainTyped
    <3>2. ASSUME NEW i \in 1 .. Len(new)
          PROVE  LET op == new[i] IN
                 /\ op.pass \in 0 .. step'
                 /\ op.do \in {"hash", "wait", "gather", "ids", "serve", "rows", "compare"}
                 /\ IF op.do = "hash" THEN op.e \in Slots ELSE op.e \in Embeds
                 /\ op.do \in {"hash", "gather", "compare"} => op.n = op.pass
                 /\ op.do = "ids" => op.n \in Slots
                 /\ op.do = "wait" => ~disabled' /\ op.n \in Nat
                 /\ op.do = "compare" => ~disabled'
      BY <1>2, <1>4, <1>5
    <3>3. QED
      BY <1>7, <1>8, <3>1, <3>2 DEF MainTyped
  <2>2. MainShape'
    <3>1. \A do : MainNext(do)' = MainNext(do)
      BY DEF MainNext
    <3>2. \A i \in 1 .. Len(new) : Begins(new[i])' <=> Begins(new[i])
      BY DEF Begins
    <3>3. ASSUME NEW k \in Pending(Main)
          PROVE  LET op == OpAt(Main, k)  do == MainNext(op.do) IN
                 IF do = "end"
                 THEN k + 1 \in Pending(Main)' => Begins(OpAt(Main, k + 1))'
                 ELSE /\ k + 1 \in Pending(Main)'
                      /\ OpAt(Main, k + 1)'.do = do
                      /\ OpAt(Main, k + 1)'.e = op.e /\ OpAt(Main, k + 1)'.pass = op.pass
      <4>1. CASE MainNext(OpAt(Main, k).do) = "end"
        <5>1. CASE k + 1 \in Pending(Main)
          BY <1>7, <4>1, <5>1 DEF SmoothInv, Order, MainShape, Begins
        <5>2. CASE k + 1 \in Pending(Main)' /\ k + 1 \notin Pending(Main)
          <6>1. k + 1 = N + 1
            BY <1>3, <1>7, <5>2
          <6>2. OpAt(Main, k + 1)' = new[1]
            BY <1>5, <1>7, <6>1
          <6>3. QED
            BY <1>5, <4>1, <6>2 DEF Begins
        <5>3. QED
          BY <4>1, <5>1, <5>2
      <4>2. CASE MainNext(OpAt(Main, k).do) # "end"
        <5>1. /\ k + 1 \in Pending(Main)
              /\ OpAt(Main, k + 1).do = MainNext(OpAt(Main, k).do)
              /\ OpAt(Main, k + 1).e = OpAt(Main, k).e
              /\ OpAt(Main, k + 1).pass = OpAt(Main, k).pass
          BY <4>2 DEF SmoothInv, Order, MainShape
        <5>2. QED
          BY <1>7, <4>2, <5>1
      <4>3. QED
        BY <4>1, <4>2
    <3>4. ASSUME NEW i \in 1 .. Len(new)
          PROVE  LET op == new[i]  do == MainNext(op.do) IN
                 IF do = "end"
                 THEN N + i + 1 \notin Pending(Main)'
                 ELSE /\ N + i + 1 \in Pending(Main)'
                      /\ OpAt(Main, N + i + 1)'.do = do
                      /\ OpAt(Main, N + i + 1)'.e = op.e /\ OpAt(Main, N + i + 1)'.pass = op.pass
      <4>1. N + i + 1 = N + (i + 1) /\ i \in Nat
        BY <1>3
      <4>2. CASE MainNext(new[i].do) = "end"
        <5>1. i = Len(new)
          BY <1>5, <4>2
        <5>2. N + i + 1 \notin Pending(Main) /\ N + i + 1 \notin N + 1 .. N + Len(new)
          BY <1>3, <1>7, <4>1, <5>1
        <5>3. QED
          BY <1>7, <4>2, <5>2
      <4>3. CASE MainNext(new[i].do) # "end"
        <5>1. i + 1 \in 1 .. Len(new) /\ new[i + 1].do = MainNext(new[i].do)
          BY <1>5, <4>3
        <5>2. new[i].pass = step /\ new[i].e = s /\ new[i + 1].pass = step /\ new[i + 1].e = s
          BY <1>5, <5>1
        <5>3. N + (i + 1) \in Pending(Main)' /\ OpAt(Main, N + (i + 1))' = new[i + 1]
          BY <1>7, <5>1
        <5>4. QED
          BY <4>1, <4>3, <5>1, <5>2, <5>3
      <4>4. QED
        BY <4>2, <4>3
    <3>5. ASSUME NEW k \in Pending(Main)'
          PROVE  LET op == OpAt(Main, k)'  do == MainNext(op.do) IN
                 IF do = "end"
                 THEN k + 1 \in Pending(Main)' => Begins(OpAt(Main, k + 1))'
                 ELSE /\ k + 1 \in Pending(Main)'
                      /\ OpAt(Main, k + 1)'.do = do
                      /\ OpAt(Main, k + 1)'.e = op.e /\ OpAt(Main, k + 1)'.pass = op.pass
      <4>1. CASE k \in Pending(Main)
        BY <1>7, <3>3, <4>1
      <4>2. CASE \E i \in 1 .. Len(new) : k = N + i
        BY <1>7, <3>4, <4>2
      <4>3. QED
        BY <1>8, <4>1, <4>2
    <3>6. QED
      BY <3>1, <3>5 DEF MainShape
  <2>3. MainOrder'
    <3>1. ASSUME NEW k \in Pending(Main)
          PROVE  /\ k \in Nat /\ k <= N /\ OpAt(Main, k)' = OpAt(Main, k)
                 /\ OpAt(Main, k).pass \in 0 .. step /\ HashAt(k)' = HashAt(k)
      BY <1>7 DEF SmoothInv, Order, MainTyped, HashAt
    <3>2. ASSUME NEW k \in Pending(Main)', k \notin Pending(Main)
          PROVE  /\ k \in Nat /\ k > N /\ OpAt(Main, k)'.pass = step /\ ~HashAt(k)'
      <4>1. PICK i \in 1 .. Len(new) : k = N + i
        BY <1>8, <3>2
      <4>2. OpAt(Main, k)' = new[i]
        BY <1>7, <4>1
      <4>3. QED
        BY <1>3, <1>10, <4>1, <4>2 DEF HashAt
    <3>3. ASSUME NEW k \in Pending(Main)', NEW l \in Pending(Main)', k < l
          PROVE  /\ OpAt(Main, k)'.pass <= OpAt(Main, l)'.pass
                 /\ HashAt(l)' => OpAt(Main, k)'.pass < OpAt(Main, l)'.pass
      <4>1. CASE k \in Pending(Main) /\ l \in Pending(Main)
        BY <3>1, <3>3, <4>1 DEF SmoothInv, Order, MainOrder
      <4>2. CASE k \in Pending(Main) /\ l \notin Pending(Main)
        BY <1>2, <3>1, <3>2, <4>2
      <4>3. CASE k \notin Pending(Main) /\ l \in Pending(Main)
        BY <1>3, <3>1, <3>2, <3>3, <4>3
      <4>4. CASE k \notin Pending(Main) /\ l \notin Pending(Main)
        BY <1>2, <3>2, <4>4
      <4>5. QED
        BY <4>1, <4>2, <4>3, <4>4
    <3>4. ASSUME NEW k \in Pending(Main)', NEW m \in OpAt(Main, k)'.pass + 1 .. step
          PROVE  \E l \in Pending(Main)' : HashAt(l)' /\ OpAt(Main, l)'.pass = m
      <4>1. CASE k \in Pending(Main)
        <5>1. PICK l \in Pending(Main) : HashAt(l) /\ OpAt(Main, l).pass = m
          BY <3>1, <3>4, <4>1 DEF SmoothInv, Order, MainOrder
        <5>2. QED
          BY <1>7, <3>1, <5>1
      <4>2. CASE k \notin Pending(Main)
        BY <1>2, <3>2, <3>4, <4>2
      <4>3. QED
        BY <4>1, <4>2
    <3>5. QED
      BY <3>3, <3>4 DEF MainOrder
  <2>4. SideTyped' /\ SideShape' /\ SideOrder'
    BY <1>9 DEF SmoothInv, Order, SideTyped, SideShape, SideOrder
  <2>5. QED
    BY <2>1, <2>2, <2>3, <2>4 DEF Order
<1>12. \A m \in 0 .. step :
         /\ \A a \in Slots : SlotHolds(m, a) => SlotHolds(m, a)'
         /\ \A e \in Embeds : \A i \in Int : Fetched(e, i, m) => Fetched(e, i, m)'
  <2>1. \A i \in 1 .. Len(new) : new[i].do = "hash" => new[i].pass > step
    BY <1>10
  <2>2. QED
    BY <1>2, <2>1, QueueingKeeps
<1>13. /\ \A u \in Streams : \A k \in Pending(u) :
            (OpAt(u, k).do = "ids" => SlotHolds(OpAt(u, k).pass, OpAt(u, k).n))'
       /\ \A e \in Embeds : \A k \in Pending(e) :
            (OpAt(e, k).do = "wait" => HashPoint(OpAt(e, k).n, OpAt(e, k).pass))'
       /\ \A k \in Pending(Main) :
            (OpAt(Main, k).do = "wait" =>
               Fetched(OpAt(Main, k).e, OpAt(Main, k).n, OpAt(Main, k).pass))'
       /\ done[Main] + 1 \in Pending(Main) => MainReads'
       /\ \A e \in Embeds : done[e] + 1 \in Pending(e) =>
            (LET k == done[e] + 1  op == OpAt(e, k) IN
               k \in Pending(e) /\ op.do # "wait" =>
                 /\ Hashed(op.pass)
                 /\ op.do = "serve" => ids[e] = op.pass
                 /\ op.do = "rows" => rows[e] = op.pass)'
       /\ Exact'
  BY <1>2, <1>10, QueueingLinks
<1>14. Links'
  <2>0. PICK m \in 0 .. step, a \in Slots : m = step /\ a = slot
    BY <1>2
  <2>1. IdsOfPass'
    <3>1. SlotHolds(m, a)'
      BY <1>12, <2>0 DEF SmoothInv, Links, IdsOfPass
    <3>2. SlotHolds(step, slot)'
      BY <2>0, <3>1
    <3>3. ASSUME NEW i \in 1 .. Len(new)
          PROVE  (OpAt(Main, N + i).do = "ids" =>
                    SlotHolds(OpAt(Main, N + i).pass, OpAt(Main, N + i).n))'
      <4>1. OpAt(Main, N + i)'.do = "ids" =>
              OpAt(Main, N + i)'.pass = m /\ OpAt(Main, N + i)'.n = a
        BY <1>5, <1>7, <2>0
      <4>2. QED
        BY <3>1, <4>1
    <3>4. \A u \in Streams : \A k \in Pending(u)' :
            k \in Pending(u) \/ (u = Main /\ \E i \in 1 .. Len(new) : k = N + i)
      BY <1>8, <1>9 DEF Streams
    <3>5. QED
      BY <1>13, <3>2, <3>3, <3>4 DEF IdsOfPass
  <2>2. Forked'
    BY <1>9, <1>13 DEF Forked
  <2>3. Fetching'
    <3>1. ASSUME NEW e \in Embeds, pending[e], NEW n \in Int, n = Issued(e)
          PROVE  Fetched(e, n, m)'
      <4>1. Fetched(e, n, m)
        BY <2>0, <3>1 DEF SmoothInv, Links, Fetching
      <4>2. QED
        BY <1>12, <4>1
    <3>2. ASSUME NEW i \in 1 .. Len(new)
          PROVE  (OpAt(Main, N + i).do = "wait" =>
                    Fetched(OpAt(Main, N + i).e, OpAt(Main, N + i).n, OpAt(Main, N + i).pass))'
      <4>1. OpAt(Main, N + i)'.do = "wait" =>
              /\ OpAt(Main, N + i)'.pass = m /\ OpAt(Main, N + i)'.n = I
              /\ OpAt(Main, N + i)'.e = s /\ pending[s]
        BY <1>5, <1>7, <2>0
      <4>2. pending[s] => Fetched(s, I, m)'
        BY <1>4, <3>1
      <4>3. QED
        BY <4>1, <4>2
    <3>3. ASSUME NEW e \in Embeds, pending'[e] PROVE Fetched(e, Issued(e), step)'
      <4>1. pending[e]
        BY <1>1, <3>3
      <4>2. PICK n \in Int : n = Issued(e)
        BY <1>2, NumberedOps
      <4>3. Fetched(e, n, m)'
        BY <3>1, <4>1, <4>2
      <4>4. Issued(e)' = n /\ step' = m
        BY <1>9, <2>0, <4>2
      <4>5. QED
        BY <4>3, <4>4
    <3>4. QED
      BY <1>8, <1>13, <3>2, <3>3 DEF Fetching
  <2>4. Joined'
    <3>1. ASSUME NEW e \in Embeds, NEW k \in Pending(e)
          PROVE  \/ pending'[e] /\ OpAt(e, k).pass = step
                 \/ \E l \in Pending(Main)' : LET op == OpAt(Main, l)' IN
                      op.do = "wait" /\ op.e = e /\ op.n >= k /\ op.pass = OpAt(e, k).pass
      <4>1. CASE pending[e] /\ OpAt(e, k).pass = step /\ e = s
        <5>1. N + 1 \in Pending(Main)' /\ OpAt(Main, N + 1)' = new[1]
          BY <1>5, <1>7
        <5>2. new[1].do = "wait" /\ new[1].e = s /\ new[1].n = I /\ new[1].pass = step
          BY <1>5, <4>1
        <5>3. k <= I
          BY <1>2, <1>4, <4>1, NumberedOps DEF Pending
        <5>4. QED
          BY <1>4, <4>1, <5>1, <5>2, <5>3
      <4>2. CASE pending[e] /\ OpAt(e, k).pass = step /\ e # s
        BY <1>1, <4>2
      <4>3. CASE \E l \in Pending(Main) : LET op == OpAt(Main, l) IN
                   op.do = "wait" /\ op.e = e /\ op.n >= k /\ op.pass = OpAt(e, k).pass
        BY <1>7, <4>3
      <4>4. QED
        BY <4>1, <4>2, <4>3 DEF SmoothInv, Links, Joined
    <3>2. QED
      BY <1>9, <3>1 DEF Joined
  <2>5. QED
    BY <2>1, <2>2, <2>3, <2>4 DEF Links
<1>15. Python'
  <2>1. \A e \in Embeds : e >= 1 /\ e <= Layers /\ e \in Nat
    BY DEF Embeds
  <2>2. \/ s < Layers /\ at' = "layer" /\ layer' = s + 1
        \/ s = Layers /\ at' = "idle" /\ layer' = 1
    BY <2>1 DEF Advance, PrefetchAssumption
  <2>3. ASSUME NEW e \in Embeds
        PROVE  /\ s < Layers => (pending'[e] <=> ~disabled /\ e >= s + 1)
               /\ s = Layers => ~pending'[e]
    <3>1. CASE e = s
      <4>1. pending'[e] = FALSE
        BY <1>1, <3>1
      <4>2. ~(e >= s + 1)
        BY <1>2, <3>1
      <4>3. QED
        BY <4>1, <4>2
    <3>2. CASE e # s
      <4>1. pending'[e] = pending[e]
        BY <3>2
      <4>2. (e >= s <=> e >= s + 1) /\ (s = Layers => ~(e >= s))
        BY <1>2, <2>1, <3>2 DEF PrefetchAssumption
      <4>3. QED
        BY <1>1, <4>1, <4>2
    <3>3. QED
      BY <3>1, <3>2
  <2>4. CASE s < Layers /\ at' = "layer" /\ layer' = s + 1
    <3>1. check' => ~disabled'
      BY <1>1
    <3>2. \A e \in Embeds : pending'[e] <=> ~disabled' /\ e >= layer'
      BY <2>3, <2>4
    <3>3. at' # "failed" /\ at' # "idle" /\ at' # "prefetch"
      BY <2>4
    <3>4. QED
      BY <3>1, <3>2, <3>3 DEF Python
  <2>5. CASE s = Layers /\ at' = "idle" /\ layer' = 1
    <3>1. check' => ~disabled'
      BY <1>1
    <3>2. \A e \in Embeds : ~pending'[e]
      BY <2>3, <2>5
    <3>3. at' # "failed" /\ at' # "layer" /\ at' # "prefetch"
      BY <2>5
    <3>4. QED
      BY <2>5, <3>1, <3>2, <3>3 DEF Python
  <2>6. QED
    BY <2>2, <2>4, <2>5
<1>16. Reads'
  <2>1. MainReads'
    <3>1. CASE done[Main] + 1 \in Pending(Main)
      BY <1>13, <3>1
    <3>2. CASE done[Main] + 1 \notin Pending(Main)
      <4>1. done[Main] + 1 \in Pending(Main)' => OpAt(Main, done[Main] + 1)' = new[1]
        BY <1>2, <1>5, <1>6, <3>2, QueueingHeads
      <4>2. new[1].do = "wait" \/ (disabled /\ new[1].do = "ids")
        BY <1>5 DEF Begins
      <4>3. disabled => \A e \in Embeds : Drained(e, step)'
        BY <1>9 DEF SmoothInv, Order, SideTyped, Drained
      <4>4. new[1].pass = step /\ new[1].e = s
        BY <1>5
      <4>5. QED
        BY <4>1, <4>2, <4>3, <4>4 DEF MainReads
    <3>3. QED
      BY <3>1, <3>2
  <2>2. SideReads'
    BY <1>9, <1>13 DEF SideReads
  <2>3. QED
    BY <1>13, <2>1, <2>2 DEF Reads
<1>17. QED
  BY <1>11, <1>14, <1>15, <1>16 DEF SmoothInv

LEMMA GatherStep ==
  ASSUME QueueTyped, PrefetchAssumption, SmoothInv, Gather
  PROVE  SmoothInv'
<1>1. PICK s \in Embeds : s = layer
  BY DEF QueueTyped
<1>2. /\ at = "layer" /\ Advance("layer") /\ pending[s] /\ ~disabled
      /\ pending' = [pending EXCEPT ![s] = FALSE]
      /\ UNCHANGED <<step, slot, disabled, check, done>>
      /\ UNCHANGED <<hash, ids, rows, device, out, differed>>
  BY <1>1 DEF Gather, memory, SmoothInv, Python
<1>3. PICK new \in Seq(Ops) : new = IF check THEN CheckOps(s) ELSE JoinOps(s)
  BY <1>1, QueuedOps
<1>4. queue' = [queue EXCEPT ![Main] = @ \o new]
  BY <1>1, <1>3, QueuedOps
<1>5. /\ Len(new) = IF check THEN 6 ELSE 2
      /\ new[1].do = "wait" /\ new[1].e = s /\ new[1].n = Issued(s) /\ new[1].pass = step
      /\ new[2].do = "gather" /\ new[2].e = s /\ new[2].n = step /\ new[2].pass = step
      /\ check => /\ new[3].do = "ids" /\ new[3].e = s /\ new[3].n = slot /\ new[3].pass = step
                  /\ new[4].do = "serve" /\ new[4].e = s /\ new[4].pass = step
                  /\ new[5].do = "rows" /\ new[5].e = s /\ new[5].pass = step
                  /\ new[6].do = "compare" /\ new[6].e = s /\ new[6].n = step /\ new[6].pass = step
  BY <1>3 DEF CheckOps, JoinOps, Op, OpOf
<1>6. MainWork(s, new)
  <2>1. CASE ~check
    <3>1. \A i \in 1 .. Len(new) : i = 1 \/ i = 2
      BY <1>5, <2>1
    <3>2. Len(new) = 2 /\ 1 + 1 = 2 /\ 2 \in 1 .. 2
      BY <1>5, <2>1
    <3>3. MainNext("wait") = "gather" /\ MainNext("gather") = "end"
      BY <2>1 DEF MainNext
    <3>4. QED
      BY <1>2, <1>5, <3>1, <3>2, <3>3 DEF MainWork, Begins
  <2>2. CASE check
    <3>1. \A i \in 1 .. Len(new) : i = 1 \/ i = 2 \/ i = 3 \/ i = 4 \/ i = 5 \/ i = 6
      BY <1>5, <2>2
    <3>2. /\ Len(new) = 6 /\ 1 + 1 = 2 /\ 2 + 1 = 3 /\ 3 + 1 = 4 /\ 4 + 1 = 5 /\ 5 + 1 = 6
          /\ 2 \in 1 .. 6 /\ 3 \in 1 .. 6 /\ 4 \in 1 .. 6 /\ 5 \in 1 .. 6 /\ 6 \in 1 .. 6
      BY <1>5, <2>2
    <3>3. /\ MainNext("wait") = "gather" /\ MainNext("gather") = "ids"
          /\ MainNext("ids") = "serve" /\ MainNext("serve") = "rows"
          /\ MainNext("rows") = "compare" /\ MainNext("compare") = "end"
      BY <1>2, <2>2 DEF MainNext
    <3>4. ASSUME NEW i \in 1 .. Len(new)
          PROVE  /\ new[i].pass = step /\ new[i].e = s
                 /\ new[i].do \in {"wait", "gather", "ids", "serve", "rows", "compare"}
                 /\ new[i].do \in {"gather", "compare"} => new[i].n = step
                 /\ new[i].do = "ids" => new[i].n = slot
                 /\ new[i].do = "wait" => ~disabled /\ pending[s] /\ new[i].n = Issued(s)
                 /\ new[i].do = "compare" => ~disabled
      BY <1>2, <1>5, <2>2, <3>1
    <3>5. ASSUME NEW i \in 1 .. Len(new)
          PROVE  IF MainNext(new[i].do) = "end"
                 THEN i = Len(new)
                 ELSE i + 1 \in 1 .. Len(new) /\ new[i + 1].do = MainNext(new[i].do)
      BY <1>5, <2>2, <3>1, <3>2, <3>3
    <3>6. Len(new) > 0 /\ Begins(new[1]) /\ new[1].do = "wait"
      BY <1>2, <1>5, <3>2 DEF Begins
    <3>7. QED
      BY <3>4, <3>5, <3>6 DEF MainWork
  <2>3. QED
    BY <2>1, <2>2
<1>7. QED
  BY <1>1, <1>2, <1>4, <1>6, MainStep

LEMMA LookUpStep ==
  ASSUME QueueTyped, PrefetchAssumption, SmoothInv, LookUp
  PROVE  SmoothInv'
<1>1. PICK s \in Embeds : s = layer
  BY DEF QueueTyped
<1>2. /\ at = "layer" /\ Advance("layer") /\ ~pending[s]
      /\ UNCHANGED <<step, slot, disabled, check, done>>
      /\ UNCHANGED <<hash, ids, rows, device, out, differed>>
      /\ pending' = pending /\ pending \in [Embeds -> BOOLEAN]
  BY <1>1 DEF LookUp, memory, QueueTyped
<1>3. disabled /\ ~check
  <2>1. s >= s
    BY <1>1, StreamsTyped
  <2>2. QED
    BY <1>1, <1>2, <2>1 DEF SmoothInv, Python
<1>4. pending' = [pending EXCEPT ![s] = FALSE]
  BY <1>2
<1>5. PICK new \in Seq(Ops) : new = SyncOps(s)
  BY <1>1, QueuedOps
<1>6. queue' = [queue EXCEPT ![Main] = @ \o new]
  BY <1>1, <1>5, QueuedOps
<1>7. /\ Len(new) = 4
      /\ new[1].do = "ids" /\ new[1].e = s /\ new[1].n = slot /\ new[1].pass = step
      /\ new[2].do = "serve" /\ new[2].e = s /\ new[2].pass = step
      /\ new[3].do = "rows" /\ new[3].e = s /\ new[3].pass = step
      /\ new[4].do = "gather" /\ new[4].e = s /\ new[4].n = step /\ new[4].pass = step
  BY <1>5 DEF SyncOps, Op, OpOf
<1>8. MainWork(s, new)
  <2>1. \A i \in 1 .. Len(new) : i = 1 \/ i = 2 \/ i = 3 \/ i = 4
    BY <1>7
  <2>2. /\ Len(new) = 4 /\ 1 + 1 = 2 /\ 2 + 1 = 3 /\ 3 + 1 = 4
        /\ 2 \in 1 .. 4 /\ 3 \in 1 .. 4 /\ 4 \in 1 .. 4
    BY <1>7
  <2>3. /\ MainNext("gather") = "end" /\ MainNext("ids") = "serve"
        /\ MainNext("serve") = "rows" /\ MainNext("rows") = "gather"
    BY <1>3 DEF MainNext
  <2>4. QED
    BY <1>2, <1>3, <1>7, <2>1, <2>2, <2>3 DEF MainWork, Begins
<1>9. QED
  BY <1>1, <1>2, <1>4, <1>6, <1>8, MainStep

-----------------------------------------------------------------------------
(* Steps of a stream. *)

\* The facts of a run that the lemmas below share: h is the number and op the
\* operation that runs.
Ran(s, h, op) ==
  /\ h = done[s] + 1 /\ h \in Nat /\ h \in Pending(s) /\ op = OpAt(s, h)
  /\ done'[s] = h /\ Effect(op)
  /\ \A u \in Streams \ {s} : done'[u] = done[u]
  /\ \A u \in Streams : \A k \in Pending(u) : k \in Nat /\ done[u] < k
  /\ \A u \in Streams : \A k \in Pending(u)' :
       k \in Pending(u) /\ OpAt(u, k)' = OpAt(u, k) /\ (u = s => h < k)
  /\ \A u \in Streams : \A k \in Pending(u) : k \in Pending(u)' \/ (u = s /\ k = h)

LEMMA RunRan ==
  ASSUME QueueTyped, PrefetchAssumption, NEW s \in Streams, Run(s)
  PROVE  \E h \in Nat : \E op \in Ops :
           /\ Ran(s, h, op)
           /\ op.do = "wait" => done[op.e] >= op.n
           /\ UNCHANGED <<step, slot, at, layer, pending, disabled, check>>
           /\ \A u \in Streams : Issued(u)' = Issued(u)
           /\ op.do \in Kinds
<1>1. PICK h \in Nat : h = done[s] + 1
  BY NumberedOps
<1>2. PICK op \in Ops : op = OpAt(s, h) /\ op = Head(queue[s]) /\ h \in Pending(s)
  BY <1>1, Running, NumberedOps
<1>3. /\ op.do = "wait" => done[op.e] >= op.n
      /\ Effect(op)
      /\ UNCHANGED <<step, slot, at, layer, pending, disabled, check>>
  BY <1>2 DEF Run, Ready, python
<1>4. ASSUME NEW u \in Streams
      PROVE  /\ \A k \in Pending(u)' : k \in Pending(u) /\ OpAt(u, k)' = OpAt(u, k)
                                       /\ (u = s => h < k)
             /\ \A k \in Pending(u) : k \in Nat /\ done[u] < k
                                      /\ (k \in Pending(u)' \/ (u = s /\ k = h))
  <2>1. done[u] \in Nat /\ \A k \in Pending(u) : k \in Nat /\ done[u] < k
    BY NumberedOps DEF Pending
  <2>2. CASE u # s
    BY <2>1, <2>2, Running
  <2>3. CASE u = s
    <3>1. /\ \A k \in Int : k \in Pending(s)' <=> k \in Pending(s) /\ k # h
          /\ \A k \in Pending(s)' : OpAt(s, k)' = OpAt(s, k)
      BY <1>1, Running
    <3>2. \A k \in Pending(s)' : k \in Int
      BY Running DEF Pending
    <3>3. \A k \in Pending(s)' : k \in Pending(s) /\ h < k
      BY <1>1, <2>1, <2>3, <3>1, <3>2
    <3>4. \A k \in Pending(s) : k \in Pending(s)' \/ k = h
      BY <2>1, <2>3, <3>1
    <3>5. QED
      BY <2>1, <2>3, <3>1, <3>3, <3>4 DEF Pending, Issued, OpAt
  <2>4. QED
    BY <2>2, <2>3
<1>5. done'[s] = h /\ \A u \in Streams \ {s} : done'[u] = done[u]
  BY <1>1, Running
<1>6. Ran(s, h, op)
  BY <1>1, <1>2, <1>3, <1>4, <1>5 DEF Ran
<1>7. \A u \in Streams : Issued(u)' = Issued(u)
  BY Running
<1>8. op.do \in Kinds
  BY <1>2 DEF Ops
<1>9. QED
  BY <1>3, <1>6, <1>7, <1>8

\* What is left to run stays in order.
LEMMA RunOrder ==
  ASSUME QueueTyped, PrefetchAssumption, Order, NEW s \in Streams, Run(s)
  PROVE  Order'
<1>1. /\ UNCHANGED <<step, disabled, check>>
      /\ Main \in Streams /\ \A e \in Embeds : e \in Streams
  BY StreamsTyped DEF Run, python
<1>2. ASSUME NEW u \in Streams
      PROVE  /\ \A k \in Pending(u)' : /\ k \in Pending(u) /\ OpAt(u, k)' = OpAt(u, k)
                                       /\ k \in Nat /\ (u = s => done[s] + 1 < k)
             /\ \A k \in Pending(u)' : k + 1 \in Pending(u) => k + 1 \in Pending(u)'
             /\ \A k \in Pending(u) : k \in Pending(u)' \/ (u = s /\ k = done[s] + 1)
  <2>1. PICK h \in Nat, op \in Ops : Ran(s, h, op)
    BY RunRan
  <2>2. h = done[s] + 1 /\ h \in Pending(s)
    BY <2>1 DEF Ran
  <2>3. \A k \in Pending(u)' : k \in Pending(u) /\ k \in Nat /\ OpAt(u, k)' = OpAt(u, k)
                              /\ (u = s => h < k)
    BY <2>1 DEF Ran
  <2>4. \A k \in Pending(u) : k \in Nat /\ (k \in Pending(u)' \/ (u = s /\ k = h))
    BY <2>1 DEF Ran
  <2>5. QED
    BY <2>2, <2>3, <2>4
<1>3. MainTyped'
  BY <1>1, <1>2 DEF Order, MainTyped
<1>4. MainShape'
  <2>1. \A do : MainNext(do)' = MainNext(do)
    BY <1>1 DEF MainNext
  <2>2. ASSUME NEW k \in Pending(Main)'
        PROVE  LET op == OpAt(Main, k)'  do == MainNext(op.do) IN
               IF do = "end"
               THEN k + 1 \in Pending(Main)' => Begins(OpAt(Main, k + 1))'
               ELSE /\ k + 1 \in Pending(Main)'
                    /\ OpAt(Main, k + 1)'.do = do
                    /\ OpAt(Main, k + 1)'.e = op.e /\ OpAt(Main, k + 1)'.pass = op.pass
    <3>1. k \in Pending(Main) /\ OpAt(Main, k)' = OpAt(Main, k)
      BY <1>1, <1>2
    <3>2. k + 1 \in Pending(Main)' =>
            k + 1 \in Pending(Main) /\ OpAt(Main, k + 1)' = OpAt(Main, k + 1)
      BY <1>1, <1>2
    <3>3. k + 1 \in Pending(Main) => k + 1 \in Pending(Main)'
      BY <1>1, <1>2
    <3>4. \A op : Begins(op)' <=> Begins(op)
      BY <1>1 DEF Begins
    <3>5. QED
      BY <1>1, <3>1, <3>2, <3>3, <3>4 DEF Order, MainShape, Begins
  <2>3. QED
    BY <2>1, <2>2 DEF MainShape
<1>5. MainOrder'
  <2>1. ASSUME NEW k \in Pending(Main)'
        PROVE  /\ k \in Pending(Main) /\ OpAt(Main, k)' = OpAt(Main, k) /\ HashAt(k)' = HashAt(k)
               /\ OpAt(Main, k).pass \in 0 .. step /\ k \in Nat
    BY <1>1, <1>2 DEF HashAt, Order, MainTyped
  <2>2. ASSUME NEW k \in Pending(Main)', NEW l \in Pending(Main)', k < l
        PROVE  /\ OpAt(Main, k)'.pass <= OpAt(Main, l)'.pass
               /\ HashAt(l)' => OpAt(Main, k)'.pass < OpAt(Main, l)'.pass
    BY <2>1, <2>2 DEF Order, MainOrder
  <2>3. ASSUME NEW k \in Pending(Main)', NEW m \in OpAt(Main, k)'.pass + 1 .. step
        PROVE  \E l \in Pending(Main)' : HashAt(l)' /\ OpAt(Main, l)'.pass = m
    <3>1. PICK l \in Pending(Main) : HashAt(l) /\ OpAt(Main, l).pass = m
      BY <2>1, <2>3 DEF Order, MainOrder
    <3>2. CASE l \in Pending(Main)'
      BY <2>1, <3>1, <3>2
    <3>3. CASE Main = s /\ l = done[s] + 1
      <4>1. l < k /\ k \in Pending(Main) /\ OpAt(Main, k)' = OpAt(Main, k)
        BY <1>1, <1>2, <3>3
      <4>2. OpAt(Main, l).pass <= OpAt(Main, k).pass
        BY <3>1, <4>1 DEF Order, MainOrder
      <4>3. OpAt(Main, k).pass \in Nat
        BY <1>1, <4>1, NumberedOps DEF Ops
      <4>4. QED
        BY <2>3, <3>1, <4>1, <4>2, <4>3
    <3>4. QED
      BY <1>1, <1>2, <3>2, <3>3
  <2>4. QED
    BY <1>1, <2>2, <2>3 DEF MainOrder
<1>6. SideTyped'
  BY <1>1, <1>2 DEF Order, SideTyped
<1>7. SideShape'
  <2>1. ASSUME NEW e \in Embeds, NEW k \in Pending(e)'
        PROVE  /\ k \in Pending(e) /\ OpAt(e, k)' = OpAt(e, k)
               /\ k + 1 \in Pending(e)' =>
                    k + 1 \in Pending(e) /\ OpAt(e, k + 1)' = OpAt(e, k + 1)
               /\ k + 1 \in Pending(e) => k + 1 \in Pending(e)'
    BY <1>1, <1>2
  <2>2. QED
    BY <2>1 DEF Order, SideShape
<1>8. SideOrder'
  <2>1. ASSUME NEW e \in Embeds, NEW k \in Pending(e)'
        PROVE  k \in Pending(e) /\ OpAt(e, k)' = OpAt(e, k)
    BY <1>1, <1>2
  <2>2. QED
    BY <2>1 DEF Order, SideOrder
<1>9. QED
  BY <1>3, <1>4, <1>5, <1>6, <1>7, <1>8 DEF Order

\* While main works at a layer, that layer's side stream waits or is done, and
\* main never hashes over the ids a side stream is about to read.
LEMMA Apart ==
  ASSUME QueueTyped, PrefetchAssumption, Order, Joined, Reads,
         NEW e \in Embeds, NEW k \in Nat, k = done[e] + 1, k \in Pending(e),
         OpAt(e, k).do # "wait",
         NEW h \in Nat, h = done[Main] + 1, h \in Pending(Main)
  PROVE  /\ OpAt(Main, h).do \in {"ids", "serve", "rows", "gather", "compare"} =>
              OpAt(Main, h).e # e
         /\ OpAt(Main, h).do = "hash" => OpAt(Main, h).pass <= OpAt(e, k).pass
<1> DEFINE side == OpAt(e, k)
           main == OpAt(Main, h)
<1>1. /\ side.pass \in 0 .. step /\ main.pass \in 0 .. step
      /\ step \in Nat /\ Hashed(side.pass)
  BY DEF Order, MainTyped, SideTyped, Reads, SideReads, QueueTyped
<1>2. ASSUME main.do \in {"ids", "serve", "rows", "gather", "compare"}, main.e = e PROVE FALSE
  <2>1. Drained(e, main.pass)
    BY <1>2 DEF Reads, MainReads
  <2>2. side.pass > main.pass
    BY <2>1 DEF Drained
  <2>3. side.pass \in main.pass + 1 .. step
    BY <1>1, <2>2
  <2>4. PICK l \in Pending(Main) : HashAt(l) /\ OpAt(Main, l).pass = side.pass
    BY <2>3 DEF Order, MainOrder
  <2>5. QED
    BY <1>1, <2>4 DEF Hashed
<1>3. ASSUME main.do = "hash" PROVE main.pass <= side.pass
  <2>1. CASE side.pass = step
    BY <1>1, <2>1
  <2>2. CASE \E l \in Pending(Main) : OpAt(Main, l).do = "wait" /\ OpAt(Main, l).pass = side.pass
    <3>1. PICK l \in Pending(Main) : OpAt(Main, l).do = "wait" /\ OpAt(Main, l).pass = side.pass
      BY <2>2
    <3>2. l # h /\ l \in Nat /\ l > done[Main]
      BY <1>3, <3>1, StreamsTyped, NumberedOps DEF Pending
    <3>3. h < l
      BY <3>2, StreamsTyped, NumberedOps
    <3>4. QED
      BY <3>1, <3>3 DEF Order, MainOrder
  <2>3. QED
    BY <2>1, <2>2 DEF Joined
<1>4. QED
  BY <1>2, <1>3

\* A run only brings the points others wait for nearer.
LEMMA RunKeeps ==
  ASSUME QueueTyped, PrefetchAssumption, Order, NEW s \in Streams,
         NEW h \in Nat, NEW op \in Ops, Ran(s, h, op), op.do \in Kinds
  PROVE  /\ \A m \in Nat : Hashed(m) => Hashed(m)'
         /\ \A m \in Nat : \A n \in Int : HashPoint(n, m) => HashPoint(n, m)'
         /\ \A m \in Nat : \A e \in Embeds : Drained(e, m) => Drained(e, m)'
         /\ s = Main /\ op.do = "hash" => Hashed(op.pass)'
<1>1. Main \in Streams /\ done[Main] \in Nat /\ \A e \in Embeds : e \in Streams
  BY StreamsTyped, NumberedOps
<1>2. /\ \A k \in Pending(Main)' : k \in Pending(Main) /\ OpAt(Main, k)' = OpAt(Main, k)
                                   /\ (Main = s => h < k)
      /\ \A k \in Pending(Main) : k \in Pending(Main)' \/ (Main = s /\ k = h)
      /\ \A k \in Pending(Main) : OpAt(Main, k).pass \in Nat
  BY <1>1, NumberedOps DEF Ran, Ops
<1>3. /\ h \in Pending(s) /\ op = OpAt(s, h)
      /\ Main = s => done'[Main] = h /\ h = done[Main] + 1
      /\ Main # s => done'[Main] = done[Main]
  BY <1>1 DEF Ran
<1>4. ASSUME NEW m \in Nat, Hashed(m) PROVE Hashed(m)'
  BY <1>2, <1>4 DEF Hashed, HashAt
<1>5. ASSUME s = Main, op.do = "hash" PROVE Hashed(op.pass)'
  <2>1. ASSUME NEW k \in Pending(Main)', HashAt(k)' PROVE OpAt(Main, k)'.pass > op.pass
    <3>1. k \in Pending(Main) /\ OpAt(Main, k)' = OpAt(Main, k) /\ h < k /\ HashAt(k)
      BY <1>2, <1>5, <2>1 DEF HashAt
    <3>2. OpAt(Main, h).pass < OpAt(Main, k).pass
      BY <1>3, <1>5, <3>1 DEF Order, MainOrder
    <3>3. QED
      BY <1>2, <1>3, <1>5, <3>1, <3>2
  <2>2. QED
    BY <2>1 DEF Hashed
<1>6. ASSUME NEW m \in Nat, NEW n \in Int, HashPoint(n, m) PROVE HashPoint(n, m)'
  <2>1. CASE n <= done[Main] /\ Hashed(m)
    BY <1>1, <1>3, <1>4, <2>1 DEF HashPoint
  <2>2. CASE n \in Pending(Main) /\ HashAt(n) /\ OpAt(Main, n).pass = m
    <3>1. CASE n \in Pending(Main)'
      BY <1>2, <2>2, <3>1 DEF HashPoint, HashAt
    <3>2. CASE Main = s /\ n = h
      BY <1>3, <1>5, <2>2, <3>2 DEF HashPoint, HashAt
    <3>3. QED
      BY <1>2, <2>2, <3>1, <3>2
  <2>3. QED
    BY <1>6, <2>1, <2>2 DEF HashPoint
<1>7. ASSUME NEW m \in Nat, NEW e \in Embeds, Drained(e, m) PROVE Drained(e, m)'
  BY <1>1, <1>7 DEF Drained, Ran
<1>8. QED
  BY <1>4, <1>5, <1>6, <1>7

\* Where the main stream stands, its work of a layer finds the pass's rows.
LEMMA MainLinks ==
  ASSUME QueueTyped, PrefetchAssumption, SmoothInv,
         NEW h \in Nat, NEW op \in Ops, Ran(Main, h, op), op.do \in Kinds,
         op.do = "wait" => done[op.e] >= op.n,
         UNCHANGED <<step, slot, at, layer, pending, disabled, check>>,
         \A u \in Streams : Issued(u)' = Issued(u)
  PROVE  Links'
<1>1. /\ Main \in Streams /\ step \in Nat /\ h \in Pending(Main) /\ op = OpAt(Main, h)
      /\ \A e \in Embeds : e \in Streams /\ e # Main
      /\ \A k \in Pending(Main)' : k \in Pending(Main) /\ OpAt(Main, k)' = OpAt(Main, k) /\ h < k
      /\ \A k \in Pending(Main) : k \in Pending(Main)' \/ k = h
      /\ \A e \in Embeds : \A k \in Pending(e)' : k \in Pending(e) /\ OpAt(e, k)' = OpAt(e, k)
      /\ \A e \in Embeds : \A k \in Pending(e) : k \in Pending(e)'
      /\ \A e \in Embeds : done'[e] = done[e]
      /\ h = done[Main] + 1
  BY StreamsTyped DEF Ran, QueueTyped
<1>2. /\ \A k \in Pending(Main) : OpAt(Main, k).pass \in 0 .. step
      /\ \A e \in Embeds : \A k \in Pending(e) : OpAt(e, k).pass \in 0 .. step
      /\ op.pass \in 0 .. step
  BY <1>1 DEF SmoothInv, Order, MainTyped, SideTyped
<1>3. /\ \A m \in Nat : Hashed(m) => Hashed(m)'
      /\ \A m \in Nat : \A n \in Int : HashPoint(n, m) => HashPoint(n, m)'
      /\ \A m \in Nat : \A e \in Embeds : Drained(e, m) => Drained(e, m)'
      /\ op.do = "hash" => Hashed(op.pass)'
  BY <1>1, RunKeeps DEF SmoothInv
<1>4. ASSUME NEW m \in 0 .. step, NEW a \in Slots, SlotHolds(m, a),
             op.do = "hash" => op.pass <= m
      PROVE  SlotHolds(m, a)'
  <2>1. CASE op.do # "hash"
    <3>1. hash' = hash
      BY <1>1, <2>1 DEF Ran, Effect, memory
    <3>2. QED
      BY <1>1, <1>3, <1>4, <2>1, <3>1 DEF SlotHolds, HashAt
  <2>2. CASE op.do = "hash"
    <3>1. /\ hash' = [hash EXCEPT ![op.e] = op.n] /\ op.n = op.pass /\ op.e \in Slots
      BY <1>1, <2>2 DEF Ran, Effect, memory, SmoothInv, Order, MainTyped
    <3>2. CASE Hashed(m) /\ hash[a] = m
      <4>1. op.pass > m
        BY <1>1, <2>2, <3>2 DEF Hashed, HashAt
      <4>2. QED
        BY <1>2, <1>4, <2>2, <4>1
    <3>3. ASSUME NEW k \in Pending(Main), HashAt(k), OpAt(Main, k).pass = m, OpAt(Main, k).e = a
          PROVE  SlotHolds(m, a)'
      <4>1. CASE k \in Pending(Main)'
        BY <1>1, <3>3, <4>1 DEF SlotHolds, HashAt
      <4>2. CASE k = h
        <5>1. hash'[a] = m
          BY <1>1, <3>1, <3>3, <4>2 DEF QueueTyped
        <5>2. QED
          BY <1>1, <1>3, <2>2, <3>3, <4>2, <5>1 DEF SlotHolds
      <4>3. QED
        BY <1>1, <4>1, <4>2
    <3>4. QED
      BY <1>4, <3>2, <3>3 DEF SlotHolds
  <2>3. QED
    BY <2>1, <2>2
<1>5. ASSUME NEW k \in Pending(Main)', op.do = "hash" PROVE op.pass <= OpAt(Main, k).pass
  BY <1>1, <1>5 DEF SmoothInv, Order, MainOrder
<1>6. ASSUME NEW e \in Embeds, NEW k \in Pending(e), op.do = "hash"
      PROVE  op.pass <= OpAt(e, k).pass
  <2>1. CASE OpAt(e, k).pass = step
    BY <1>2, <2>1
  <2>2. ASSUME NEW l \in Pending(Main), OpAt(Main, l).do = "wait",
               OpAt(Main, l).pass = OpAt(e, k).pass
        PROVE  op.pass <= OpAt(e, k).pass
    <3>1. l \in Pending(Main)'
      BY <1>1, <1>6, <2>2
    <3>2. QED
      BY <1>5, <1>6, <2>2, <3>1
  <2>3. QED
    BY <2>1, <2>2 DEF SmoothInv, Links, Joined
<1>7. IdsOfPass'
  <2>1. SlotHolds(step, slot)'
    <3>1. PICK m \in 0 .. step, a \in Slots : m = step /\ a = slot
      BY <1>1 DEF QueueTyped
    <3>2. SlotHolds(m, a)'
      BY <1>2, <1>4, <3>1 DEF SmoothInv, Links, IdsOfPass
    <3>3. QED
      BY <3>1, <3>2
  <2>2. ASSUME NEW k \in Pending(Main)', OpAt(Main, k)'.do = "ids"
        PROVE  SlotHolds(OpAt(Main, k).pass, OpAt(Main, k).n)'
    <3>1. k \in Pending(Main) /\ OpAt(Main, k)' = OpAt(Main, k)
      BY <1>1
    <3>2. PICK m \in 0 .. step, a \in Slots : m = OpAt(Main, k).pass /\ a = OpAt(Main, k).n
      BY <2>2, <3>1 DEF SmoothInv, Order, MainTyped
    <3>3. SlotHolds(m, a)
      BY <1>1, <2>2, <3>1, <3>2 DEF SmoothInv, Links, IdsOfPass
    <3>4. SlotHolds(m, a)'
      BY <1>4, <1>5, <3>2, <3>3
    <3>5. QED
      BY <3>1, <3>2, <3>4
  <2>3. ASSUME NEW e \in Embeds, NEW k \in Pending(e)', OpAt(e, k)'.do = "ids"
        PROVE  SlotHolds(OpAt(e, k).pass, OpAt(e, k).n)'
    <3>1. k \in Pending(e) /\ OpAt(e, k)' = OpAt(e, k)
      BY <1>1
    <3>2. PICK m \in 0 .. step, a \in Slots : m = OpAt(e, k).pass /\ a = OpAt(e, k).n
      BY <2>3, <3>1 DEF SmoothInv, Order, SideTyped
    <3>3. SlotHolds(m, a)
      BY <1>1, <2>3, <3>1, <3>2 DEF SmoothInv, Links, IdsOfPass
    <3>4. SlotHolds(m, a)'
      BY <1>4, <1>6, <3>1, <3>2, <3>3
    <3>5. QED
      BY <3>1, <3>2, <3>4
  <2>4. QED
    BY <2>1, <2>2, <2>3 DEF IdsOfPass, Streams
<1>8. Forked'
  <2>1. ASSUME NEW e \in Embeds, NEW k \in Pending(e)', OpAt(e, k)'.do = "wait"
        PROVE  HashPoint(OpAt(e, k).n, OpAt(e, k).pass)'
    <3>1. k \in Pending(e) /\ OpAt(e, k)' = OpAt(e, k)
      BY <1>1
    <3>2. PICK m \in Nat, n \in Int : m = OpAt(e, k).pass /\ n = OpAt(e, k).n
      BY <1>1, <2>1, <3>1 DEF SmoothInv, Order, SideTyped
    <3>3. HashPoint(n, m)
      BY <2>1, <3>1, <3>2 DEF SmoothInv, Links, Forked
    <3>4. HashPoint(n, m)'
      BY <1>3, <3>3
    <3>5. QED
      BY <3>1, <3>2, <3>4
  <2>2. QED
    BY <2>1 DEF Forked
<1>9. ASSUME NEW e \in Embeds, NEW n \in Int, NEW m \in 0 .. step, Fetched(e, n, m),
             m = step \/ \E k \in Pending(Main)' : OpAt(Main, k).pass = m
      PROVE  Fetched(e, n, m)'
  <2>1. op.pass <= m
    BY <1>1, <1>2, <1>9 DEF SmoothInv, Order, MainOrder
  <2>2. CASE n \in Pending(e) /\ OpAt(e, n).do = "rows" /\ OpAt(e, n).pass = m
    BY <1>1, <2>2 DEF Fetched
  <2>3. CASE n <= done[e] /\ device[e] = m /\ Hashed(m) /\ Drained(e, m)
    <3>1. CASE op.do = "rows" /\ op.e = e
      <4>1. op.pass = m
        <5>1. SUFFICES ASSUME op.pass # m PROVE FALSE
          OBVIOUS
        <5>2. m \in OpAt(Main, h).pass + 1 .. step
          BY <1>1, <1>2, <2>1, <5>1
        <5>3. PICK l \in Pending(Main) : HashAt(l) /\ OpAt(Main, l).pass = m
          BY <1>1, <5>2 DEF SmoothInv, Order, MainOrder
        <5>4. QED
          BY <1>2, <2>3, <5>3 DEF Hashed
      <4>2. device' = [device EXCEPT ![e] = rows[e]] /\ rows[e] = op.pass
        BY <1>1, <3>1 DEF Ran, Effect, memory, SmoothInv, Reads, MainReads
      <4>3. device'[e] = m
        BY <4>1, <4>2 DEF QueueTyped
      <4>4. QED
        BY <1>1, <1>3, <2>3, <4>3 DEF Fetched
    <3>2. CASE ~(op.do = "rows" /\ op.e = e)
      <4>1. device'[e] = device[e]
        BY <1>1, <3>2 DEF Ran, Effect, memory, QueueTyped, Kinds
      <4>2. QED
        BY <1>1, <1>3, <2>3, <4>1 DEF Fetched
    <3>3. QED
      BY <3>1, <3>2
  <2>4. QED
    BY <1>9, <2>2, <2>3 DEF Fetched
<1>10. Fetching'
  <2>1. ASSUME NEW k \in Pending(Main)', OpAt(Main, k)'.do = "wait"
        PROVE  Fetched(OpAt(Main, k).e, OpAt(Main, k).n, OpAt(Main, k).pass)'
    <3>1. k \in Pending(Main) /\ OpAt(Main, k)' = OpAt(Main, k)
      BY <1>1
    <3>2. PICK m \in 0 .. step, e \in Embeds, n \in Int :
            m = OpAt(Main, k).pass /\ e = OpAt(Main, k).e /\ n = OpAt(Main, k).n
      BY <2>1, <3>1 DEF SmoothInv, Order, MainTyped
    <3>3. Fetched(e, n, m)
      BY <2>1, <3>1, <3>2 DEF SmoothInv, Links, Fetching
    <3>4. Fetched(e, n, m)'
      BY <1>9, <3>2, <3>3
    <3>5. QED
      BY <3>1, <3>2, <3>4
  <2>2. ASSUME NEW e \in Embeds, pending'[e] PROVE Fetched(e, Issued(e), step)'
    <3>1. PICK n \in Nat, m \in 0 .. step : n = Issued(e) /\ m = step
      BY <1>1, NumberedOps
    <3>2. Fetched(e, n, m)
      BY <2>2, <3>1 DEF SmoothInv, Links, Fetching
    <3>3. Fetched(e, n, m)'
      BY <1>9, <3>1, <3>2
    <3>4. Issued(e)' = n /\ step' = m
      BY <1>1, <3>1
    <3>5. QED
      BY <3>3, <3>4
  <2>3. QED
    BY <2>1, <2>2 DEF Fetching
<1>11. Joined'
  <2>1. ASSUME NEW e \in Embeds, NEW k \in Pending(e)'
        PROVE  \/ pending'[e] /\ OpAt(e, k)'.pass = step'
               \/ \E l \in Pending(Main)' : LET w == OpAt(Main, l)' IN
                    w.do = "wait" /\ w.e = e /\ w.n >= k /\ w.pass = OpAt(e, k)'.pass
    <3>1. k \in Pending(e) /\ OpAt(e, k)' = OpAt(e, k) /\ k \in Nat /\ done[e] < k
      BY <1>1 DEF Ran
    <3>2. CASE pending[e] /\ OpAt(e, k).pass = step
      BY <3>1, <3>2
    <3>3. ASSUME NEW l \in Pending(Main), OpAt(Main, l).do = "wait", OpAt(Main, l).e = e,
                 OpAt(Main, l).n >= k, OpAt(Main, l).pass = OpAt(e, k).pass
          PROVE  l \in Pending(Main)' /\ OpAt(Main, l)' = OpAt(Main, l)
      <4>1. l # h
        <5>1. OpAt(Main, l).n \in Nat /\ done[e] \in Nat
          BY <1>1, <3>3, NumberedOps DEF SmoothInv, Order, MainTyped
        <5>2. QED
          BY <1>1, <3>1, <3>3, <5>1
      <4>2. QED
        BY <1>1, <4>1
    <3>4. QED
      BY <3>1, <3>2, <3>3 DEF SmoothInv, Links, Joined
  <2>2. QED
    BY <2>1 DEF Joined
<1>12. QED
  BY <1>7, <1>8, <1>10, <1>11 DEF Links

LEMMA MainReadsOn ==
  ASSUME QueueTyped, PrefetchAssumption, SmoothInv,
         NEW h \in Nat, NEW op \in Ops, Ran(Main, h, op), op.do \in Kinds,
         op.do = "wait" => done[op.e] >= op.n,
         UNCHANGED <<step, slot, at, layer, pending, disabled, check>>,
         \A u \in Streams : Issued(u)' = Issued(u)
  PROVE  Reads'
<1>1. /\ Main \in Streams /\ step \in Nat /\ h \in Pending(Main) /\ op = OpAt(Main, h)
      /\ \A e \in Embeds : e \in Streams /\ e # Main
      /\ \A k \in Pending(Main)' : k \in Pending(Main) /\ OpAt(Main, k)' = OpAt(Main, k) /\ h < k
      /\ \A e \in Embeds : \A k \in Pending(e)' : k \in Pending(e) /\ OpAt(e, k)' = OpAt(e, k)
      /\ \A e \in Embeds : done'[e] = done[e] /\ done[e] \in Nat
      /\ \A e \in Embeds : \A k \in Pending(e) : k > done[e] /\ k \in Nat
      /\ h = done[Main] + 1 /\ done'[Main] = h
  BY StreamsTyped, NumberedOps DEF Ran, QueueTyped
<1>2. /\ op.pass \in 0 .. step
      /\ op.do # "hash" => op.e \in Embeds
      /\ op.do \in {"gather", "compare"} => op.n = op.pass
      /\ op.do = "ids" => op.n \in Slots
      /\ op.do = "compare" => ~disabled
      /\ op.do = "wait" => ~disabled /\ op.n \in Nat
  BY <1>1 DEF SmoothInv, Order, MainTyped
<1>3. /\ \A m \in Nat : Hashed(m) => Hashed(m)'
      /\ \A m \in Nat : \A e \in Embeds : Drained(e, m) => Drained(e, m)'
  BY <1>1, RunKeeps DEF SmoothInv
<1>4. op.do \in {"ids", "serve", "rows", "gather", "compare"} =>
        /\ Drained(op.e, op.pass)
        /\ op.do = "serve" => ids[op.e] = op.pass
        /\ op.do = "rows" => rows[op.e] = op.pass
        /\ op.do \in {"gather", "compare"} => device[op.e] = op.pass
        /\ op.do # "gather" /\ ~disabled => out[op.e].got = op.pass
  BY <1>1 DEF SmoothInv, Reads, MainReads
<1>5. /\ op.do = "ids" => ids' = [ids EXCEPT ![op.e] = hash[op.n]]
      /\ op.do # "ids" => ids' = ids
      /\ op.do = "serve" => rows' = [rows EXCEPT ![op.e] = ids[op.e]]
      /\ op.do # "serve" => rows' = rows
      /\ op.do = "rows" => device' = [device EXCEPT ![op.e] = rows[op.e]]
      /\ op.do # "rows" => device' = device
      /\ op.do = "gather" => out' = [out EXCEPT ![op.e] = [want |-> op.n, got |-> device[op.e]]]
      /\ op.do # "gather" => out' = out
      /\ op.do = "compare" => differed' = (differed \/ out[op.e].got # device[op.e])
      /\ op.do # "compare" => differed' = differed
  <2>1. op.do = "ids" => op.n > 0
    BY <1>2 DEF Slots
  <2>2. Effect(op)
    BY DEF Ran
  <2>3. CASE op.do = "ids"
    BY <2>1, <2>2, <2>3 DEF Effect
  <2>4. CASE op.do # "ids"
    BY <2>2, <2>4 DEF Effect, Kinds, memory
  <2>5. QED
    BY <2>3, <2>4
<1>6. /\ DOMAIN ids = Embeds /\ DOMAIN rows = Embeds /\ DOMAIN device = Embeds /\ DOMAIN out = Embeds
  BY DEF QueueTyped
<1>7. MainReads'
  <2> DEFINE next == OpAt(Main, h + 1)
  <2>1. SUFFICES ASSUME h + 1 \in Pending(Main)',
                        next'.do \in {"ids", "serve", "rows", "gather", "compare"}
                 PROVE  /\ Drained(next.e, next.pass)'
                        /\ next'.do = "serve" => ids'[next'.e] = next'.pass
                        /\ next'.do = "rows" => rows'[next'.e] = next'.pass
                        /\ next'.do \in {"gather", "compare"} => device'[next'.e] = next'.pass
                        /\ next'.do # "gather" /\ ~disabled' => out'[next'.e].got = next'.pass
    BY <1>1 DEF MainReads
  <2>2. h + 1 \in Pending(Main) /\ next' = next
    BY <1>1, <2>1
  <2>3. CASE MainNext(op.do) = "end"
    <3>1. Begins(next)
      BY <1>1, <2>2, <2>3 DEF SmoothInv, Order, MainShape
    <3>2. disabled /\ next.do = "ids"
      BY <2>1, <2>2, <3>1 DEF Begins
    <3>3. next.e \in Embeds /\ next.pass \in Nat
      BY <1>1, <2>2, <3>2 DEF SmoothInv, Order, MainTyped
    <3>4. Drained(next.e, next.pass)
      BY <3>2, <3>3 DEF Drained, SmoothInv, Order, SideTyped
    <3>5. PICK e \in Embeds, m \in Nat : e = next.e /\ m = next.pass
      BY <3>3
    <3>6. Drained(e, m)'
      BY <1>3, <3>4, <3>5
    <3>7. QED
      BY <2>2, <3>2, <3>5, <3>6
  <2>4. CASE MainNext(op.do) # "end"
    <3>1. next.do = MainNext(op.do) /\ next.e = op.e /\ next.pass = op.pass
      BY <1>1, <2>4 DEF SmoothInv, Order, MainShape
    <3>2. PICK e \in Embeds, m \in Nat : e = op.e /\ m = op.pass /\ m \in 0 .. step
      BY <1>2, <2>4 DEF MainNext
    <3>3. CASE op.do = "wait"
      <4>1. next.do = "gather"
        BY <3>1, <3>3 DEF MainNext
      <4>2. Fetched(e, op.n, m)
        BY <1>1, <3>2, <3>3 DEF SmoothInv, Links, Fetching
      <4>3. done[e] >= op.n /\ op.n \in Nat
        BY <1>2, <3>2, <3>3
      <4>4. device[e] = m /\ Drained(e, m)
        BY <1>1, <4>2, <4>3 DEF Fetched
      <4>5. Drained(e, m)' /\ device' = device
        BY <1>3, <1>5, <3>3, <4>4
      <4>6. QED
        BY <2>2, <3>1, <3>2, <4>1, <4>4, <4>5
    <3>4. CASE op.do # "wait"
      <4>1. op.do \in {"ids", "serve", "rows", "gather"}
        BY <2>4, <3>4 DEF MainNext, Kinds
      <4>2. Drained(e, m)'
        BY <1>3, <1>4, <3>2, <4>1
      <4>3. op.do # "gather" /\ ~disabled => out'[e].got = m
        BY <1>4, <1>5, <3>2, <4>1
      <4>4. CASE op.do = "ids"
        <5>1. next.do = "serve"
          BY <3>1, <4>4 DEF MainNext
        <5>2. hash[op.n] = m
          <6>1. SlotHolds(m, op.n)
            BY <1>1, <3>2, <4>4 DEF SmoothInv, Links, IdsOfPass
          <6>2. ASSUME NEW k \in Pending(Main), HashAt(k), OpAt(Main, k).pass = m PROVE FALSE
            <7>1. k # h /\ k \in Nat /\ k > done[Main] /\ done[Main] \in Nat
              BY <1>1, <4>4, <6>2, NumberedOps DEF HashAt, Pending
            <7>2. h < k
              BY <1>1, <7>1
            <7>3. OpAt(Main, h).pass < OpAt(Main, k).pass
              BY <1>1, <6>2, <7>2 DEF SmoothInv, Order, MainOrder
            <7>4. QED
              BY <1>1, <3>2, <6>2, <7>3
          <6>3. QED
            BY <6>1, <6>2 DEF SlotHolds
        <5>3. ids'[e] = m
          BY <1>5, <1>6, <3>2, <4>4, <5>2
        <5>4. QED
          BY <1>1, <2>2, <3>1, <3>2, <4>2, <4>3, <4>4, <5>1, <5>3
      <4>5. CASE op.do = "serve"
        <5>1. next.do = "rows"
          BY <3>1, <4>5 DEF MainNext
        <5>2. rows'[e] = m
          BY <1>4, <1>5, <1>6, <3>2, <4>5
        <5>3. QED
          BY <2>2, <3>1, <3>2, <4>2, <4>3, <4>5, <5>1, <5>2
      <4>6. CASE op.do = "rows"
        <5>1. next.do \in {"gather", "compare"}
          BY <3>1, <4>6 DEF MainNext
        <5>2. device'[e] = m
          BY <1>4, <1>5, <1>6, <3>2, <4>6
        <5>3. QED
          BY <2>2, <3>1, <3>2, <4>2, <4>3, <4>6, <5>1, <5>2
      <4>7. CASE op.do = "gather"
        <5>1. next.do = "ids"
          BY <2>4, <3>1, <4>7 DEF MainNext
        <5>2. out'[e].got = m
          BY <1>4, <1>5, <1>6, <3>2, <4>7
        <5>3. QED
          BY <2>2, <3>1, <3>2, <4>2, <5>1, <5>2
      <4>8. QED
        BY <4>1, <4>4, <4>5, <4>6, <4>7
    <3>5. QED
      BY <3>3, <3>4
  <2>5. QED
    BY <2>3, <2>4
<1>8. SideReads'
  <2>1. SUFFICES ASSUME NEW e \in Embeds, NEW k \in Nat, k = done[e] + 1, k \in Pending(e)',
                        OpAt(e, k)'.do # "wait"
                 PROVE  /\ Hashed(OpAt(e, k).pass)'
                        /\ OpAt(e, k)'.do = "serve" => ids'[e] = OpAt(e, k)'.pass
                        /\ OpAt(e, k)'.do = "rows" => rows'[e] = OpAt(e, k)'.pass
    BY <1>1 DEF SideReads
  <2>2. k \in Pending(e) /\ OpAt(e, k)' = OpAt(e, k)
    BY <1>1, <2>1
  <2>3. PICK m \in Nat : m = OpAt(e, k).pass
    BY <1>1, <2>2 DEF SmoothInv, Order, SideTyped
  <2>4. /\ Hashed(m)
        /\ OpAt(e, k).do = "serve" => ids[e] = m
        /\ OpAt(e, k).do = "rows" => rows[e] = m
    BY <2>1, <2>2, <2>3 DEF SmoothInv, Reads, SideReads
  <2>5. Hashed(m)'
    BY <1>3, <2>4
  <2>6. op.do \in {"ids", "serve"} => op.e # e
    BY <1>1, <2>1, <2>2, Apart DEF SmoothInv, Links
  <2>7. ids'[e] = ids[e] /\ rows'[e] = rows[e]
    BY <1>2, <1>5, <1>6, <2>6
  <2>8. QED
    BY <2>2, <2>3, <2>4, <2>5, <2>7
<1>9. Exact'
  <2>1. \A e \in Embeds : out[e].got = out[e].want
    BY DEF SmoothInv, Reads, Exact, GatherExact
  <2>2. ~differed
    BY DEF SmoothInv, Reads, Exact
  <2>3. ~differed'
    BY <1>2, <1>4, <1>5, <2>2
  <2>4. \A e \in Embeds : out'[e].got = out'[e].want
    BY <1>2, <1>4, <1>5, <1>6, <2>1
  <2>5. QED
    BY <2>3, <2>4 DEF Exact, GatherExact
<1>10. QED
  BY <1>7, <1>8, <1>9 DEF Reads

\* A side stream that runs leaves the main stream what it joins and reads.
LEMMA SideLinks ==
  ASSUME QueueTyped, PrefetchAssumption, SmoothInv, NEW s \in Embeds,
         NEW h \in Nat, NEW op \in Ops, Ran(s, h, op), op.do \in Kinds,
         UNCHANGED <<step, slot, at, layer, pending, disabled, check>>,
         \A u \in Streams : Issued(u)' = Issued(u)
  PROVE  Links'
<1>1. /\ Main \in Streams /\ step \in Nat /\ h \in Pending(s) /\ op = OpAt(s, h)
      /\ s \in Streams /\ s # Main /\ \A e \in Embeds : e \in Streams /\ e # Main
      /\ \A k \in Pending(Main)' : k \in Pending(Main) /\ OpAt(Main, k)' = OpAt(Main, k)
      /\ \A k \in Pending(Main) : k \in Pending(Main)'
      /\ \A e \in Embeds : \A k \in Pending(e)' : k \in Pending(e) /\ OpAt(e, k)' = OpAt(e, k)
      /\ \A e \in Embeds : \A k \in Pending(e) : k \in Pending(e)' \/ (e = s /\ k = h)
      /\ \A k \in Pending(s)' : h < k
      /\ h = done[s] + 1 /\ done'[s] = h /\ done[s] \in Nat
      /\ \A e \in Embeds : e # s => done'[e] = done[e]
  BY StreamsTyped, NumberedOps DEF Ran, QueueTyped
<1>2. /\ op.pass \in 0 .. step /\ op.do \in {"wait", "ids", "serve", "rows"}
      /\ op.do # "wait" => op.e = s
  BY <1>1 DEF SmoothInv, Order, SideTyped
<1>3. /\ \A m \in Nat : Hashed(m) => Hashed(m)'
      /\ \A m \in Nat : \A n \in Int : HashPoint(n, m) => HashPoint(n, m)'
      /\ \A m \in Nat : \A e \in Embeds : Drained(e, m) => Drained(e, m)'
  BY <1>1, RunKeeps DEF SmoothInv
<1>4. hash' = hash
  BY <1>2 DEF Ran, Effect, memory
<1>5. ASSUME NEW m \in 0 .. step, NEW a \in Slots, SlotHolds(m, a) PROVE SlotHolds(m, a)'
  BY <1>1, <1>3, <1>4, <1>5 DEF SlotHolds, HashAt
<1>6. IdsOfPass'
  <2>1. SlotHolds(step, slot)'
    <3>1. PICK m \in 0 .. step, a \in Slots : m = step /\ a = slot
      BY <1>1 DEF QueueTyped
    <3>2. SlotHolds(m, a)'
      BY <1>5, <3>1 DEF SmoothInv, Links, IdsOfPass
    <3>3. QED
      BY <3>1, <3>2
  <2>2. ASSUME NEW u \in Streams, NEW k \in Pending(u)', OpAt(u, k)'.do = "ids"
        PROVE  SlotHolds(OpAt(u, k).pass, OpAt(u, k).n)'
    <3>1. k \in Pending(u) /\ OpAt(u, k)' = OpAt(u, k)
      BY DEF Ran
    <3>2. PICK m \in 0 .. step, a \in Slots : m = OpAt(u, k).pass /\ a = OpAt(u, k).n
      <4>1. CASE u = Main
        BY <2>2, <3>1, <4>1 DEF SmoothInv, Order, MainTyped
      <4>2. CASE u \in Embeds
        BY <2>2, <3>1, <4>2 DEF SmoothInv, Order, SideTyped
      <4>3. QED
        BY <4>1, <4>2 DEF Streams
    <3>3. SlotHolds(m, a)
      BY <2>2, <3>1, <3>2 DEF SmoothInv, Links, IdsOfPass
    <3>4. SlotHolds(m, a)'
      BY <1>5, <3>3
    <3>5. QED
      BY <3>1, <3>2, <3>4
  <2>3. QED
    BY <2>1, <2>2 DEF IdsOfPass
<1>7. Forked'
  <2>1. ASSUME NEW e \in Embeds, NEW k \in Pending(e)', OpAt(e, k)'.do = "wait"
        PROVE  HashPoint(OpAt(e, k).n, OpAt(e, k).pass)'
    <3>1. k \in Pending(e) /\ OpAt(e, k)' = OpAt(e, k)
      BY <1>1
    <3>2. PICK m \in Nat, n \in Int : m = OpAt(e, k).pass /\ n = OpAt(e, k).n
      BY <1>1, <2>1, <3>1 DEF SmoothInv, Order, SideTyped
    <3>3. HashPoint(n, m)
      BY <2>1, <3>1, <3>2 DEF SmoothInv, Links, Forked
    <3>4. HashPoint(n, m)'
      BY <1>3, <3>3
    <3>5. QED
      BY <3>1, <3>2, <3>4
  <2>2. QED
    BY <2>1 DEF Forked
<1>8. ASSUME NEW e \in Embeds, NEW n \in Int, NEW m \in 0 .. step, Fetched(e, n, m),
             m = step \/ \E k \in Pending(Main) : OpAt(Main, k).pass = m
      PROVE  Fetched(e, n, m)'
  <2>1. CASE e # s
    <3>1. device'[e] = device[e]
      BY <1>2, <2>1 DEF Ran, Effect, memory, QueueTyped
    <3>2. QED
      BY <1>1, <1>3, <1>8, <2>1, <3>1 DEF Fetched
  <2>2. CASE e = s /\ n \in Pending(s) /\ OpAt(s, n).do = "rows" /\ OpAt(s, n).pass = m
    <3>1. CASE n \in Pending(s)'
      BY <1>1, <2>2, <3>1 DEF Fetched
    <3>2. CASE n = h
      <4>1. Hashed(m) /\ rows[s] = m
        BY <1>1, <2>2, <3>2 DEF SmoothInv, Reads, SideReads
      <4>2. device' = [device EXCEPT ![s] = rows[s]]
        BY <1>1, <1>2, <2>2, <3>2 DEF Ran, Effect, memory
      <4>3. device'[s] = m
        BY <4>1, <4>2 DEF QueueTyped
      <4>4. ASSUME NEW k \in Pending(s)' PROVE OpAt(s, k)'.pass > m
        <5>1. k \in Pending(s) /\ OpAt(s, k)' = OpAt(s, k) /\ h < k
          BY <1>1
        <5>2. OpAt(s, h).pass < OpAt(s, k).pass
          BY <1>1, <2>2, <3>2, <5>1 DEF SmoothInv, Order, SideOrder
        <5>3. OpAt(s, k).pass \in Nat
          BY <1>1, <5>1, NumberedOps DEF Ops
        <5>4. QED
          BY <2>2, <3>2, <5>1, <5>2, <5>3
      <4>5. QED
        BY <1>1, <1>3, <2>2, <3>2, <4>1, <4>3, <4>4 DEF Fetched, Drained
    <3>3. QED
      BY <1>1, <2>2, <3>1, <3>2
  <2>3. CASE e = s /\ n <= done[s] /\ device[s] = m /\ Hashed(m) /\ Drained(s, m)
    <3>1. op.pass > m
      BY <1>1, <2>3 DEF Drained
    <3>2. op.do # "rows"
      <4>1. SUFFICES ASSUME op.do = "rows" PROVE FALSE
        OBVIOUS
      <4>2. Hashed(op.pass)
        BY <1>1, <4>1 DEF SmoothInv, Reads, SideReads
      <4>3. PICK k \in Pending(Main) : OpAt(Main, k).pass = m
        BY <1>1, <1>2, <1>8, <3>1
      <4>4. op.pass \in OpAt(Main, k).pass + 1 .. step
        BY <1>2, <3>1, <4>3
      <4>5. PICK l \in Pending(Main) : HashAt(l) /\ OpAt(Main, l).pass = op.pass
        BY <4>4 DEF SmoothInv, Order, MainOrder
      <4>6. QED
        BY <1>2, <4>2, <4>5 DEF Hashed
    <3>3. device' = device
      BY <1>2, <3>2 DEF Ran, Effect, memory
    <3>4. QED
      BY <1>1, <1>3, <2>3, <3>3 DEF Fetched
  <2>4. QED
    BY <1>8, <2>1, <2>2, <2>3 DEF Fetched
<1>9. Fetching'
  <2>1. ASSUME NEW k \in Pending(Main)', OpAt(Main, k)'.do = "wait"
        PROVE  Fetched(OpAt(Main, k).e, OpAt(Main, k).n, OpAt(Main, k).pass)'
    <3>1. k \in Pending(Main) /\ OpAt(Main, k)' = OpAt(Main, k)
      BY <1>1
    <3>2. PICK m \in 0 .. step, e \in Embeds, n \in Int :
            m = OpAt(Main, k).pass /\ e = OpAt(Main, k).e /\ n = OpAt(Main, k).n
      BY <2>1, <3>1 DEF SmoothInv, Order, MainTyped
    <3>3. Fetched(e, n, m)
      BY <2>1, <3>1, <3>2 DEF SmoothInv, Links, Fetching
    <3>4. Fetched(e, n, m)'
      BY <1>8, <3>1, <3>2, <3>3
    <3>5. QED
      BY <3>1, <3>2, <3>4
  <2>2. ASSUME NEW e \in Embeds, pending'[e] PROVE Fetched(e, Issued(e), step)'
    <3>1. PICK n \in Nat, m \in 0 .. step : n = Issued(e) /\ m = step
      BY <1>1, NumberedOps
    <3>2. Fetched(e, n, m)
      BY <2>2, <3>1 DEF SmoothInv, Links, Fetching
    <3>3. Fetched(e, n, m)'
      BY <1>8, <3>1, <3>2
    <3>4. Issued(e)' = n /\ step' = m
      BY <1>1, <3>1
    <3>5. QED
      BY <3>3, <3>4
  <2>3. QED
    BY <2>1, <2>2 DEF Fetching
<1>10. Joined'
  BY <1>1 DEF SmoothInv, Links, Joined
<1>11. QED
  BY <1>6, <1>7, <1>9, <1>10 DEF Links

LEMMA SideReadsOn ==
  ASSUME QueueTyped, PrefetchAssumption, SmoothInv, NEW s \in Embeds,
         NEW h \in Nat, NEW op \in Ops, Ran(s, h, op), op.do \in Kinds,
         op.do = "wait" => done[op.e] >= op.n,
         UNCHANGED <<step, slot, at, layer, pending, disabled, check>>,
         \A u \in Streams : Issued(u)' = Issued(u)
  PROVE  Reads'
<1>1. /\ Main \in Streams /\ step \in Nat /\ h \in Pending(s) /\ op = OpAt(s, h)
      /\ s \in Streams /\ s # Main /\ \A e \in Embeds : e \in Streams /\ e # Main
      /\ \A k \in Pending(Main)' : k \in Pending(Main) /\ OpAt(Main, k)' = OpAt(Main, k)
      /\ \A e \in Embeds : \A k \in Pending(e)' : k \in Pending(e) /\ OpAt(e, k)' = OpAt(e, k)
      /\ \A k \in Pending(s)' : h < k
      /\ h = done[s] + 1 /\ done'[s] = h /\ done[s] \in Nat /\ done'[Main] = done[Main]
      /\ \A e \in Embeds : e # s => done'[e] = done[e]
      /\ \A e \in Embeds : done[e] \in Nat /\ done[Main] \in Nat
  BY StreamsTyped, NumberedOps DEF Ran, QueueTyped
<1>2. /\ op.pass \in 0 .. step /\ op.do \in {"wait", "ids", "serve", "rows"}
      /\ op.e = IF op.do = "wait" THEN Main ELSE s
      /\ op.do = "ids" => op.n \in Slots
      /\ op.do = "wait" => op.n \in Nat
  BY <1>1 DEF SmoothInv, Order, SideTyped
<1>3. /\ \A m \in Nat : Hashed(m) => Hashed(m)'
      /\ \A m \in Nat : \A e \in Embeds : Drained(e, m) => Drained(e, m)'
  BY <1>1, RunKeeps DEF SmoothInv
<1>4. /\ op.do = "ids" => ids' = [ids EXCEPT ![s] = hash[op.n]]
      /\ op.do # "ids" => ids' = ids
      /\ op.do = "serve" => rows' = [rows EXCEPT ![s] = ids[s]]
      /\ op.do # "serve" => rows' = rows
      /\ op.do = "rows" => device' = [device EXCEPT ![s] = rows[s]]
      /\ op.do # "rows" => device' = device
      /\ out' = out /\ differed' = differed
  <2>1. op.do = "ids" => op.n > 0
    BY <1>2 DEF Slots
  <2>2. Effect(op)
    BY DEF Ran
  <2>3. CASE op.do = "ids"
    BY <1>2, <2>1, <2>2, <2>3 DEF Effect
  <2>4. CASE op.do # "ids"
    BY <1>2, <2>2, <2>4 DEF Effect, memory
  <2>5. QED
    BY <2>3, <2>4
<1>5. DOMAIN ids = Embeds /\ DOMAIN rows = Embeds /\ DOMAIN device = Embeds
  BY DEF QueueTyped
<1>6. MainReads'
  <2>1. SUFFICES ASSUME NEW k \in Nat, k = done[Main] + 1, k \in Pending(Main)',
                        OpAt(Main, k)'.do \in {"ids", "serve", "rows", "gather", "compare"}
                 PROVE  LET first == OpAt(Main, k) IN
                        /\ Drained(first.e, first.pass)'
                        /\ first'.do = "serve" => ids'[first'.e] = first'.pass
                        /\ first'.do = "rows" => rows'[first'.e] = first'.pass
                        /\ first'.do \in {"gather", "compare"} => device'[first'.e] = first'.pass
                        /\ first'.do # "gather" /\ ~disabled' => out'[first'.e].got = first'.pass
    BY <1>1 DEF MainReads
  <2>2. k \in Pending(Main) /\ OpAt(Main, k)' = OpAt(Main, k)
    BY <1>1, <2>1
  <2>3. PICK e \in Embeds, m \in Nat : e = OpAt(Main, k).e /\ m = OpAt(Main, k).pass
    BY <1>1, <2>1, <2>2 DEF SmoothInv, Order, MainTyped
  <2>4. /\ Drained(e, m)
        /\ OpAt(Main, k).do = "serve" => ids[e] = m
        /\ OpAt(Main, k).do = "rows" => rows[e] = m
        /\ OpAt(Main, k).do \in {"gather", "compare"} => device[e] = m
        /\ OpAt(Main, k).do # "gather" /\ ~disabled => out[e].got = m
    BY <2>1, <2>2, <2>3 DEF SmoothInv, Reads, MainReads
  <2>5. op.do # "wait" => e # s
    BY <1>1, <2>1, <2>2, <2>3, Apart DEF SmoothInv, Links
  <2>6. ids'[e] = ids[e] /\ rows'[e] = rows[e] /\ device'[e] = device[e] /\ out' = out
    BY <1>4, <1>5, <2>5
  <2>7. Drained(e, m)'
    BY <1>3, <2>4
  <2>8. QED
    BY <2>2, <2>3, <2>4, <2>6, <2>7
<1>7. SideReads'
  <2>1. SUFFICES ASSUME NEW e \in Embeds, NEW k \in Nat, k = done'[e] + 1, k \in Pending(e)',
                        OpAt(e, k)'.do # "wait"
                 PROVE  /\ Hashed(OpAt(e, k).pass)'
                        /\ OpAt(e, k)'.do = "serve" => ids'[e] = OpAt(e, k)'.pass
                        /\ OpAt(e, k)'.do = "rows" => rows'[e] = OpAt(e, k)'.pass
    BY <1>1 DEF SideReads
  <2>2. k \in Pending(e) /\ OpAt(e, k)' = OpAt(e, k)
    BY <1>1, <2>1
  <2>3. PICK m \in Nat : m = OpAt(e, k).pass
    BY <1>1, <2>2 DEF SmoothInv, Order, SideTyped
  <2>4. CASE e # s
    <3>1. /\ Hashed(m)
          /\ OpAt(e, k).do = "serve" => ids[e] = m
          /\ OpAt(e, k).do = "rows" => rows[e] = m
      BY <1>1, <2>1, <2>2, <2>3, <2>4 DEF SmoothInv, Reads, SideReads
    <3>2. ids'[e] = ids[e] /\ rows'[e] = rows[e] /\ Hashed(m)'
      BY <1>3, <1>4, <1>5, <2>4, <3>1
    <3>3. QED
      BY <2>2, <2>3, <3>1, <3>2
  <2>5. CASE e = s
    <3>1. k = h + 1
      BY <1>1, <2>1, <2>5
    <3>2. SideNext(op.do) # "end"
      BY <1>1, <2>1, <2>2, <2>5, <3>1 DEF SmoothInv, Order, SideShape
    <3>3. OpAt(s, k).do = SideNext(op.do) /\ op.pass = m
      BY <1>1, <2>3, <2>5, <3>1, <3>2 DEF SmoothInv, Order, SideShape
    <3>4. CASE op.do = "wait"
      <4>1. OpAt(s, k).do = "ids"
        BY <3>3, <3>4 DEF SideNext
      <4>2. HashPoint(op.n, m) /\ done[Main] >= op.n
        BY <1>1, <1>2, <3>3, <3>4 DEF SmoothInv, Links, Forked
      <4>3. \A i \in Pending(Main) : i > done[Main]
        BY <1>1, NumberedOps DEF Pending
      <4>4. Hashed(m)
        BY <1>1, <1>2, <3>4, <4>2, <4>3 DEF HashPoint
      <4>5. QED
        BY <1>3, <2>2, <2>3, <2>5, <4>1, <4>4
    <3>5. CASE op.do # "wait"
      <4>1. /\ Hashed(m)
            /\ op.do = "serve" => ids[s] = m
        BY <1>1, <3>3, <3>5 DEF SmoothInv, Reads, SideReads
      <4>2. CASE op.do = "ids"
        <5>1. OpAt(s, k).do = "serve"
          BY <3>3, <4>2 DEF SideNext
        <5>2. SlotHolds(m, op.n)
          BY <1>1, <3>3, <4>2 DEF SmoothInv, Links, IdsOfPass
        <5>3. hash[op.n] = m
          BY <4>1, <5>2 DEF SlotHolds, Hashed
        <5>4. ids'[s] = m
          BY <1>4, <1>5, <4>2, <5>3
        <5>5. QED
          BY <1>3, <2>2, <2>3, <2>5, <4>1, <5>1, <5>4
      <4>3. CASE op.do = "serve"
        <5>1. OpAt(s, k).do = "rows"
          BY <3>3, <4>3 DEF SideNext
        <5>2. rows'[s] = m
          BY <1>4, <4>1, <4>3 DEF QueueTyped
        <5>3. QED
          BY <1>3, <2>2, <2>3, <2>5, <4>1, <5>1, <5>2
      <4>4. CASE op.do = "rows"
        BY <3>2, <4>4 DEF SideNext
      <4>5. QED
        BY <1>2, <3>5, <4>2, <4>3, <4>4
    <3>6. QED
      BY <3>4, <3>5
  <2>6. QED
    BY <2>4, <2>5
<1>8. Exact'
  BY <1>4 DEF SmoothInv, Reads, Exact, GatherExact
<1>9. QED
  BY <1>6, <1>7, <1>8 DEF Reads

LEMMA RunStep ==
  ASSUME QueueTyped, PrefetchAssumption, SmoothInv, NEW s \in Streams, Run(s)
  PROVE  SmoothInv'
<1>1. PICK h \in Nat, op \in Ops :
        /\ Ran(s, h, op)
        /\ op.do = "wait" => done[op.e] >= op.n
        /\ UNCHANGED <<step, slot, at, layer, pending, disabled, check>>
        /\ \A u \in Streams : Issued(u)' = Issued(u)
        /\ op.do \in Kinds
  BY RunRan
<1>2. Order'
  BY RunOrder DEF SmoothInv
<1>3. Links' /\ Reads'
  <2>1. CASE s = Main
    BY <1>1, <2>1, MainLinks, MainReadsOn
  <2>2. CASE s \in Embeds
    BY <1>1, <2>2, SideLinks, SideReadsOn
  <2>3. QED
    BY <2>1, <2>2 DEF Streams
<1>4. Python'
  <2>1. Main \in Streams /\ step \in Nat
    BY StreamsTyped DEF QueueTyped
  <2>2. \A k \in Pending(Main)' : k \in Pending(Main) /\ OpAt(Main, k)' = OpAt(Main, k)
    BY <1>1, <2>1 DEF Ran
  <2>3. PICK n \in Int : n = Issued(Main)
    BY <2>1, NumberedOps
  <2>4. HashPoint(n, step) => HashPoint(n, step)'
    <3>1. PICK m \in Nat : m = step
      BY <2>1
    <3>2. HashPoint(n, m) => HashPoint(n, m)'
      BY <1>1, RunKeeps DEF SmoothInv
    <3>3. QED
      BY <1>1, <3>1, <3>2
  <2>5. HashPoint(Issued(Main), step) => HashPoint(Issued(Main), step)'
    BY <1>1, <2>1, <2>3, <2>4
  <2>6. QED
    BY <1>1, <2>2, <2>5 DEF SmoothInv, Python, HashAt
<1>5. QED
  BY <1>2, <1>3, <1>4 DEF SmoothInv

-----------------------------------------------------------------------------
(* The specification. *)

LEMMA PrefetchInit == Init /\ PrefetchAssumption => PrefetchInv
<1> SUFFICES ASSUME Init, PrefetchAssumption PROVE PrefetchInv
  OBVIOUS
<1>1. QueueTyped
  BY TypedInit
<1>2. \A s \in Streams : Pending(s) = {}
  BY DEF Init, Pending, Issued
<1>3. Main \in Streams /\ \A e \in Embeds : e \in Streams
  BY StreamsTyped
<1>4. Order
  BY <1>2, <1>3 DEF Order, MainTyped, MainShape, MainOrder, SideTyped, SideShape, SideOrder
<1>5. Links
  <2>1. SlotHolds(step, slot)
    BY <1>2, <1>3 DEF Init, SlotHolds, Hashed, Slots
  <2>2. \A e \in Embeds : ~pending[e]
    BY DEF Init
  <2>3. QED
    BY <1>2, <1>3, <2>1, <2>2 DEF Links, IdsOfPass, Forked, Fetching, Joined
<1>6. Python
  BY DEF Init, Python
<1>7. Reads
  BY <1>2, <1>3 DEF Init, Reads, MainReads, SideReads, Exact, GatherExact
<1>8. QED
  BY <1>1, <1>4, <1>5, <1>6, <1>7 DEF PrefetchInv, SmoothInv

LEMMA PrefetchStays ==
  ASSUME PrefetchAssumption, PrefetchInv, [Next]_vars
  PROVE  PrefetchInv'
<1>1. QueueTyped /\ errors \in Nat /\ others \in Nat
  BY DEF PrefetchInv, QueueTyped
<1>2. CASE Forward \/ Prefetch \/ Gather \/ LookUp
  <2>1. Smooth' => SmoothInv
    BY <1>2 DEF Forward, Prefetch, Gather, LookUp, Smooth, PrefetchInv
  <2>2. SmoothInv => SmoothInv'
    BY <1>1, <1>2, ForwardStep, PrefetchStep, GatherStep, LookUpStep
  <2>3. QED
    BY <1>1, <1>2, <2>1, <2>2, TypedPython DEF PrefetchInv
<1>3. CASE PrefetchFails \/ LookUpOther \/ LookUpFails
  <2>1. errors' = errors + 1 \/ others' = others + 1
    BY <1>3 DEF PrefetchFails, LookUpOther, LookUpFails
  <2>2. ~Smooth'
    BY <1>1, <2>1 DEF Smooth
  <2>3. QED
    BY <1>1, <1>3, <2>2, TypedPython DEF PrefetchInv
<1>4. ASSUME NEW s \in Streams, Run(s) PROVE PrefetchInv'
  <2>1. Smooth' => SmoothInv
    BY <1>4 DEF Run, python, Smooth, PrefetchInv
  <2>2. QED
    BY <1>1, <1>4, <2>1, RunStep, TypedRun DEF PrefetchInv
<1>5. CASE UNCHANGED vars
  <2>1. UNCHANGED <<step, slot, at, layer, pending, disabled, errors, others, check, queue, done,
                    hash, ids, rows, device, out, differed>>
    BY <1>5 DEF vars, python, memory
  <2>2. QueueTyped'
    BY <1>1, <2>1 DEF QueueTyped
  <2>3. /\ \A s : Issued(s)' = Issued(s) /\ Pending(s)' = Pending(s)
        /\ \A s, k : OpAt(s, k)' = OpAt(s, k)
    BY <2>1 DEF Issued, Pending, OpAt
  <2>4. SmoothInv => Order'
    BY <2>1, <2>3 DEF SmoothInv, Order, MainTyped, MainShape, MainNext, MainOrder, SideTyped,
                      SideShape, SideOrder, Begins, HashAt
  <2>5. SmoothInv => Links'
    BY <2>1, <2>3 DEF SmoothInv, Links, IdsOfPass, SlotHolds, Hashed, HashAt, Forked, HashPoint,
                      Fetching, Fetched, Drained, Joined
  <2>6. SmoothInv => Python'
    BY <2>1, <2>3 DEF SmoothInv, Python, HashAt, HashPoint, Hashed
  <2>7. SmoothInv => Reads'
    BY <2>1, <2>3 DEF SmoothInv, Reads, MainReads, SideReads, Exact, GatherExact, Drained, Hashed,
                      HashAt
  <2>8. QED
    BY <2>1, <2>2, <2>4, <2>5, <2>6, <2>7 DEF PrefetchInv, SmoothInv, Smooth
<1>6. QED
  BY <1>2, <1>3, <1>4, <1>5 DEF Next, Finished

LEMMA PrefetchInvHolds == Spec => []PrefetchInv
<1>1. Init => PrefetchInv
  BY PrefetchInit, PrefetchAssumption
<1>2. PrefetchInv /\ [Next]_vars => PrefetchInv'
  BY PrefetchStays, PrefetchAssumption
<1>3. QED
  BY <1>1, <1>2, PTL DEF Spec

\* As long as nothing was raised while queueing and no layer asked for other
\* ids, every gather delivers the rows of the ids it was called with, and the
\* comparison of CHECK mode counts no difference.
THEOREM GatherExactWhenSmoothHolds == Spec => []GatherExactWhenSmooth
<1>1. PrefetchInv => GatherExactWhenSmooth
  BY DEF PrefetchInv, SmoothInv, Reads, Exact, GatherExactWhenSmooth
<1>2. QED
  BY <1>1, PrefetchInvHolds, PTL

LEMMA SideWrites ==
  ASSUME NEW op, NEW e, op.do \in {"wait", "ids", "serve", "rows"}, op.do # "wait" => op.e = e
  PROVE  Writes(op) \subseteq {<<x, e>> : x \in {"ids", "rows", "device"}}
  BY DEF Writes

LEMMA SideTouches ==
  ASSUME NEW op, NEW e, op.do \in {"wait", "ids", "serve", "rows"}, op.do # "wait" => op.e = e
  PROVE  Touches(op) \subseteq {<<x, e>> : x \in {"ids", "rows", "device"}} \cup {<<"hash", op.n>>}
  BY DEF Writes, Touches

LEMMA MainWrites ==
  ASSUME NEW op, op.do \in Kinds, op.do # "hash"
  PROVE  Writes(op) \subseteq {<<x, op.e>> : x \in {"ids", "rows", "device"}}
  BY DEF Writes, Kinds

LEMMA MainTouches ==
  ASSUME NEW op, op.do \in Kinds
  PROVE  Touches(op) \subseteq {<<x, op.e>> : x \in {"ids", "rows", "device"}}
                             \cup {<<"hash", op.n>>, <<"hash", op.e>>}
  BY DEF Writes, Touches, Kinds

\* The forks and joins leave no two streams at one buffer, one of them writing:
\* neither at a layer's staging buffers nor at the hash ids of a pass.
THEOREM NoStreamRaceHolds == Spec => []NoStreamRace
<1>1. ASSUME PrefetchInv, Smooth, NEW s \in Streams, NEW u \in Streams \ {s}, Ready(s), Ready(u)
      PROVE  Writes(Head(queue[s])) \cap Touches(Head(queue[u])) = {}
  <2>1. QueueTyped /\ Order /\ Joined /\ Reads
    BY <1>1 DEF PrefetchInv, SmoothInv, Links
  <2>2. ASSUME NEW w \in Streams, Ready(w)
        PROVE  \E k \in Nat : /\ k = done[w] + 1 /\ k \in Pending(w)
                              /\ Head(queue[w]) = OpAt(w, k)
    <3>1. queue[w] \in Seq(Ops) /\ queue[w] # <<>> /\ done[w] \in Nat
      BY <2>1, <2>2 DEF QueueTyped, Ready
    <3>2. Len(queue[w]) > 0 /\ Len(queue[w]) \in Nat /\ Head(queue[w]) = queue[w][1]
      BY <3>1, EmptySeq
    <3>3. done[w] + 1 \in Pending(w)
      BY <3>1, <3>2 DEF Pending, Issued
    <3>4. (done[w] + 1) - done[w] = 1
      BY <3>1
    <3>5. OpAt(w, done[w] + 1) = Head(queue[w])
      BY <3>2, <3>4 DEF OpAt
    <3>6. QED
      BY <3>1, <3>3, <3>5
  <2>3. PICK k \in Nat : k = done[s] + 1 /\ k \in Pending(s) /\ Head(queue[s]) = OpAt(s, k)
    BY <1>1, <2>2
  <2>4. PICK l \in Nat : l = done[u] + 1 /\ l \in Pending(u) /\ Head(queue[u]) = OpAt(u, l)
    BY <1>1, <2>2
  <2> DEFINE a == OpAt(s, k)
             b == OpAt(u, l)
  <2>5. ASSUME NEW e \in Embeds, NEW i \in Pending(e)
        PROVE  /\ OpAt(e, i).do \in {"wait", "ids", "serve", "rows"}
               /\ OpAt(e, i).do # "wait" => OpAt(e, i).e = e
    BY <2>1 DEF Order, SideTyped
  <2>6. CASE s \in Embeds /\ u \in Embeds
    <3>1. a.do \in {"wait", "ids", "serve", "rows"} /\ (a.do # "wait" => a.e = s)
      BY <2>3, <2>5, <2>6
    <3>2. b.do \in {"wait", "ids", "serve", "rows"} /\ (b.do # "wait" => b.e = u)
      BY <2>4, <2>5, <2>6
    <3>3. Writes(a) \subseteq {<<x, s>> : x \in {"ids", "rows", "device"}}
      BY <3>1, SideWrites
    <3>4. Touches(b) \subseteq {<<x, u>> : x \in {"ids", "rows", "device"}} \cup {<<"hash", b.n>>}
      BY <3>2, SideTouches
    <3>5. QED
      BY <1>1, <2>3, <2>4, <3>3, <3>4
  <2>7. CASE s = Main /\ u \in Embeds
    <3>1. b.do \in {"wait", "ids", "serve", "rows"} /\ (b.do # "wait" => b.e = u)
      BY <2>4, <2>5, <2>7
    <3>2. a.do \in Kinds
      BY <2>1, <2>3, <2>7 DEF Order, MainTyped, Kinds
    <3>3. CASE b.do = "wait"
      BY <2>4, <3>3 DEF Writes, Touches
    <3>4. CASE b.do # "wait"
      <4>1. /\ a.do \in {"ids", "serve", "rows", "gather", "compare"} => a.e # u
            /\ a.do = "hash" => a.pass <= b.pass
        BY <2>1, <2>3, <2>4, <2>7, <3>4, Apart, PrefetchAssumption
      <4>2. CASE a.do = "hash"
        <5>1. Hashed(b.pass)
          BY <2>1, <2>4, <2>7, <3>4 DEF Reads, SideReads
        <5>2. a.pass > b.pass
          BY <2>3, <2>7, <4>2, <5>1 DEF Hashed, HashAt
        <5>3. a.pass \in Nat /\ b.pass \in Nat
          BY <2>1, <2>3, <2>4, NumberedOps DEF Ops
        <5>4. QED
          BY <4>1, <4>2, <5>2, <5>3
      <4>3. CASE a.do # "hash"
        <5>1. Writes(a) \subseteq {<<x, a.e>> : x \in {"ids", "rows", "device"}}
          BY <3>2, <4>3, MainWrites
        <5>2. a.e = u => Writes(a) = {}
          BY <3>2, <4>1, <4>3 DEF Writes, Kinds
        <5>3. Touches(b) \subseteq {<<x, u>> : x \in {"ids", "rows", "device"}} \cup {<<"hash", b.n>>}
          BY <3>1, SideTouches
        <5>4. QED
          BY <2>3, <2>4, <5>1, <5>2, <5>3
      <4>4. QED
        BY <4>2, <4>3
    <3>5. QED
      BY <3>3, <3>4
  <2>8. CASE s \in Embeds /\ u = Main
    <3>1. a.do \in {"wait", "ids", "serve", "rows"} /\ (a.do # "wait" => a.e = s)
      BY <2>3, <2>5, <2>8
    <3>2. b.do \in Kinds
      BY <2>1, <2>4, <2>8 DEF Order, MainTyped, Kinds
    <3>3. CASE a.do = "wait"
      BY <2>3, <3>3 DEF Writes
    <3>4. CASE a.do # "wait"
      <4>1. b.do \in {"ids", "serve", "rows", "gather", "compare"} => b.e # s
        BY <2>1, <2>3, <2>4, <2>8, <3>4, Apart, PrefetchAssumption
      <4>2. Writes(a) \subseteq {<<x, s>> : x \in {"ids", "rows", "device"}}
        BY <3>1, SideWrites
      <4>3. Touches(b) \subseteq {<<x, b.e>> : x \in {"ids", "rows", "device"}}
                               \cup {<<"hash", b.n>>, <<"hash", b.e>>}
        BY <3>2, MainTouches
      <4>4. b.do \in {"hash", "wait"} => Touches(b) \subseteq {<<"hash", b.e>>}
        BY DEF Writes, Touches
      <4>5. QED
        BY <2>3, <2>4, <3>2, <4>1, <4>2, <4>3, <4>4 DEF Kinds
    <3>5. QED
      BY <3>3, <3>4
  <2>9. QED
    BY <1>1, <2>6, <2>7, <2>8 DEF Streams
<1>2. PrefetchInv => NoStreamRace
  BY <1>1 DEF NoStreamRace
<1>3. QED
  BY <1>2, PrefetchInvHolds, PTL
===============================================================================
