---------------------------- MODULE RowStoreProofs ----------------------------
(***************************************************************************)
(* The row store answers with the exact row, for every table, every number *)
(* of ranks, every geometry of the cache and every number of threads.      *)
(*                                                                         *)
(* CacheCoherent is not inductive: that a hit copies the row it found, and *)
(* that a slot being filled is nobody else's, hold because the stripe's    *)
(* lock is held from the first half of a critical section to the second,   *)
(* and that a miss fills the right bytes because the packed shard and the  *)
(* pinned scales are indexed from the row_lo they were loaded with.        *)
(***************************************************************************)
EXTENDS RowStore, FiniteSetTheorems, TLAPS

Touching == {"probe", "copy", "read", "scale", "count", "fill", "key"}

\* What loading leaves behind.
LoadInv ==
  /\ stage \in {"new", "opened", "ranged"} =>
       /\ \A t \in Threads : pc[t] = "idle"
       /\ \A s \in SetIndices, w \in WayIndices : keys[s][w] = 0
       /\ packed = NoRow
  /\ stage \in {"new", "opened"} => scales = None
  /\ stage \in {"ranged", "ready"} =>
       /\ row_lo = RowStart(Rows, Rank, Tp)
       /\ row_hi = RowStart(Rows, Rank + 1, Tp)
  /\ scales = None \/ scales = Pinned(row_lo, row_hi)
  /\ packed # NoRow => packed.layer = Layer /\ packed.lo = row_lo

\* What a thread inside serve() can count on.
Serving(t) ==
  /\ pc[t] # "idle" => id[t] \in 0 .. Rows - 1
  /\ pc[t] \in Touching => Owned(id[t])
  /\ pc[t] \in {"probe", "copy", "fill", "key"} => Cached
  /\ pc[t] \in {"copy", "key"} => locks[StripeOf(id[t])] = t
  /\ pc[t] = "copy" => keys[SetOf(id[t])][way[t]] = id[t] + 1
  /\ pc[t] = "scale" => ~OneRead /\ buf[t] = Weight(id[t])
  /\ pc[t] \in {"count", "fill", "key"} => buf[t] = Row(id[t])
  /\ pc[t] = "key" => cache[SetOf(id[t])][way[t]] = Row(id[t])
  /\ pc[t] = "deliver" => buf[t] = IF Owned(id[t]) THEN Row(id[t]) ELSE Zero

ServeInv == \A t \in Threads : Serving(t)

StoreInv == TypeOK /\ LoadInv /\ ServeInv /\ CacheCoherent

-----------------------------------------------------------------------------

\* An id has a set and a stripe.
LEMMA Indexed ==
  ASSUME NEW i \in Nat, Sets > 0
  PROVE  SetOf(i) \in SetIndices /\ StripeOf(i) \in 0 .. Stripes - 1
<1>1. Sets \in Nat \ {0} /\ Stripes \in Nat \ {0}
  BY StoreAssumption
<1>2. SetOf(i) \in SetIndices
  BY <1>1 DEF SetOf, SetIndices
<1>3. SetOf(i) \in Nat
  BY <1>2 DEF SetIndices
<1>4. QED
  BY <1>1, <1>2, <1>3 DEF StripeOf

\* A rank's first row, and the next rank's, lie in the table.
LEMMA RowStartInTable ==
  ASSUME NEW r \in 0 .. Tp
  PROVE  RowStart(Rows, r, Tp) \in 0 .. Rows
<1>1. Rows \in Nat /\ Tp \in Nat \ {0}
  BY StoreAssumption
<1> DEFINE a == Rows * r
<1>2. a \in Nat /\ a <= Rows * Tp
  <2>1. PICK d \in Nat : Tp = r + d
    BY <1>1
  <2>2. Rows * Tp = Rows * r + Rows * d
    BY <1>1, <2>1
  <2>3. Rows * d \in Nat /\ Rows * r \in Nat
    BY <1>1
  <2>4. QED
    BY <2>2, <2>3
<1> HIDE DEF a
<1> DEFINE q == a \div Tp
<1>3. q \in Nat /\ Tp * q <= a
  BY <1>1, <1>2
<1> HIDE DEF q
<1>4. q <= Rows
  <2>1. SUFFICES ASSUME q > Rows PROVE FALSE
    BY <1>1, <1>3
  <2>2. PICK d \in Nat : q = Rows + 1 + d
    BY <1>1, <1>3, <2>1
  <2>3. Tp * q = Tp * Rows + Tp + Tp * d
    BY <1>1, <2>2
  <2>4. Tp * d \in Nat /\ Tp * Rows \in Nat /\ Tp * Rows = Rows * Tp
    BY <1>1
  <2>5. QED
    BY <1>1, <1>2, <1>3, <2>3, <2>4
<1>5. QED
  BY <1>1, <1>3, <1>4 DEF q, a, RowStart

\* The id a thread looks for in the cache has a set and a stripe.
LEMMA ServedId ==
  ASSUME StoreInv, NEW t \in Threads, pc[t] \in {"probe", "copy", "fill", "key"}
  PROVE  /\ id[t] \in Nat /\ id[t] \in 0 .. Rows - 1
         /\ SetOf(id[t]) \in SetIndices
         /\ StripeOf(id[t]) \in 0 .. Stripes - 1
<1>1. Sets > 0 /\ id[t] \in 0 .. Rows - 1
  BY DEF StoreInv, ServeInv, Serving, Cached
<1>2. id[t] \in Nat
  BY <1>1
<1>3. QED
  BY <1>1, <1>2, Indexed

\* Two threads inside the same set's critical section are one thread.
LEMMA SetExcludes ==
  ASSUME StoreInv, NEW t \in Threads, NEW u \in Threads,
         pc[t] \in {"copy", "key"}, pc[u] \in {"copy", "key"},
         SetOf(id[t]) = SetOf(id[u])
  PROVE  t = u
BY DEF StoreInv, ServeInv, Serving, StripeOf

\* The first read of a miss brings the row, or its weight if that is all it is
\* for.
LEMMA SourceExact ==
  ASSUME StoreInv, NEW i \in Nat, Owned(i)
  PROVE  Source(i) = IF OneRead THEN Row(i) ELSE Weight(i)
<1>1. row_lo \in Int /\ row_hi \in Int
  BY DEF StoreInv, TypeOK
<1>2. CASE packed # NoRow
  BY <1>1, <1>2 DEF StoreInv, LoadInv, Source, Row, OneRead
<1>3. CASE packed = NoRow /\ scales = None
  BY <1>3 DEF Source, Weight, OneRead
<1>4. CASE packed = NoRow /\ scales = Pinned(row_lo, row_hi) /\ scales # None
  <2>1. i - row_lo \in 0 .. row_hi - row_lo - 1
    BY <1>1 DEF Owned
  <2>2. scales[i - row_lo] = row_lo + (i - row_lo)
    BY <1>4, <2>1 DEF Pinned
  <2>3. scales[i - row_lo] = i
    BY <1>1, <2>2
  <2>4. QED
    BY <1>4, <2>3 DEF Source, Row, OneRead
<1>5. QED
  BY <1>2, <1>3, <1>4 DEF StoreInv, LoadInv

\* An owned id is an id of the table, so its row may be held.
LEMMA RowIsContent ==
  ASSUME NEW i \in 0 .. Rows - 1
  PROVE  Row(i) \in Contents
BY DEF Contents

-----------------------------------------------------------------------------
(* Every step preserves the invariant. *)

LEMMA InitStore == Init => StoreInv
<1> SUFFICES ASSUME Init PROVE StoreInv
  OBVIOUS
<1> USE StoreAssumption
<1>1. TypeOK
  <2>1. Zero \in Contents
    BY DEF Contents
  <2>2. 0 \in WayIndices /\ 0 \in 0 .. Rows /\ 0 \in 0 .. MaxLookups
    BY DEF WayIndices
  <2>3. pc \in [Threads -> Places] /\ id \in [Threads -> 0 .. Rows]
        /\ way \in [Threads -> WayIndices] /\ buf \in [Threads -> Contents]
    BY <2>1, <2>2 DEF Init, Places
  <2>4. /\ keys \in [SetIndices -> [WayIndices -> 0 .. Rows]]
        /\ cache \in [SetIndices -> [WayIndices -> Contents]]
        /\ victim \in [SetIndices -> WayIndices]
    BY <2>1, <2>2 DEF Init
  <2>5. /\ locks \in [0 .. Stripes - 1 -> Threads \cup {NoThread}]
        /\ out \in [Threads -> Contents \cup {NoRow}]
    BY DEF Init
  <2>6. QED
    BY <2>2, <2>3, <2>4, <2>5 DEF Init, TypeOK
<1>2. LoadInv
  BY DEF Init, LoadInv
<1>3. ServeInv
  BY DEF Init, ServeInv, Serving, Touching
<1>4. CacheCoherent
  BY DEF Init, CacheCoherent
<1>5. QED
  BY <1>1, <1>2, <1>3, <1>4 DEF StoreInv

\* Loading: nobody is served and every slot is empty.
LEMMA OpenStore == \A mode : StoreInv /\ Open(mode) => StoreInv'
<1> SUFFICES ASSUME StoreInv, NEW mode, Open(mode) PROVE StoreInv'
  OBVIOUS
<1> USE DEF StoreInv, Open, table, slots, stats
<1>1. TypeOK'
  BY StoreAssumption DEF TypeOK
<1>2. LoadInv'
  BY DEF LoadInv
<1>3. ServeInv'
  BY DEF LoadInv, ServeInv, Serving, Touching
<1>4. CacheCoherent'
  BY DEF LoadInv, CacheCoherent
<1>5. QED
  BY <1>1, <1>2, <1>3, <1>4

LEMMA SetRangeStore == \A pins \in BOOLEAN : StoreInv /\ SetRange(pins) => StoreInv'
<1> SUFFICES ASSUME StoreInv, NEW pins \in BOOLEAN, SetRange(pins) PROVE StoreInv'
  OBVIOUS
<1> USE DEF StoreInv, SetRange, table, slots, stats
<1>1. TypeOK'
  <2>1. RowStart(Rows, Rank, Tp) \in 0 .. Rows
        /\ RowStart(Rows, Rank + 1, Tp) \in 0 .. Rows
    BY StoreAssumption, RowStartInTable
  <2>2. QED
    BY <2>1 DEF TypeOK
<1>2. LoadInv'
  BY DEF LoadInv
<1>3. ServeInv'
  BY DEF LoadInv, ServeInv, Serving, Touching
<1>4. CacheCoherent'
  BY DEF LoadInv, CacheCoherent
<1>5. QED
  BY <1>1, <1>2, <1>3, <1>4

LEMMA AttachStore ==
  StoreInv /\ ((\E h \in Shards : Attach(h)) \/ NoShard) => StoreInv'
<1> SUFFICES ASSUME StoreInv, (\E h \in Shards : Attach(h)) \/ NoShard
             PROVE  StoreInv'
  OBVIOUS
<1> USE DEF StoreInv, Attach, ShardFits, NoShard, table, slots, stats
<1>1. TypeOK'
  BY DEF TypeOK
<1>2. LoadInv'
  BY DEF LoadInv
<1>3. ServeInv'
  BY DEF LoadInv, ServeInv, Serving, Touching
<1>4. CacheCoherent'
  BY DEF LoadInv, CacheCoherent
<1>5. QED
  BY <1>1, <1>2, <1>3, <1>4

\* A failure changes nothing that is served.
LEMMA AbortStore == StoreInv /\ Abort => StoreInv'
<1> SUFFICES ASSUME StoreInv, Abort PROVE StoreInv'
  OBVIOUS
<1> USE DEF StoreInv, Abort, table, slots, stats
<1>1. TypeOK'
  BY DEF TypeOK
<1>2. LoadInv'
  BY DEF LoadInv
<1>3. ServeInv'
  BY DEF ServeInv, Serving, Touching, Owned, Cached, OneRead, Weight
<1>4. CacheCoherent'
  BY DEF CacheCoherent, Filling, Owned
<1>5. QED
  BY <1>1, <1>2, <1>3, <1>4

LEMMA StutterStore == StoreInv /\ UNCHANGED vars => StoreInv'
<1> SUFFICES ASSUME StoreInv, UNCHANGED vars PROVE StoreInv'
  OBVIOUS
<1> USE DEF StoreInv, vars, table, slots, stats
<1>1. TypeOK'
  BY DEF TypeOK
<1>2. LoadInv'
  BY DEF LoadInv
<1>3. ServeInv'
  BY DEF ServeInv, Serving, Touching, Owned, Cached, OneRead, Weight
<1>4. CacheCoherent'
  BY DEF CacheCoherent, Filling, Owned
<1>5. QED
  BY <1>1, <1>2, <1>3, <1>4

\* Serving: one thread's step leaves the others what they count on.
LEMMA BeginStore ==
  \A t \in Threads, i \in 0 .. Rows - 1 : StoreInv /\ Begin(t, i) => StoreInv'
<1> SUFFICES ASSUME StoreInv, NEW t \in Threads, NEW i \in 0 .. Rows - 1, Begin(t, i)
             PROVE  StoreInv'
  OBVIOUS
<1> USE DEF StoreInv, Begin, Goto, table, slots, stats
<1>1. TypeOK'
  <2>1. Zero \in Contents
    BY DEF Contents
  <2>2. id' \in [Threads -> 0 .. Rows] /\ buf' \in [Threads -> Contents \cup Weights]
    <3>1. i \in 0 .. Rows
      BY StoreAssumption
    <3>2. id' \in [Threads -> 0 .. Rows]
      BY <3>1 DEF TypeOK
    <3>3. buf' \in [Threads -> Contents \cup Weights]
      BY <2>1 DEF TypeOK
    <3>4. QED
      BY <3>2, <3>3
  <2>3. pc' \in [Threads -> Places]
    BY DEF TypeOK, Places
  <2>4. lookups' \in 0 .. MaxLookups
    BY StoreAssumption DEF TypeOK
  <2>5. QED
    BY <2>2, <2>3, <2>4 DEF TypeOK
<1>2. LoadInv'
  BY DEF LoadInv
<1>3. ServeInv'
  <2> SUFFICES ASSUME NEW u \in Threads PROVE Serving(u)'
    BY DEF ServeInv
  <2>1. CASE u = t
    BY <2>1 DEF TypeOK, Serving, Touching, Owned, Cached, OneRead, Weight
  <2>2. CASE u # t
    BY <2>2 DEF TypeOK, ServeInv, Serving, Touching, Owned, Cached, OneRead, Weight
  <2>3. QED
    BY <2>1, <2>2
<1>4. CacheCoherent'
  BY DEF TypeOK, CacheCoherent, Filling, Owned
<1>5. QED
  BY <1>1, <1>2, <1>3, <1>4

LEMMA HitStore == \A t \in Threads : StoreInv /\ Hit(t) => StoreInv'
<1> SUFFICES ASSUME StoreInv, NEW t \in Threads, Hit(t) PROVE StoreInv'
  OBVIOUS
<1> USE DEF StoreInv, Hit, Goto, Lock, Matches, table, slots, stats
<1>0. id[t] \in Nat /\ StripeOf(id[t]) \in 0 .. Stripes - 1
  BY ServedId
<1>1. TypeOK'
  <2>1. way' \in [Threads -> WayIndices]
    BY DEF TypeOK
  <2>2. pc' \in [Threads -> Places]
    BY DEF TypeOK, Places
  <2>3. locks' \in [0 .. Stripes - 1 -> Threads \cup {NoThread}]
    BY <1>0 DEF TypeOK
  <2>4. QED
    BY <2>1, <2>2, <2>3 DEF TypeOK
<1>2. LoadInv'
  BY DEF LoadInv
<1>3. ServeInv'
  <2> SUFFICES ASSUME NEW u \in Threads PROVE Serving(u)'
    BY DEF ServeInv
  <2>1. CASE u = t
    BY <1>0, <2>1 DEF TypeOK, ServeInv, Serving, Touching, Owned, Cached, OneRead, Weight
  <2>2. CASE u # t
    BY <1>0, <2>2, StoreAssumption
    DEF TypeOK, ServeInv, Serving, Touching, Owned, Cached, OneRead, Weight
  <2>3. QED
    BY <2>1, <2>2
<1>4. CacheCoherent'
  BY DEF TypeOK, CacheCoherent, Filling, Owned
<1>5. QED
  BY <1>1, <1>2, <1>3, <1>4

LEMMA CopyHitStore == \A t \in Threads : StoreInv /\ CopyHit(t) => StoreInv'
<1> SUFFICES ASSUME StoreInv, NEW t \in Threads, CopyHit(t) PROVE StoreInv'
  OBVIOUS
<1> USE DEF CopyHit, Goto, Unlock, table, slots, stats
<1>0. /\ id[t] \in Nat /\ SetOf(id[t]) \in SetIndices
      /\ StripeOf(id[t]) \in 0 .. Stripes - 1
      /\ way[t] \in WayIndices
  BY ServedId DEF StoreInv, TypeOK
<1>1. cache[SetOf(id[t])][way[t]] = Row(id[t])
  <2>1. \A u \in Threads : ~Filling(u, SetOf(id[t]), way[t])
    BY SetExcludes DEF Filling
  <2>2. keys[SetOf(id[t])][way[t]] = id[t] + 1
    BY DEF StoreInv, ServeInv, Serving
  <2>3. id[t] + 1 # 0 /\ (id[t] + 1) - 1 = id[t]
    BY <1>0
  <2>4. QED
    BY <1>0, <2>1, <2>2, <2>3 DEF StoreInv, CacheCoherent
<1>2. TypeOK'
  <2>1. Row(id[t]) \in Contents
    BY RowIsContent DEF StoreInv, ServeInv, Serving
  <2>2. QED
    BY <1>0, <1>1, <2>1 DEF StoreInv, TypeOK, Places
<1>3. LoadInv'
  BY DEF StoreInv, LoadInv
<1>4. ServeInv'
  <2> SUFFICES ASSUME NEW u \in Threads PROVE Serving(u)'
    BY DEF ServeInv
  <2>1. CASE u = t
    BY <1>1, <2>1 DEF StoreInv, TypeOK, ServeInv, Serving, Touching, Owned, Cached, OneRead, Weight
  <2>2. CASE u # t
    <3>1. pc[u] \in {"copy", "key"} => StripeOf(id[u]) # StripeOf(id[t])
      BY <2>2 DEF StoreInv, ServeInv, Serving
    <3>2. QED
      BY <1>0, <2>2, <3>1
      DEF StoreInv, TypeOK, ServeInv, Serving, Touching, Owned, Cached, OneRead, Weight
  <2>3. QED
    BY <2>1, <2>2
<1>5. CacheCoherent'
  BY DEF StoreInv, TypeOK, CacheCoherent, Filling, Owned
<1>6. QED
  BY <1>2, <1>3, <1>4, <1>5 DEF StoreInv

LEMMA MissStore == \A t \in Threads : StoreInv /\ Miss(t) => StoreInv'
<1> SUFFICES ASSUME StoreInv, NEW t \in Threads, Miss(t) PROVE StoreInv'
  OBVIOUS
<1> USE DEF StoreInv, Miss, Goto, table, slots, stats
<1>1. TypeOK'
  BY DEF TypeOK, Places
<1>2. LoadInv'
  BY DEF LoadInv
<1>3. ServeInv'
  BY DEF TypeOK, ServeInv, Serving, Touching, Owned, Cached, OneRead, Weight
<1>4. CacheCoherent'
  BY DEF TypeOK, CacheCoherent, Filling, Owned
<1>5. QED
  BY <1>1, <1>2, <1>3, <1>4

\* A read, or the count of a miss, concerns the thread alone.
LEMMA ReadStore ==
  \A t \in Threads :
    StoreInv /\ (Read(t) \/ ReadScale(t) \/ CountMiss(t)) => StoreInv'
<1> SUFFICES ASSUME StoreInv, NEW t \in Threads,
                    Read(t) \/ ReadScale(t) \/ CountMiss(t)
             PROVE  StoreInv'
  OBVIOUS
<1>0. /\ id[t] \in 0 .. Rows - 1 /\ Owned(id[t])
      /\ buf \in [Threads -> Contents \cup Weights] /\ pc \in [Threads -> Places]
      /\ misses \in Nat /\ reads \in Nat
  BY DEF StoreInv, TypeOK, ServeInv, Serving, Touching, Read, ReadScale, CountMiss
<1>1. /\ Row(id[t]) \in Contents /\ Weight(id[t]) \in Weights
      /\ Source(id[t]) = IF OneRead THEN Row(id[t]) ELSE Weight(id[t])
  BY <1>0, SourceExact, RowIsContent DEF Weights
<1>2. /\ UNCHANGED <<table, slots, locks, id, way, out, lookups, wanted, hits>>
      /\ buf' \in [Threads -> Contents \cup Weights]
      /\ \A u \in Threads \ {t} : pc'[u] = pc[u] /\ buf'[u] = buf[u]
      /\ misses' \in Nat /\ reads' \in Nat
  BY <1>0, <1>1
  DEF Read, ReadScale, CountMiss, CountRead, Goto, Row, Weight, StoreInv, ServeInv,
      Serving, table
<1>3. /\ pc' \in [Threads -> Places]
      /\ \/ pc'[t] = "scale" /\ ~OneRead /\ buf'[t] = Weight(id[t])
         \/ pc'[t] \in {"count", "deliver"} /\ buf'[t] = Row(id[t])
         \/ pc'[t] = "fill" /\ Cached /\ buf'[t] = Row(id[t])
  <2>1. CASE Read(t)
    BY <1>0, <1>1, <2>1 DEF Read, Goto, Places
  <2>2. CASE ReadScale(t)
    <3>1. buf[t] = Weight(id[t])
      BY <2>2 DEF ReadScale, StoreInv, ServeInv, Serving
    <3>2. buf'[t] = Row(id[t])
      BY <1>0, <2>2, <3>1 DEF ReadScale, Row, Weight
    <3>3. QED
      BY <1>0, <2>2, <3>2 DEF ReadScale, Goto, Places
  <2>3. CASE CountMiss(t)
    <3>1. buf[t] = Row(id[t])
      BY <2>3 DEF CountMiss, StoreInv, ServeInv, Serving
    <3>2. QED
      BY <1>0, <2>3, <3>1 DEF CountMiss, Goto, Places
  <2>4. QED
    BY <2>1, <2>2, <2>3
<1>4. TypeOK'
  BY <1>2, <1>3 DEF StoreInv, TypeOK, table, slots
<1>5. LoadInv'
  <2>1. stage = "ready"
    BY DEF Read, ReadScale, CountMiss
  <2>2. QED
    BY <1>2, <2>1 DEF StoreInv, LoadInv, table, slots
<1>6. ServeInv'
  <2> SUFFICES ASSUME NEW u \in Threads PROVE Serving(u)'
    BY DEF ServeInv
  <2>1. CASE u = t
    BY <1>0, <1>2, <1>3, <2>1
    DEF Serving, Touching, Owned, Cached, Row, Weight, OneRead, table
  <2>2. CASE u # t
    <3>1. Serving(u) /\ pc'[u] = pc[u] /\ buf'[u] = buf[u]
      BY <1>2, <2>2 DEF StoreInv, ServeInv
    <3>2. QED
      BY <1>2, <3>1
      DEF Serving, Touching, Owned, Cached, Row, Weight, OneRead, table, slots
  <2>3. QED
    BY <2>1, <2>2
<1>7. CacheCoherent'
  <2>1. \A u \in Threads, v \in SetIndices, w \in WayIndices :
          Filling(u, v, w)' <=> Filling(u, v, w)
    BY <1>2, <1>3 DEF Filling, Read, ReadScale, CountMiss
  <2>2. QED
    BY <1>2, <2>1 DEF StoreInv, CacheCoherent, Owned, table, slots
<1>8. QED
  BY <1>4, <1>5, <1>6, <1>7 DEF StoreInv

\* A fill changes one slot of a set whose stripe nobody else holds.
LEMMA FillStore == \A t \in Threads : StoreInv /\ Fill(t) => StoreInv'
<1> SUFFICES ASSUME StoreInv, NEW t \in Threads, Fill(t) PROVE StoreInv'
  OBVIOUS
<1> DEFINE s == SetOf(id[t])
           w == victim[s] % Ways
<1> USE DEF Fill, Goto, Lock, table, slots, stats
<1>0. /\ id[t] \in Nat /\ s \in SetIndices /\ victim[s] \in WayIndices
      /\ StripeOf(id[t]) \in 0 .. Stripes - 1
  BY ServedId DEF StoreInv, TypeOK
<1>1. w \in WayIndices /\ (victim[s] + 1) % Ways \in WayIndices
  <2>1. victim[s] \in Nat /\ Ways \in Nat \ {0}
    BY <1>0, StoreAssumption DEF WayIndices
  <2>2. QED
    BY <2>1 DEF WayIndices
<1>2. buf[t] = Row(id[t]) /\ buf[t] \in Contents
  BY RowIsContent DEF StoreInv, ServeInv, Serving
<1>3. /\ victim' = [victim EXCEPT ![s] = (victim[s] + 1) % Ways]
      /\ cache' = [cache EXCEPT ![s][w] = buf[t]]
      /\ way' = [way EXCEPT ![t] = w]
  OBVIOUS
<1> HIDE DEF w
<1>4. TypeOK'
  <2>1. cache' \in [SetIndices -> [WayIndices -> Contents]]
    BY <1>0, <1>1, <1>2, <1>3 DEF StoreInv, TypeOK
  <2>2. victim' \in [SetIndices -> WayIndices] /\ way' \in [Threads -> WayIndices]
    BY <1>0, <1>1, <1>3 DEF StoreInv, TypeOK
  <2>3. pc' \in [Threads -> Places]
    BY DEF StoreInv, TypeOK, Places
  <2>4. locks' \in [0 .. Stripes - 1 -> Threads \cup {NoThread}]
    BY <1>0 DEF StoreInv, TypeOK
  <2>5. QED
    BY <2>1, <2>2, <2>3, <2>4 DEF StoreInv, TypeOK
<1>5. LoadInv'
  BY DEF StoreInv, LoadInv
<1>6. ServeInv'
  <2> SUFFICES ASSUME NEW u \in Threads PROVE Serving(u)'
    BY DEF ServeInv
  <2>1. CASE u = t
    <3>1. cache'[s][w] = Row(id[t])
      BY <1>0, <1>1, <1>2, <1>3 DEF StoreInv, TypeOK
    <3>2. QED
      BY <1>0, <1>2, <1>3, <2>1, <3>1
      DEF StoreInv, TypeOK, ServeInv, Serving, Touching, Owned, Cached, OneRead, Weight
  <2>2. CASE u # t
    <3>1. pc[u] \in {"copy", "key"} =>
            StripeOf(id[u]) # StripeOf(id[t]) /\ SetOf(id[u]) # s
      BY <2>2, StoreAssumption DEF StoreInv, ServeInv, Serving, StripeOf
    <3>2. pc[u] = "key" => cache'[SetOf(id[u])] = cache[SetOf(id[u])]
      <4>1. pc[u] = "key" => SetOf(id[u]) \in SetIndices
        BY ServedId
      <4>2. QED
        BY <1>3, <3>1, <4>1 DEF StoreInv, TypeOK
    <3>3. pc'[u] = pc[u] /\ way'[u] = way[u]
      BY <1>3, <2>2 DEF StoreInv, TypeOK
    <3>4. pc[u] \in {"copy", "key"} => locks'[StripeOf(id[u])] = u
      BY <1>0, <2>2, <3>1 DEF StoreInv, TypeOK, ServeInv, Serving
    <3>5. Serving(u)
      BY DEF StoreInv, ServeInv
    <3>6. QED
      BY <3>2, <3>3, <3>4, <3>5 DEF Serving, Touching, Owned, Cached, OneRead, Weight
  <2>3. QED
    BY <2>1, <2>2
<1>7. CacheCoherent'
  <2> SUFFICES ASSUME NEW a \in SetIndices, NEW b \in WayIndices, keys[a][b] # 0,
                      \A u \in Threads : ~Filling(u, a, b)'
               PROVE  /\ cache'[a][b] = Row(keys[a][b] - 1)
                      /\ SetOf(keys[a][b] - 1) = a
                      /\ Owned(keys[a][b] - 1)
    BY DEF CacheCoherent, Owned
  <2>1. a # s \/ b # w
    BY <1>0, <1>1, <1>3 DEF StoreInv, TypeOK, Filling
  <2>2. cache'[a][b] = cache[a][b]
    BY <1>0, <1>1, <1>3, <2>1 DEF StoreInv, TypeOK
  <2>3. \A u \in Threads : ~Filling(u, a, b)
    BY <1>3 DEF StoreInv, TypeOK, Filling
  <2>4. QED
    BY <2>2, <2>3 DEF StoreInv, CacheCoherent
<1>8. QED
  BY <1>4, <1>5, <1>6, <1>7 DEF StoreInv

\* The key is written over the row it stands for.
LEMMA SetKeyStore == \A t \in Threads : StoreInv /\ SetKey(t) => StoreInv'
<1> SUFFICES ASSUME StoreInv, NEW t \in Threads, SetKey(t) PROVE StoreInv'
  OBVIOUS
<1> DEFINE s == SetOf(id[t])
           w == way[t]
<1> USE DEF SetKey, Goto, Unlock, table, slots, stats
<1>0. /\ id[t] \in 0 .. Rows - 1 /\ s \in SetIndices /\ w \in WayIndices
      /\ StripeOf(id[t]) \in 0 .. Stripes - 1
      /\ id[t] + 1 \in 0 .. Rows /\ (id[t] + 1) - 1 = id[t]
  <2>1. id[t] \in 0 .. Rows - 1 /\ s \in SetIndices
        /\ StripeOf(id[t]) \in 0 .. Stripes - 1
    BY ServedId
  <2>2. w \in WayIndices
    BY DEF StoreInv, TypeOK
  <2>3. id[t] + 1 \in 0 .. Rows /\ (id[t] + 1) - 1 = id[t]
    BY <2>1, StoreAssumption
  <2>4. QED
    BY <2>1, <2>2, <2>3
<1>1. cache[s][w] = Row(id[t]) /\ buf[t] = Row(id[t]) /\ Owned(id[t])
  BY DEF StoreInv, ServeInv, Serving, Touching
<1>2. TypeOK'
  <2>1. keys' \in [SetIndices -> [WayIndices -> 0 .. Rows]]
    BY <1>0 DEF StoreInv, TypeOK
  <2>2. pc' \in [Threads -> Places]
    BY DEF StoreInv, TypeOK, Places
  <2>3. locks' \in [0 .. Stripes - 1 -> Threads \cup {NoThread}]
    BY <1>0 DEF StoreInv, TypeOK
  <2>4. QED
    BY <2>1, <2>2, <2>3 DEF StoreInv, TypeOK
<1>3. LoadInv'
  BY DEF StoreInv, LoadInv
<1>4. ServeInv'
  <2> SUFFICES ASSUME NEW u \in Threads PROVE Serving(u)'
    BY DEF ServeInv
  <2>1. CASE u = t
    BY <1>1, <2>1 DEF StoreInv, TypeOK, ServeInv, Serving, Touching, Owned, Cached, OneRead, Weight
  <2>2. CASE u # t
    <3>1. pc[u] \in {"copy", "key"} =>
            StripeOf(id[u]) # StripeOf(id[t]) /\ SetOf(id[u]) # s
      BY <2>2 DEF StoreInv, ServeInv, Serving, StripeOf
    <3>2. pc[u] = "copy" => keys'[SetOf(id[u])] = keys[SetOf(id[u])]
      <4>1. pc[u] = "copy" => SetOf(id[u]) \in SetIndices
        BY ServedId
      <4>2. QED
        BY <3>1, <4>1 DEF StoreInv, TypeOK
    <3>3. pc'[u] = pc[u]
      BY <2>2 DEF StoreInv, TypeOK
    <3>4. pc[u] \in {"copy", "key"} => locks'[StripeOf(id[u])] = u
      BY <1>0, <3>1 DEF StoreInv, TypeOK, ServeInv, Serving
    <3>5. Serving(u)
      BY DEF StoreInv, ServeInv
    <3>6. QED
      BY <3>2, <3>3, <3>4, <3>5 DEF Serving, Touching, Owned, Cached, OneRead, Weight
  <2>3. QED
    BY <2>1, <2>2
<1>5. CacheCoherent'
  <2> SUFFICES ASSUME NEW a \in SetIndices, NEW b \in WayIndices, keys'[a][b] # 0,
                      \A u \in Threads : ~Filling(u, a, b)'
               PROVE  /\ cache[a][b] = Row(keys'[a][b] - 1)
                      /\ SetOf(keys'[a][b] - 1) = a
                      /\ Owned(keys'[a][b] - 1)
    BY DEF CacheCoherent, Owned
  <2>1. CASE a = s /\ b = w
    <3>1. keys'[a][b] = id[t] + 1
      BY <1>0, <2>1 DEF StoreInv, TypeOK
    <3>2. QED
      BY <1>0, <1>1, <2>1, <3>1
  <2>2. CASE ~(a = s /\ b = w)
    <3>1. keys'[a][b] = keys[a][b]
      BY <1>0, <2>2 DEF StoreInv, TypeOK
    <3>2. \A u \in Threads : ~Filling(u, a, b)
      BY <2>2 DEF StoreInv, TypeOK, Filling
    <3>3. QED
      BY <3>1, <3>2 DEF StoreInv, CacheCoherent
  <2>3. QED
    BY <2>1, <2>2
<1>6. QED
  BY <1>2, <1>3, <1>4, <1>5 DEF StoreInv

LEMMA DeliverStore == \A t \in Threads : StoreInv /\ Deliver(t) => StoreInv'
<1> SUFFICES ASSUME StoreInv, NEW t \in Threads, Deliver(t) PROVE StoreInv'
  OBVIOUS
<1> USE DEF StoreInv, Deliver, Goto, table, slots, stats
<1>1. TypeOK'
  <2>1. buf[t] \in Contents
    BY RowIsContent DEF ServeInv, Serving, Contents
  <2>2. QED
    BY <2>1 DEF TypeOK, Places
<1>2. LoadInv'
  BY DEF LoadInv
<1>3. ServeInv'
  BY DEF TypeOK, ServeInv, Serving, Touching, Owned, Cached, OneRead, Weight
<1>4. CacheCoherent'
  BY DEF TypeOK, CacheCoherent, Filling, Owned
<1>5. QED
  BY <1>1, <1>2, <1>3, <1>4

LEMMA NextStore == StoreInv /\ [Next]_vars => StoreInv'
<1> SUFFICES ASSUME StoreInv, [Next]_vars PROVE StoreInv'
  OBVIOUS
<1>1. CASE Load
  BY <1>1, OpenStore, SetRangeStore, AttachStore, AbortStore
  DEF Load, OpenFails, RejectShard
<1>2. ASSUME NEW t \in Threads, Fetch(t) PROVE StoreInv'
  BY <1>2, HitStore, CopyHitStore, MissStore, ReadStore, FillStore, SetKeyStore,
     DeliverStore, AbortStore
  DEF Fetch, ReadFails
<1>3. ASSUME NEW t \in Threads, NEW i \in 0 .. Rows - 1, Begin(t, i) PROVE StoreInv'
  BY <1>3, BeginStore
<1>4. CASE BeginBadId
  BY <1>4, AbortStore DEF BeginBadId
<1>5. CASE Finished \/ UNCHANGED vars
  BY <1>5, StutterStore DEF Finished
<1>6. QED
  BY <1>1, <1>2, <1>3, <1>4, <1>5 DEF Next

-----------------------------------------------------------------------------

\* The store's states stay well formed, and the invariant holds throughout.
THEOREM StoreInvariant == Spec => []StoreInv
<1>1. Init => StoreInv
  BY InitStore
<1>2. StoreInv /\ [Next]_vars => StoreInv'
  BY NextStore
<1>3. QED
  BY <1>1, <1>2, PTL DEF Spec

\* fetch_row: whatever the threads interleave, a key outside a slot being
\* filled stands for its row's bytes.
THEOREM CacheCoherentHolds == Spec => []CacheCoherent
<1>1. StoreInv => CacheCoherent
  BY DEF StoreInv
<1>2. QED
  BY <1>1, StoreInvariant, PTL

-----------------------------------------------------------------------------
(* The store implements the exact immutable table. *)

LEMMA InitTable == Init => Table!Init
BY DEF Init, Table!Init

\* A failing step is the table's failure.
LEMMA AbortTable == Abort /\ stage # "aborted" => Table!Fail
BY DEF Abort, Table!Fail, table, slots, stats

LEMMA LoadTable == StoreInv /\ Load => Table!Next \/ UNCHANGED Table!vars
<1> SUFFICES ASSUME StoreInv, Load PROVE Table!Next \/ UNCHANGED Table!vars
  OBVIOUS
<1>1. ASSUME NEW mode, Open(mode) PROVE UNCHANGED Table!vars
  BY <1>1 DEF Open, Table!vars, table, slots, stats
<1>2. ASSUME NEW pins \in BOOLEAN, SetRange(pins) PROVE UNCHANGED Table!vars
  BY <1>2 DEF SetRange, Table!vars, table, slots, stats
<1>3. ASSUME NEW h \in Shards, Attach(h) PROVE Table!StartServing
  BY <1>3 DEF Attach, Table!StartServing, table, slots, stats
<1>4. CASE NoShard
  BY <1>4 DEF NoShard, Table!StartServing, Table!Next, table, slots, stats
<1>5. CASE OpenFails \/ \E h \in Shards : RejectShard(h)
  BY <1>5, AbortTable DEF OpenFails, RejectShard, Table!Next
<1>6. QED
  BY <1>1, <1>2, <1>3, <1>4, <1>5 DEF Load, Table!Next

LEMMA BeginTable ==
  \A t \in Threads, i \in 0 .. Rows - 1 : StoreInv /\ Begin(t, i) => Table!Next
<1> SUFFICES ASSUME StoreInv, NEW t \in Threads, NEW i \in 0 .. Rows - 1, Begin(t, i)
             PROVE  Table!Ask(t, i)
  BY DEF Table!Next
<1>1. i # NoRow
  BY StoreAssumption
<1>2. pc'[t] # "idle" /\ id'[t] = i /\ pc[t] = "idle"
  BY DEF Begin, Goto, StoreInv, TypeOK
<1>3. \A u \in Threads \ {t} : pc'[u] = pc[u] /\ id'[u] = id[u]
  BY DEF Begin, Goto, StoreInv, TypeOK
<1>4. stage = "ready" /\ stage' = stage /\ out' = out
  BY DEF Begin, table
<1>5. QED
  BY <1>2, <1>3, <1>4 DEF Table!Ask

\* Only the delivery of a row is visible.
LEMMA FetchTable ==
  \A t \in Threads : StoreInv /\ Fetch(t) => Table!Next \/ UNCHANGED Table!vars
<1> SUFFICES ASSUME StoreInv, NEW t \in Threads, Fetch(t)
             PROVE  Table!Next \/ UNCHANGED Table!vars
  OBVIOUS
<1>1. CASE Hit(t) \/ CopyHit(t) \/ Miss(t) \/ Read(t) \/ ReadScale(t) \/ CountMiss(t)
           \/ Fill(t) \/ SetKey(t)
  <2>1. pc[t] # "idle" /\ pc'[t] # "idle"
    BY <1>1 DEF Hit, CopyHit, Miss, Read, ReadScale, CountMiss, Fill, SetKey, Goto,
           StoreInv, TypeOK
  <2>2. \A u \in Threads \ {t} : pc'[u] = pc[u]
    BY <1>1 DEF Hit, CopyHit, Miss, Read, ReadScale, CountMiss, Fill, SetKey, Goto,
           StoreInv, TypeOK
  <2>3. id' = id /\ out' = out /\ stage' = stage
    BY <1>1 DEF Hit, CopyHit, Miss, Read, ReadScale, CountMiss, Fill, SetKey, table
  <2>4. QED
    BY <2>1, <2>2, <2>3 DEF Table!vars
<1>2. CASE ReadFails(t)
  BY <1>2, AbortTable DEF ReadFails, Table!Next
<1>3. CASE Deliver(t)
  <2>1. stage = "ready" /\ stage' = stage /\ id' = id
    BY <1>3 DEF Deliver, table
  <2>2. pc[t] = "deliver" /\ pc'[t] = "idle"
    BY <1>3 DEF Deliver, Goto, StoreInv, TypeOK
  <2>3. \A u \in Threads \ {t} : pc'[u] = pc[u]
    BY <1>3 DEF Deliver, Goto, StoreInv, TypeOK
  <2>4. id[t] # NoRow
    BY StoreAssumption DEF StoreInv, TypeOK
  <2>5. buf[t] = Table!Exact(id[t])
    BY <2>1, <2>2
    DEF StoreInv, LoadInv, ServeInv, Serving, Owned, Row, Table!Exact
  <2>6. out' = [out EXCEPT ![t] = buf[t]]
    BY <1>3 DEF Deliver
  <2>7. Table!Answer(t)
    BY <2>1, <2>2, <2>3, <2>4, <2>5, <2>6 DEF Table!Answer
  <2>8. QED
    BY <2>7 DEF Table!Next
<1>4. QED
  BY <1>1, <1>2, <1>3 DEF Fetch

LEMMA NextTable == StoreInv /\ [Next]_vars => [Table!Next]_Table!vars
<1> SUFFICES ASSUME StoreInv, [Next]_vars PROVE Table!Next \/ UNCHANGED Table!vars
  OBVIOUS
<1>1. CASE BeginBadId
  BY <1>1, AbortTable DEF BeginBadId, Table!Next
<1>2. CASE Finished \/ UNCHANGED vars
  BY <1>2 DEF Finished, vars, table, Table!vars
<1>3. QED
  BY <1>1, <1>2, LoadTable, BeginTable, FetchTable DEF Next

\* Each lookup answers the very row of the rank's shard, or zeros for another
\* rank's row, and nothing is answered after a failure.
THEOREM StoreImplementsTable == Spec => ImplementsTable
<1>1. Init => Table!Init
  BY InitTable
<1>2. StoreInv /\ [Next]_vars => [Table!Next]_Table!vars
  BY NextTable
<1>3. QED
  BY <1>1, <1>2, StoreInvariant, PTL DEF Spec, ImplementsTable, Table!Spec

-----------------------------------------------------------------------------
(* What the drive is charged for. *)

\* Where a lookup of an owned row is neither a hit nor a miss yet.
Pending == {"probe", "copy", "read", "scale", "count"}

\* Nothing is read before the store serves, so that every read was charged with
\* the scales and the shard it is charged with now.
ReadsInv ==
  /\ stage \in {"new", "opened", "ranged"} => wanted = 0 /\ hits = 0 /\ misses = 0 /\ reads = 0
  /\ ReadsAccounted

\* Threads are counted, and none is counted that is elsewhere.
LEMMA AtTyped ==
  ASSUME NEW S
  PROVE  At(S) \in Nat /\ ((\A t \in Threads : pc[t] \notin S) => At(S) = 0)
<1> DEFINE A == {t \in Threads : pc[t] \in S}
<1>1. IsFiniteSet(A)
  BY FS_Subset, StoreAssumption
<1>2. (\A t \in Threads : pc[t] \notin S) => A = {}
  OBVIOUS
<1>3. QED
  BY <1>1, <1>2, FS_CardinalityType, FS_EmptySet DEF At

\* A thread that goes from one place to another is counted there and no longer
\* here.
LEMMA AtMoves ==
  ASSUME NEW S, pc \in [Threads -> Places], NEW t \in Threads, NEW p,
         pc' = [pc EXCEPT ![t] = p]
  PROVE  At(S)' = At(S) + (IF p \in S THEN 1 ELSE 0) - (IF pc[t] \in S THEN 1 ELSE 0)
<1> DEFINE A == {u \in Threads : pc[u] \in S}
           B == {u \in Threads : pc'[u] \in S}
<1>1. IsFiniteSet(A) /\ Cardinality(A) \in Nat /\ At(S) = Cardinality(A)
  BY FS_Subset, FS_CardinalityType, StoreAssumption DEF At
<1>2. At(S)' = Cardinality(B)
  BY DEF At
<1>3. B = IF p \in S THEN A \cup {t} ELSE A \ {t}
  OBVIOUS
<1>4. t \in A <=> pc[t] \in S
  OBVIOUS
<1> HIDE DEF A, B
<1>5. /\ Cardinality(A \cup {t}) = IF t \in A THEN Cardinality(A) ELSE Cardinality(A) + 1
      /\ Cardinality(A \ {t}) = IF t \in A THEN Cardinality(A) - 1 ELSE Cardinality(A)
  BY <1>1, FS_AddElement, FS_RemoveElement
<1>6. QED
  BY <1>1, <1>2, <1>3, <1>4, <1>5

\* The counters are numbers, and so are the threads between them.
LEMMA ReadsTyped ==
  ASSUME StoreInv
  PROVE  /\ wanted \in Nat /\ hits \in Nat /\ misses \in Nat /\ reads \in Nat
         /\ At({"count"}) \in Nat /\ At({"scale"}) \in Nat /\ At(Pending) \in Nat
         /\ pc \in [Threads -> Places]
BY AtTyped DEF StoreInv, TypeOK

\* A step that changes no place and counts nothing, of a store that is loading,
\* or that keeps what it loaded.
LEMMA StillReads ==
  ASSUME StoreInv, ReadsInv, UNCHANGED <<pc, stats>>,
         \/ stage \in {"new", "opened", "ranged"}
         \/ UNCHANGED <<stage, ram, scales, packed>>
         \/ Abort
  PROVE  ReadsInv'
<1>1. UNCHANGED <<pc, wanted, hits, misses, reads>>
  BY DEF stats
<1>2. At({"count"})' = At({"count"}) /\ At({"scale"})' = At({"scale"})
      /\ At(Pending)' = At(Pending)
  BY <1>1 DEF At
<1>3. CASE stage \in {"new", "opened", "ranged"}
  <2>1. \A t \in Threads : pc[t] = "idle"
    BY <1>3 DEF StoreInv, LoadInv
  <2>2. At({"count"}) = 0 /\ At({"scale"}) = 0 /\ At(Pending) = 0
    BY <2>1, AtTyped DEF Pending
  <2>3. (wanted = 0 /\ hits = 0 /\ misses = 0 /\ reads = 0)'
    BY <1>1, <1>3 DEF ReadsInv
  <2>4. QED
    BY <1>2, <2>2, <2>3 DEF ReadsInv, ReadsAccounted, Pending
<1>4. CASE Abort \/ UNCHANGED <<stage, ram, scales, packed>>
  <2>1. UNCHANGED <<ram, scales, packed>> /\ (stage' = stage \/ stage' = "aborted")
    BY <1>4 DEF Abort
  <2>2. QED
    BY <1>1, <1>2, <2>1 DEF ReadsInv, ReadsAccounted, Pending
<1>5. QED
  BY <1>3, <1>4

LEMMA LoadOrAbortReads == StoreInv /\ ReadsInv /\ (Load \/ Abort) => ReadsInv'
<1> SUFFICES ASSUME StoreInv, ReadsInv, Load \/ Abort PROVE ReadsInv'
  OBVIOUS
<1>1. CASE Abort
  BY <1>1, StillReads DEF Abort
<1>2. CASE Load /\ ~Abort
  <2>1. stage \in {"new", "opened", "ranged"}
    BY <1>2 DEF Load, Open, OpenFails, SetRange, Attach, RejectShard, NoShard
  <2>2. UNCHANGED <<pc, stats>>
    BY <1>2 DEF Load, Open, OpenFails, SetRange, Attach, RejectShard, NoShard
  <2>3. QED
    BY <2>1, <2>2, StillReads
<1>3. QED
  BY <1>1, <1>2

\* What a row costs when its reads are done, and what one read costs.
Fee == IF FromDrive THEN 1 ELSE 0
Paid == IF OneRead THEN Fee ELSE 2 * Fee

\* That is what the store is charged with.
LEMMA PaidIs ==
  /\ Fee \in {0, 1} /\ Paid \in {0, 1, 2}
  /\ ~OneRead => Fee = IF ram THEN 0 ELSE 1
BY DEF Fee, Paid, OneRead, FromDrive

\* A step of a thread that is served: the store keeps what it loaded, and the
\* counters follow the thread.
LEMMA ServedReads ==
  ASSUME StoreInv, ReadsInv, stage = "ready", UNCHANGED table,
         misses' \in Nat, At({"count"})' \in Nat, At({"scale"})' \in Nat,
         \/ /\ misses' + At({"count"})' = misses + At({"count"})
            /\ reads' = reads + (IF ram THEN 0 ELSE At({"scale"})' - At({"scale"}))
         \/ /\ misses' + At({"count"})' = misses + At({"count"}) + 1
            /\ reads' = reads + Paid + (IF ram THEN 0 ELSE At({"scale"})' - At({"scale"})),
         wanted' = hits' + misses' + At(Pending)'
  PROVE  ReadsInv'
<1>1. UNCHANGED <<stage, ram, packed, scales>>
  BY DEF table
<1> DEFINE charge == CASE packed # NoRow               -> 1
                       [] packed = NoRow /\ ram        -> 0
                       [] packed = NoRow /\ ~ram       -> IF scales # None THEN 1 ELSE 2
           before == misses + At({"count"})
           after == misses' + At({"count"})'
<1>2. charge = Paid /\ charge \in {0, 1, 2}
  BY PaidIs DEF Paid, OneRead, Fee, FromDrive, StoreInv, TypeOK
<1>3. reads = charge * before + (IF ram THEN 0 ELSE At({"scale"}))
  BY DEF ReadsInv, ReadsAccounted
<1>4. before \in Nat /\ after \in Nat /\ At({"scale"}) \in Nat /\ reads \in Nat
  BY ReadsTyped
<1> HIDE DEF charge, before, after
<1>5. reads' = charge * after + (IF ram THEN 0 ELSE At({"scale"})')
  <2>1. charge * before \in Nat /\ charge * (before + 1) = charge * before + charge
    BY <1>2, <1>4
  <2>2. \/ /\ after = before
           /\ reads' = reads + (IF ram THEN 0 ELSE At({"scale"})' - At({"scale"}))
        \/ /\ after = before + 1
           /\ reads' = reads + charge + (IF ram THEN 0 ELSE At({"scale"})' - At({"scale"}))
    BY <1>2 DEF before, after
  <2> DEFINE product == charge * before
  <2>3. product \in Nat /\ reads = product + (IF ram THEN 0 ELSE At({"scale"}))
    BY <1>3, <2>1
  <2> HIDE DEF product
  <2>4. reads' = (IF after = before THEN product ELSE product + charge)
                 + (IF ram THEN 0 ELSE At({"scale"})')
    BY <1>2, <1>4, <2>2, <2>3
  <2>5. QED
    BY <2>1, <2>2, <2>4 DEF product
<1>6. (reads = charge * before + (IF ram THEN 0 ELSE At({"scale"})))'
  BY <1>1, <1>5 DEF charge, before, after
<1>7. QED
  BY <1>1, <1>6 DEF ReadsInv, ReadsAccounted, Pending, charge, before

\* Where the threads are counted after thread t went to place p.
MovedTo(t, p) ==
  /\ At({"count"})' = At({"count"}) + (IF p = "count" THEN 1 ELSE 0)
                                   - (IF pc[t] = "count" THEN 1 ELSE 0)
  /\ At({"scale"})' = At({"scale"}) + (IF p = "scale" THEN 1 ELSE 0)
                                   - (IF pc[t] = "scale" THEN 1 ELSE 0)
  /\ At(Pending)' = At(Pending) + (IF p \in Pending THEN 1 ELSE 0)
                               - (IF pc[t] \in Pending THEN 1 ELSE 0)
  /\ At({"count"})' \in Nat /\ At({"scale"})' \in Nat /\ At(Pending)' \in Nat

\* A step of one thread moves one thread.
LEMMA PlaceMoves ==
  ASSUME StoreInv, NEW t \in Threads, NEW p, pc' = [pc EXCEPT ![t] = p]
  PROVE  MovedTo(t, p)
<1>1. pc \in [Threads -> Places]
  BY ReadsTyped
<1>2. \A S : /\ At(S)' = At(S) + (IF p \in S THEN 1 ELSE 0) - (IF pc[t] \in S THEN 1 ELSE 0)
             /\ At(S) \in Nat
  BY <1>1, AtMoves, AtTyped
<1>3. \A S : At(S)' \in Nat
  <2> SUFFICES ASSUME NEW S PROVE At(S)' \in Nat
    OBVIOUS
  <2>1. IsFiniteSet({u \in Threads : pc'[u] \in S})
    BY FS_Subset, StoreAssumption
  <2>2. QED
    BY <2>1, FS_CardinalityType DEF At
<1>4. QED
  BY <1>2, <1>3 DEF MovedTo

\* The places of a lookup that is counted later.
LEMMA PendingIs ==
  \A p : p \in Pending <=> p \in {"probe", "copy", "read", "scale", "count"}
BY DEF Pending

\* A thread takes up an id: one of this rank's is on its way.
LEMMA BeginReads ==
  \A t \in Threads, i \in 0 .. Rows - 1 :
    StoreInv /\ ReadsInv /\ Begin(t, i) => ReadsInv'
<1> SUFFICES ASSUME StoreInv, ReadsInv, NEW t \in Threads, NEW i \in 0 .. Rows - 1,
                    Begin(t, i)
             PROVE  ReadsInv'
  OBVIOUS
<1>0. wanted \in Nat
  BY ReadsTyped
<1>1. \E p \in {"deliver", "probe", "read"} :
        /\ pc' = [pc EXCEPT ![t] = p]
        /\ wanted' = wanted + (IF p = "deliver" THEN 0 ELSE 1)
  <2>1. CASE ~Owned(i)
    BY <1>0, <2>1 DEF Begin, Goto
  <2>2. CASE Owned(i)
    BY <2>2 DEF Begin, Goto
  <2>3. QED
    BY <2>1, <2>2
<1>2. PICK p \in {"deliver", "probe", "read"} :
        /\ pc' = [pc EXCEPT ![t] = p]
        /\ wanted' = wanted + (IF p = "deliver" THEN 0 ELSE 1)
  BY <1>1
<1>3. /\ UNCHANGED table /\ UNCHANGED <<hits, misses, reads>>
      /\ stage = "ready" /\ pc[t] = "idle"
  BY DEF Begin
<1>4. /\ At({"count"})' = At({"count"}) /\ At({"scale"})' = At({"scale"})
      /\ At(Pending)' = At(Pending) + (IF p = "deliver" THEN 0 ELSE 1)
  <2>1. MovedTo(t, p)
    BY <1>2, <1>3, PlaceMoves
  <2>2. QED
    BY <1>2, <1>3, <2>1, ReadsTyped, PendingIs DEF MovedTo
<1>5. wanted' = hits' + misses' + At(Pending)'
  <2>1. wanted = hits + misses + At(Pending)
    BY DEF ReadsInv, ReadsAccounted, Pending
  <2>2. QED
    BY <1>2, <1>3, <1>4, <2>1, ReadsTyped
<1>6. /\ misses' \in Nat /\ At({"count"})' \in Nat /\ At({"scale"})' \in Nat
      /\ misses' + At({"count"})' = misses + At({"count"})
      /\ reads' = reads + (IF ram THEN 0 ELSE At({"scale"})' - At({"scale"}))
  BY <1>3, <1>4, ReadsTyped
<1>7. QED
  BY <1>2, <1>3, <1>5, <1>6, ServedReads

\* A read is counted when it is done, and a miss when its reads are.
LEMMA CountReads ==
  \A t \in Threads :
    StoreInv /\ ReadsInv /\ (Read(t) \/ ReadScale(t) \/ CountMiss(t)) => ReadsInv'
<1> SUFFICES ASSUME StoreInv, ReadsInv, NEW t \in Threads,
                    Read(t) \/ ReadScale(t) \/ CountMiss(t)
             PROVE  ReadsInv'
  OBVIOUS
<1>1. /\ UNCHANGED table /\ UNCHANGED <<wanted, hits>> /\ stage = "ready"
      /\ wanted = hits + misses + At(Pending)
  BY DEF Read, ReadScale, CountMiss, ReadsInv, ReadsAccounted, Pending
<1>2. CASE Read(t)
  <2> DEFINE p == IF OneRead THEN "count" ELSE "scale"
  <2>1. /\ pc' = [pc EXCEPT ![t] = p] /\ pc[t] = "read"
        /\ misses' = misses /\ reads' = reads + Fee
    BY <1>2 DEF Read, Goto, CountRead, Fee
  <2>2. /\ At({"count"})' = At({"count"}) + (IF OneRead THEN 1 ELSE 0)
        /\ At({"scale"})' = At({"scale"}) + (IF OneRead THEN 0 ELSE 1)
        /\ At(Pending)' = At(Pending)
    <3>1. MovedTo(t, p)
      BY <2>1, PlaceMoves
    <3>2. QED
      BY <2>1, <3>1, ReadsTyped, PendingIs DEF MovedTo
  <2>3. CASE OneRead
    <3>1. /\ misses' + At({"count"})' = misses + At({"count"}) + 1
          /\ reads' = reads + Paid + (IF ram THEN 0 ELSE At({"scale"})' - At({"scale"}))
      BY <2>1, <2>2, <2>3, PaidIs, ReadsTyped DEF Paid
    <3>2. QED
      BY <1>1, <2>1, <2>2, <2>3, <3>1, ServedReads, ReadsTyped
  <2>4. CASE ~OneRead
    <3>1. /\ misses' + At({"count"})' = misses + At({"count"})
          /\ reads' = reads + (IF ram THEN 0 ELSE At({"scale"})' - At({"scale"}))
      BY <2>1, <2>2, <2>4, PaidIs, ReadsTyped
    <3>2. QED
      BY <1>1, <2>1, <2>2, <2>4, <3>1, ServedReads, ReadsTyped
  <2>5. QED
    BY <2>3, <2>4
<1>3. CASE ReadScale(t)
  <2> DEFINE p == "count"
  <2>1. /\ pc' = [pc EXCEPT ![t] = p] /\ pc[t] = "scale"
        /\ misses' = misses /\ reads' = reads + Fee
    BY <1>3 DEF ReadScale, CountRead, Goto, Fee
  <2>2. ~OneRead
    BY <2>1 DEF StoreInv, ServeInv, Serving
  <2>3. /\ At({"count"})' = At({"count"}) + 1 /\ At({"scale"})' = At({"scale"}) - 1
        /\ At(Pending)' = At(Pending) /\ At({"scale"})' \in Nat
    <3>1. MovedTo(t, p)
      BY <2>1, PlaceMoves
    <3>2. QED
      BY <2>1, <3>1, ReadsTyped, PendingIs DEF MovedTo
  <2>4. /\ misses' + At({"count"})' = misses + At({"count"}) + 1
        /\ reads' = reads + Paid + (IF ram THEN 0 ELSE At({"scale"})' - At({"scale"}))
    BY <2>1, <2>2, <2>3, PaidIs, ReadsTyped DEF Paid
  <2>5. QED
    BY <1>1, <2>1, <2>3, <2>4, ServedReads, ReadsTyped
<1>4. CASE CountMiss(t)
  <2> DEFINE p == IF Cached THEN "fill" ELSE "deliver"
  <2>1. /\ pc' = [pc EXCEPT ![t] = p] /\ pc[t] = "count"
        /\ misses' = misses + 1 /\ reads' = reads
    BY <1>4 DEF CountMiss, Goto
  <2>2. /\ At({"count"})' = At({"count"}) - 1 /\ At({"scale"})' = At({"scale"})
        /\ At(Pending)' = At(Pending) - 1
        /\ At({"count"})' \in Nat
    <3>1. MovedTo(t, p)
      BY <2>1, PlaceMoves
    <3>2. QED
      BY <2>1, <3>1, ReadsTyped, PendingIs DEF MovedTo
  <2>3. /\ misses' + At({"count"})' = misses + At({"count"})
        /\ reads' = reads + (IF ram THEN 0 ELSE At({"scale"})' - At({"scale"}))
        /\ hits' + misses' + At(Pending)' = hits + misses + At(Pending)
    BY <1>1, <2>1, <2>2, ReadsTyped
  <2>4. QED
    BY <1>1, <2>1, <2>2, <2>3, ServedReads, ReadsTyped
<1>5. QED
  BY <1>2, <1>3, <1>4

\* A hit is counted in the step that ends it; the other steps of a lookup count
\* nothing and stay on their side of the count.
LEMMA FetchReads ==
  \A t \in Threads :
    StoreInv /\ ReadsInv
    /\ (Hit(t) \/ CopyHit(t) \/ Miss(t) \/ Fill(t) \/ SetKey(t) \/ Deliver(t)) => ReadsInv'
<1> SUFFICES ASSUME StoreInv, ReadsInv, NEW t \in Threads,
                    Hit(t) \/ CopyHit(t) \/ Miss(t) \/ Fill(t) \/ SetKey(t) \/ Deliver(t)
             PROVE  ReadsInv'
  OBVIOUS
<1>1. /\ UNCHANGED table /\ UNCHANGED <<wanted, misses, reads>> /\ stage = "ready"
      /\ wanted = hits + misses + At(Pending)
  BY DEF Hit, CopyHit, Miss, Fill, SetKey, Deliver, stats, ReadsInv, ReadsAccounted,
         Pending
<1>2. PICK p \in {"idle", "copy", "read", "key", "deliver"} :
        /\ pc' = [pc EXCEPT ![t] = p]
        /\ pc[t] \notin {"count", "scale"}
        /\ hits' = hits + (IF pc[t] = "copy" THEN 1 ELSE 0)
        /\ pc[t] \in Pending <=> (p \in Pending \/ pc[t] = "copy")
        /\ pc[t] = "copy" => p \notin Pending
  BY ReadsTyped DEF Hit, CopyHit, Miss, Fill, SetKey, Deliver, Goto, stats, Pending
<1>3. /\ At({"count"})' = At({"count"}) /\ At({"scale"})' = At({"scale"})
      /\ At(Pending)' = At(Pending) - (IF pc[t] = "copy" THEN 1 ELSE 0)
  <2>1. MovedTo(t, p)
    BY <1>2, PlaceMoves
  <2>2. QED
    BY <1>2, <2>1, ReadsTyped, PendingIs DEF MovedTo
<1>4. /\ wanted' = hits' + misses' + At(Pending)'
      /\ misses' + At({"count"})' = misses + At({"count"})
      /\ reads' = reads + (IF ram THEN 0 ELSE At({"scale"})' - At({"scale"}))
  BY <1>1, <1>2, <1>3, ReadsTyped
<1>5. QED
  BY <1>1, <1>2, <1>3, <1>4, ServedReads, ReadsTyped

LEMMA NextReads == StoreInv /\ ReadsInv /\ [Next]_vars => ReadsInv'
<1> SUFFICES ASSUME StoreInv, ReadsInv, [Next]_vars PROVE ReadsInv'
  OBVIOUS
<1>1. CASE Load \/ BeginBadId
  BY <1>1, LoadOrAbortReads DEF BeginBadId
<1>2. ASSUME NEW t \in Threads, Fetch(t) PROVE ReadsInv'
  BY <1>2, CountReads, FetchReads, LoadOrAbortReads DEF Fetch, ReadFails
<1>3. ASSUME NEW t \in Threads, NEW i \in 0 .. Rows - 1, Begin(t, i) PROVE ReadsInv'
  BY <1>3, BeginReads
<1>4. CASE Finished \/ UNCHANGED vars
  <2>1. UNCHANGED <<pc, stats>> /\ UNCHANGED <<stage, ram, scales, packed>>
    BY <1>4 DEF Finished, vars, table
  <2>2. QED
    BY <2>1, StillReads
<1>5. QED
  BY <1>1, <1>2, <1>3, <1>4 DEF Next

\* To the row, what a stats call may see: of a counted miss the drive paid one
\* read, two when the scales could not be pinned, none from a resident file; any
\* other read is of a row in flight; and every lookup of an owned row is a hit,
\* a miss or in flight.
THEOREM ReadsAccountedHolds == Spec => []ReadsAccounted
<1>1. Init => StoreInv /\ ReadsInv
  <2>1. ASSUME Init PROVE ReadsInv
    <3>1. \A t \in Threads : pc[t] = "idle"
      BY <2>1 DEF Init
    <3>2. At({"count"}) = 0 /\ At({"scale"}) = 0 /\ At(Pending) = 0
      BY <3>1, AtTyped DEF Pending
    <3>3. QED
      BY <2>1, <3>2 DEF Init, ReadsInv, ReadsAccounted, Pending
  <2>2. QED
    BY <2>1, InitStore
<1>2. StoreInv /\ ReadsInv /\ [Next]_vars => (StoreInv /\ ReadsInv)'
  BY NextStore, NextReads
<1>3. ReadsInv => ReadsAccounted
  BY DEF ReadsInv
<1>4. QED
  BY <1>1, <1>2, <1>3, PTL DEF Spec
===============================================================================
