-------------------------- MODULE AdapterRulesProofs --------------------------
(***************************************************************************)
(* The rules that work by themselves, for every input and not only those   *)
(* of the small instance: the row store's layouts, the receipts of rank    *)
(* 0's prepare(), the chat fields, the shards of padded weights and scales,*)
(* the loop stop, the indexer's chunks and block verification.             *)
(***************************************************************************)
EXTENDS AdapterRules, FiniteSetTheorems, SequenceTheorems, WellFoundedInduction,
        TLAPS

-----------------------------------------------------------------------------
(* Layouts of the row store (module RowLayouts).                           *)

LayoutTyped ==
  /\ tableRows \in Nat /\ ranks \in Nat \ {0} /\ hosts \in Nat \ {0}
  /\ cacheBudget \in Nat /\ cacheWays \in 1 .. 16
  /\ readOffset \in Nat /\ readLength \in {256, 8, 264}

\* A layout is one a deployment can have, and is kept.
LEMMA LayoutKept == Spec => []LayoutTyped
<1>1. Init => LayoutTyped
  <2>1. Init => LayoutInit \/ AnyLayout
    BY DEF Init
  <2>2. LayoutInit => LayoutTyped
    BY LayoutAssumption DEF LayoutInit, LayoutTyped, kWeightBytes, kScaleBytes, kRowBytes
  <2>3. AnyLayout => LayoutTyped
    BY DEF AnyLayout, LayoutTyped, kWeightBytes, kScaleBytes, kRowBytes
  <2>4. QED
    BY <2>1, <2>2, <2>3
<1>2. LayoutTyped /\ [Next]_<<layout, input, prepareVars>> => LayoutTyped'
  BY DEF LayoutTyped, Next, layout
<1>3. QED
  BY <1>1, <1>2, PTL DEF Spec

\* The bounds that define integer division by a positive number.
LEMMA DivBounds ==
  ASSUME NEW a \in Nat, NEW b \in Nat \ {0}
  PROVE  /\ a \div b \in Nat
         /\ b * (a \div b) <= a
         /\ a < b * (a \div b) + b
  OBVIOUS

\* A product grows with its factor.
LEMMA MulMonotone ==
  ASSUME NEW a \in Int, NEW b \in Int, a <= b, NEW k \in Nat
  PROVE  k * a <= k * b
<1>1. PICK d \in Nat : b = a + d
  OBVIOUS
<1>2. k * b = k * a + k * d
  BY <1>1
<1>3. k * d \in Nat /\ k * a \in Int
  BY <1>1
<1>4. QED
  BY <1>2, <1>3

\* Division compares with a bound as multiplication does.
LEMMA DivCompare ==
  ASSUME NEW a \in Nat, NEW b \in Nat \ {0}, NEW c \in Nat
  PROVE  /\ a \div b <= c <=> a < b * (c + 1)
         /\ a \div b > c <=> a >= b * (c + 1)
<1> DEFINE q == a \div b
<1>1. q \in Nat /\ b * q <= a /\ a < b * q + b
  BY DivBounds
<1> HIDE DEF q
<1>2. b * (q + 1) = b * q + b /\ b * q \in Nat /\ b * (c + 1) \in Nat
  BY <1>1
<1>3. ASSUME q <= c PROVE a < b * (c + 1)
  <2>1. b * (q + 1) <= b * (c + 1)
    BY <1>1, <1>3, MulMonotone
  <2>2. QED
    BY <1>1, <1>2, <2>1
<1>4. ASSUME q > c PROVE a >= b * (c + 1)
  <2>1. b * (c + 1) <= b * q
    BY <1>1, <1>4, MulMonotone
  <2>2. QED
    BY <1>1, <1>2, <2>1
<1>5. QED
  BY <1>1, <1>2, <1>3, <1>4 DEF q

\* Row i of n is owned by rank ((i + 1) * tp - 1) \div n, and by no other.
LEMMA OwnerExists ==
  ASSUME NEW rows \in Nat, NEW size \in Nat \ {0}, NEW i \in 0 .. rows - 1
  PROVE  \E r \in 0 .. size - 1 : Owns(i, rows, r, size)
<1> DEFINE m == (i + 1) * size - 1
           r == m \div rows
<1>1. rows \in Nat \ {0} /\ i + 1 \in Nat /\ i + 1 <= rows
  OBVIOUS
<1>2. m \in Nat
  <2>1. size * 1 <= size * (i + 1)
    BY <1>1, MulMonotone
  <2>2. QED
    BY <2>1
<1>3. m < rows * size
  <2>1. size * (i + 1) <= size * rows
    BY <1>1, MulMonotone
  <2>2. QED
    BY <1>2, <2>1
<1> HIDE DEF m
<1>4. r \in Nat /\ rows * r <= m /\ m < rows * r + rows
  BY <1>1, <1>2, DivBounds
<1> HIDE DEF r
<1>5. r < size
  <2>1. SUFFICES ASSUME size <= r PROVE FALSE
    BY <1>4
  <2>2. rows * size <= rows * r
    BY <1>4, <2>1, MulMonotone
  <2>3. QED
    BY <1>2, <1>3, <1>4, <2>2
<1>6. rows * r \in Nat /\ rows * (r + 1) \in Nat /\ rows * (r + 1) = rows * r + rows
  BY <1>4
<1>7. size * (i + 1) = m + 1
  BY <1>1 DEF m
<1>8. RowStart(rows, r, size) <= i
  BY <1>1, <1>2, <1>4, <1>6, <1>7, DivCompare DEF RowStart
<1>9. i < RowStart(rows, r + 1, size)
  BY <1>1, <1>2, <1>4, <1>6, <1>7, DivCompare DEF RowStart
<1>10. QED
  BY <1>4, <1>5, <1>8, <1>9 DEF Owns

\* A shard ends at or before the start of every later one.
LEMMA StartMonotone ==
  ASSUME NEW rows \in Nat, NEW size \in Nat \ {0}, NEW q \in Nat, NEW r \in Nat, q <= r
  PROVE  /\ RowStart(rows, q, size) <= RowStart(rows, r, size)
         /\ RowStart(rows, q, size) \in Nat
         /\ RowStart(rows, r, size) \in Nat
<1>1. rows * q <= rows * r /\ rows * q \in Nat /\ rows * r \in Nat
  BY MulMonotone
<1> DEFINE b == (rows * r) \div size
<1>2. b \in Nat /\ b <= b
  BY <1>1, DivBounds
<1>3. rows * r < size * (b + 1)
  BY <1>1, <1>2, DivCompare
<1>4. size * (b + 1) \in Nat
  BY <1>2
<1> HIDE DEF b
<1>5. (rows * q) \div size <= b
  BY <1>1, <1>2, <1>3, <1>4, DivCompare
<1>6. QED
  BY <1>1, <1>5, DivBounds DEF RowStart, b

\* Each row of the table is owned by exactly one rank.
THEOREM ShardsPartitionHolds == Spec => []ShardsPartition
<1>1. ASSUME NEW rows \in Nat, NEW size \in Nat \ {0}, NEW i \in 0 .. rows - 1,
             NEW r \in 0 .. size - 1, NEW q \in 0 .. size - 1,
             Owns(i, rows, r, size), Owns(i, rows, q, size), r < q
      PROVE  FALSE
  <2>1. r + 1 \in Nat /\ q \in Nat /\ r + 1 <= q
    BY <1>1
  <2>2. /\ RowStart(rows, r + 1, size) <= RowStart(rows, q, size)
        /\ RowStart(rows, r + 1, size) \in Nat
        /\ RowStart(rows, q, size) \in Nat
    BY <2>1, StartMonotone
  <2>3. i < RowStart(rows, r + 1, size) /\ RowStart(rows, q, size) <= i
    BY <1>1 DEF Owns
  <2>4. QED
    BY <2>2, <2>3
<1>2. tableRows \in Nat /\ ranks \in Nat \ {0} => ShardsPartition
  BY <1>1, OwnerExists DEF ShardsPartition
<1>3. LayoutTyped => ShardsPartition
  BY <1>2 DEF LayoutTyped
<1>4. QED
  BY <1>3, LayoutKept, PTL

\* The cache never takes more than its budget.
THEOREM CacheFitsHolds == Spec => []CacheFits
<1>1. cacheBudget \in Nat /\ cacheWays \in 1 .. 16 => CacheFits
  <2> SUFFICES ASSUME cacheBudget \in Nat, cacheWays \in 1 .. 16 PROVE CacheFits
    OBVIOUS
  <2> DEFINE d == 272 * cacheWays + 1
             s == cacheBudget \div d
  <2>1. d \in Nat \ {0}
    OBVIOUS
  <2>2. s \in Nat /\ d * s <= cacheBudget
    BY <2>1, DivBounds
  <2>3. s * cacheWays * 272 + s = d * s
    BY <2>2
  <2>4. CacheSets(cacheBudget, cacheWays) = s
    BY DEF CacheSets, kRowBytes, KeyBytes
  <2>5. CacheBytes(cacheBudget, cacheWays) = s * cacheWays * 272 + s
    BY <2>4 DEF CacheBytes, kRowBytes, KeyBytes
  <2>6. QED
    BY <2>2, <2>3, <2>5 DEF CacheFits
<1>2. QED
  BY <1>1, LayoutKept, PTL DEF LayoutTyped

\* The stores of a host share its budget, all of it and no more.
THEOREM HostBudgetUsedHolds == Spec => []HostBudgetUsed
<1> DEFINE Typed == cacheBudget \in Nat /\ ranks \in Nat \ {0} /\ hosts \in Nat \ {0}
<1>1. Typed => HostBudgetUsed
  <2> SUFFICES ASSUME Typed, ranks % hosts = 0
               PROVE  LET stores == 2 * (ranks \div hosts)
                          each == StoreBudget(cacheBudget, ranks, hosts)
                      IN  stores * each <= cacheBudget /\ cacheBudget < stores * (each + 1)
    BY DEF HostBudgetUsed
  <2> DEFINE h == ranks \div hosts
             e == cacheBudget \div (2 * h)
  <2>1. h \in Nat /\ ranks = hosts * h
    OBVIOUS
  <2>2. h # 0
    BY <2>1
  <2> HIDE DEF h
  <2>3. 2 * h \in Nat \ {0}
    BY <2>1, <2>2
  <2>4. e \in Nat /\ (2 * h) * e <= cacheBudget /\ cacheBudget < (2 * h) * e + 2 * h
    BY <2>3, DivBounds
  <2>5. StoreBudget(cacheBudget, ranks, hosts) = e
    BY <2>1, <2>2 DEF StoreBudget, RanksPerHost, AtLeast, h
  <2> HIDE DEF e
  <2>6. (2 * h) * (e + 1) = (2 * h) * e + 2 * h
    BY <2>1, <2>4
  <2>7. QED
    BY <2>4, <2>5, <2>6 DEF h
<1>2. QED
  BY <1>1, LayoutKept, PTL DEF LayoutTyped

\* Any read of a row or of a part of it is covered by two pages at most.
THEOREM ReadCoveredHolds == Spec => []ReadCovered
<1>1. LayoutTyped => ReadCovered
  BY DEF LayoutTyped, ReadCovered, PageBase, PagedBytes, PageBuffer, kPage
<1>2. QED
  BY <1>1, LayoutKept, PTL

-----------------------------------------------------------------------------
(* Receipts of rank 0's prepare() (module PrepareCheckpoint).              *)

Stats == 0 .. lastStat

\* Every stat that was noted is one the files had.
StatsTyped ==
  /\ lastStat \in Nat
  /\ pinned \in Revisions
  /\ disk \in [CheckpointFiles -> [bytes : Revisions \cup {Missing}, stat : Stats]]
  /\ receipt \in [revision : Revisions \cup {Missing}, stats : [CheckpointFiles -> Stats]]
  /\ progress \in [CheckpointFiles -> {"stat", "hash", "recheck", "done"}]
  /\ before \in [CheckpointFiles -> Stats]

\* What a verify under way knows: a file it hashed or had a receipt for has the
\* bytes of the pinned revision as long as its stat is the one taken first.
VerifyKnows ==
  phase = "verify" => \A f \in CheckpointFiles :
    /\ disk[f].stat # 0
    /\ progress[f] # "stat" => before[f] # 0
    /\ progress[f] \in {"recheck", "done"} /\ disk[f].stat = before[f]
         => disk[f].bytes = pinned

PrepareInv == StatsTyped /\ VerifyKnows /\ PrepareHonest

\* It holds at first.
LEMMA PrepareInitInv == PrepareInit => PrepareInv
  BY CheckpointAssumption
     DEF PrepareInit, PrepareInv, StatsTyped, VerifyKnows, PrepareHonest, Stats, Unread

\* A write gives the file a stat that nobody noted.
LEMMA WriteStep ==
  ASSUME PrepareInv, NEW f \in CheckpointFiles, NEW bytes \in Revisions \cup {Missing},
         Write(f, bytes), UNCHANGED <<pinned, receipt, phase, progress, before>>
  PROVE  PrepareInv'
<1>1. /\ lastStat \in Nat /\ lastStat' = lastStat + 1
      /\ disk' = [disk EXCEPT ![f] = [bytes |-> bytes, stat |-> lastStat + 1]]
  BY DEF Write, PrepareInv, StatsTyped
<1>2. /\ disk'[f].stat = lastStat + 1
      /\ \A g \in CheckpointFiles : g # f => disk'[g] = disk[g]
  BY <1>1 DEF PrepareInv, StatsTyped
<1>3. \A g \in CheckpointFiles : /\ before[g] \in Nat /\ before[g] <= lastStat
                                 /\ receipt.stats[g] \in Nat /\ receipt.stats[g] <= lastStat
  BY DEF PrepareInv, StatsTyped, Stats
<1>4. StatsTyped'
  <2>1. Stats \subseteq Stats' /\ lastStat + 1 \in Stats'
    BY <1>1 DEF Stats
  <2>2. disk' \in [CheckpointFiles -> [bytes : Revisions \cup {Missing}, stat : Stats']]
    BY <1>1, <2>1 DEF PrepareInv, StatsTyped
  <2>3. receipt' \in [revision : Revisions \cup {Missing}, stats : [CheckpointFiles -> Stats']]
    BY <2>1 DEF PrepareInv, StatsTyped
  <2>4. before' \in [CheckpointFiles -> Stats']
    BY <2>1 DEF PrepareInv, StatsTyped
  <2>5. QED
    BY <1>1, <2>2, <2>3, <2>4 DEF PrepareInv, StatsTyped
<1>5. VerifyKnows'
  BY <1>1, <1>2, <1>3 DEF PrepareInv, VerifyKnows
<1>6. PrepareHonest'
  BY <1>1, <1>2, <1>3 DEF PrepareInv, PrepareHonest
<1>7. QED
  BY <1>4, <1>5, <1>6 DEF PrepareInv

\* Taking a stat, hashing and looking again only add what they saw.
LEMMA VerifyStep ==
  ASSUME PrepareInv, CheckpointAssumption, NEW f \in CheckpointFiles,
         Stat(f) \/ Hash(f) \/ Recheck(f)
  PROVE  PrepareInv'
<1>1. UNCHANGED <<pinned, disk, lastStat, receipt>> /\ phase = "verify"
  BY DEF Stat, Hash, Recheck
<1>2. CASE Raise
  BY <1>1, <1>2 DEF Raise, PrepareInv, StatsTyped, Stats, VerifyKnows, PrepareHonest
<1>3. CASE /\ before' = [before EXCEPT ![f] = disk[f].stat]
           /\ progress' = [progress EXCEPT ![f] = IF Fits(f) THEN "done" ELSE "hash"]
           /\ UNCHANGED phase
  <2>1. StatsTyped'
    BY <1>1, <1>3 DEF PrepareInv, StatsTyped, Stats
  <2>2. Fits(f) => disk[f].bytes = pinned
    BY CheckpointAssumption DEF Fits, PrepareInv, StatsTyped, PrepareHonest
  <2>3. VerifyKnows'
    BY <1>1, <1>3, <2>2 DEF PrepareInv, StatsTyped, VerifyKnows
  <2>4. QED
    BY <1>1, <1>3, <2>1, <2>3 DEF PrepareInv, PrepareHonest
<1>4. CASE /\ progress[f] = "hash" /\ disk[f].bytes = pinned
           /\ progress' = [progress EXCEPT ![f] = "recheck"] /\ UNCHANGED <<phase, before>>
  BY <1>1, <1>4 DEF PrepareInv, StatsTyped, Stats, VerifyKnows, PrepareHonest
<1>5. CASE /\ progress[f] = "recheck"
           /\ progress' = [progress EXCEPT ![f] = "done"] /\ UNCHANGED <<phase, before>>
  BY <1>1, <1>5 DEF PrepareInv, StatsTyped, Stats, VerifyKnows, PrepareHonest
<1>6. QED
  BY <1>2, <1>3, <1>4, <1>5 DEF Stat, Hash, Recheck

\* A receipt is honest, and of the pinned revision after a verified boot.
THEOREM PrepareHonestHolds == Spec => []PrepareHonest
<1>1. PrepareInv /\ [PrepareNext]_prepareVars => PrepareInv'
  <2> SUFFICES ASSUME PrepareInv, [PrepareNext]_prepareVars PROVE PrepareInv'
    OBVIOUS
  <2>1. ASSUME NEW f \in CheckpointFiles, Rewrite(f) \/ Download(f) PROVE PrepareInv'
    <3>1. \E bytes \in Revisions \cup {Missing} : Write(f, bytes)
      BY <2>1 DEF Rewrite, Download, PrepareInv, StatsTyped
    <3>2. UNCHANGED <<pinned, receipt, phase, progress, before>>
      BY <2>1 DEF Rewrite, Download
    <3>3. QED
      BY <3>1, <3>2, WriteStep
  <2>2. ASSUME NEW f \in CheckpointFiles, Stat(f) \/ Hash(f) \/ Recheck(f) PROVE PrepareInv'
    BY <2>2, VerifyStep, CheckpointAssumption
  <2>3. ASSUME NEW skip \in BOOLEAN, Boot(skip) PROVE PrepareInv'
    BY <2>3 DEF Boot, PrepareInv, StatsTyped, Stats, VerifyKnows, PrepareHonest
  <2>4. ASSUME NEW skip \in BOOLEAN, Downloaded(skip) PROVE PrepareInv'
    <3>1. /\ UNCHANGED <<pinned, disk, lastStat, receipt>> /\ phase' \in {"unverified", "verify"}
          /\ \A f \in CheckpointFiles : disk[f].stat # 0
          /\ progress' = [f \in CheckpointFiles |-> "stat"]
          /\ before' = [f \in CheckpointFiles |-> 0]
      BY <2>4 DEF Downloaded, Unread
    <3>2. StatsTyped'
      BY <3>1 DEF PrepareInv, StatsTyped, Stats
    <3>3. VerifyKnows' /\ PrepareHonest'
      BY <3>1 DEF PrepareInv, VerifyKnows, PrepareHonest
    <3>4. QED
      BY <3>2, <3>3 DEF PrepareInv
  <2>5. CASE Finish
    <3>1. /\ UNCHANGED <<pinned, disk, lastStat, progress, before>> /\ phase' = "verified"
          /\ receipt' = [revision |-> pinned, stats |-> before]
          /\ \A f \in CheckpointFiles :
               /\ before[f] # 0
               /\ disk[f].stat = before[f] => disk[f].bytes = pinned
      BY <2>5 DEF Finish, PrepareInv, VerifyKnows
    <3>2. StatsTyped'
      BY <3>1 DEF PrepareInv, StatsTyped, Stats
    <3>3. VerifyKnows' /\ PrepareHonest'
      BY <3>1 DEF VerifyKnows, PrepareHonest
    <3>4. QED
      BY <3>2, <3>3 DEF PrepareInv
  <2>6. CASE End
    BY <2>6 DEF End, PrepareInv, StatsTyped, Stats, VerifyKnows, PrepareHonest
  <2>7. CASE UNCHANGED prepareVars
    BY <2>7 DEF prepareVars, PrepareInv, StatsTyped, Stats, VerifyKnows, PrepareHonest
  <2>8. QED
    BY <2>1, <2>2, <2>3, <2>4, <2>5, <2>6, <2>7 DEF PrepareNext
<1>2. PrepareInv => PrepareHonest
  BY DEF PrepareInv
<1>3. Spec => PrepareSpec
  <2>1. Init => PrepareInit
    BY DEF Init
  <2>2. [Next]_<<layout, input, prepareVars>> => [PrepareNext]_prepareVars
    BY DEF Next
  <2>3. QED
    BY <2>1, <2>2, PTL DEF Spec, PrepareSpec
<1>4. QED
  BY PrepareInitInv, <1>1, <1>2, <1>3, PTL DEF PrepareSpec

-----------------------------------------------------------------------------
(* The fields of a chat request (module EncodingCompat).                   *)

Fields == Int \cup {Unset}
Requests == [max_completion_tokens : Fields, max_tokens : Fields]

\* What the cap does to the field the engine takes.
LEMMA CapAsked ==
  ASSUME NEW request \in Requests, NEW limit \in Int
  PROVE  LET capped == ApplyMaxTokens(request, limit)
         IN  /\ limit <= 0 => capped = request
             /\ limit > 0 =>
                  /\ Asked(capped) # Unset /\ Asked(capped) <= limit
                  /\ Asked(request) # Unset /\ Asked(request) <= limit
                       => Asked(capped) = Asked(request)
             /\ ApplyMaxTokens(capped, limit) = capped
<1> DEFINE capped == ApplyMaxTokens(request, limit)
<1>1. CASE limit <= 0
  BY <1>1 DEF ApplyMaxTokens
<1>2. CASE limit > 0 /\ Asked(request) = Unset
  <2>1. request.max_completion_tokens = Unset /\ request.max_tokens = Unset
    BY <1>2 DEF Asked
  <2>2. capped = [request EXCEPT !.max_tokens = limit]
    BY <1>2 DEF ApplyMaxTokens
  <2>3. Asked(capped) = limit /\ limit # Unset
    BY <2>1, <2>2, EncodingAssumption DEF Asked, Requests
  <2> HIDE DEF capped
  <2>4. ApplyMaxTokens(capped, limit) = capped
    BY <1>2, <2>3 DEF ApplyMaxTokens
  <2>5. QED
    BY <1>2, <2>3, <2>4 DEF capped
<1>3. CASE limit > 0 /\ Asked(request) # Unset /\ Asked(request) > limit
  <2>1. capped = Clamp(request, limit)
    BY <1>3 DEF ApplyMaxTokens
  <2>2. Asked(capped) = limit /\ limit # Unset
    BY <1>3, <2>1, EncodingAssumption DEF Asked, Clamp, Requests
  <2> HIDE DEF capped
  <2>3. ApplyMaxTokens(capped, limit) = capped
    BY <1>3, <2>2 DEF ApplyMaxTokens
  <2>4. Asked(request) \in Int
    BY <1>3 DEF Asked, Requests, Fields
  <2>5. QED
    BY <1>3, <2>2, <2>3, <2>4 DEF capped
<1>4. CASE limit > 0 /\ Asked(request) # Unset /\ ~(Asked(request) > limit)
  <2>1. capped = request /\ Asked(request) \in Int
    BY <1>4 DEF ApplyMaxTokens, Asked, Requests, Fields
  <2> HIDE DEF capped
  <2>2. QED
    BY <1>4, <2>1 DEF capped
<1>5. QED
  BY <1>1, <1>2, <1>3, <1>4

\* The thinking switch under its two names.
LEMMA SwitchNormal ==
  ASSUME NEW keys \in SUBSET {"thinking", "enable_thinking", "other"},
         NEW kwargs, kwargs = [k \in keys |-> kwargs[k]]
  PROVE  LET normal == NormalizeKwargs(kwargs)
             said == {k \in {"thinking", "enable_thinking"} : k \in DOMAIN kwargs}
         IN  /\ NormalizeKwargs(normal) = normal
             /\ Thinks(normal) = IF "thinking" \in said THEN Truth(kwargs["thinking"])
                                 ELSE IF said # {} THEN Truth(kwargs["enable_thinking"])
                                 ELSE "default"
             /\ said # {} => normal["enable_thinking"] = normal["thinking"]
<1> DEFINE normal == NormalizeKwargs(kwargs)
           names == {"thinking", "enable_thinking"}
           Both(v) == [k \in keys \cup names |-> IF k \in names THEN v ELSE kwargs[k]]
<1>1. DOMAIN kwargs = keys
  OBVIOUS
<1>2. ASSUME NEW v, normal = Both(v), Truth(v) = v
      PROVE  NormalizeKwargs(normal) = normal /\ Thinks(normal) = v
               /\ normal["enable_thinking"] = normal["thinking"]
  <2>1. /\ DOMAIN normal = keys \cup names
        /\ normal["thinking"] = v /\ normal["enable_thinking"] = v
        /\ \A k \in keys \ names : normal[k] = kwargs[k]
    BY <1>2
  <2> HIDE DEF normal
  <2>2. NormalizeKwargs(normal)
          = [k \in keys \cup names |-> IF k \in names THEN v ELSE normal[k]]
    BY <1>2, <2>1 DEF NormalizeKwargs
  <2>3. NormalizeKwargs(normal) = Both(v)
    BY <2>1, <2>2
  <2>4. QED
    BY <1>2, <2>1, <2>3 DEF Thinks
<1>3. ASSUME NEW v PROVE Truth(Truth(v)) = Truth(v)
  BY EncodingAssumption DEF Truth
<1>4. CASE "thinking" \in keys
  <2>1. normal = Both(Truth(kwargs["thinking"]))
    BY <1>1, <1>4 DEF NormalizeKwargs
  <2> HIDE DEF normal
  <2>2. QED
    BY <1>1, <1>2, <1>3, <1>4, <2>1 DEF normal
<1>5. CASE "thinking" \notin keys /\ "enable_thinking" \in keys
  <2>1. normal = Both(Truth(kwargs["enable_thinking"]))
    BY <1>1, <1>5 DEF NormalizeKwargs
  <2> HIDE DEF normal
  <2>2. QED
    BY <1>1, <1>2, <1>3, <1>5, <2>1 DEF normal
<1>6. CASE "thinking" \notin keys /\ "enable_thinking" \notin keys
  <2>1. normal = kwargs
    BY <1>1, <1>6 DEF NormalizeKwargs
  <2>2. QED
    BY <1>1, <1>6, <2>1 DEF Thinks
<1>7. QED
  BY <1>4, <1>5, <1>6

\* Whatever a chat request asks for and the cap is, the engine is asked for some
\* number of tokens within it, and thinks as the request says.
THEOREM ChatCappedHolds == Spec => []ChatCapped
<1>1. ASSUME NEW completion \in Fields, NEW tokens \in Fields, NEW cap \in Fields,
             NEW keys \in SUBSET {"thinking", "enable_thinking", "other"},
             NEW kwargs \in [keys -> Switches],
             input = [kind |-> "chat", cap |-> cap, kwargs |-> kwargs,
                      request |-> [max_completion_tokens |-> completion, max_tokens |-> tokens]]
      PROVE  ChatCapped
  <2>1. input.request \in Requests /\ input.cap = cap /\ input.kwargs = kwargs
    BY <1>1 DEF Requests
  <2>2. MaxNewTokens(cap) \in Int
    BY DEF MaxNewTokens, Fields
  <2>3. kwargs = [k \in keys |-> kwargs[k]]
    OBVIOUS
  <2>4. QED
    BY <2>1, <2>2, <2>3, CapAsked, SwitchNormal DEF ChatCapped
<1>2. Init => ChatCapped
  <2>1. ASSUME input.kind # "chat" PROVE ChatCapped
    BY <2>1 DEF ChatCapped
  <2>2. ASSUME ChatInput PROVE ChatCapped
    BY <1>1, <2>2, RulesAssumption DEF ChatInput, Fields
  <2>3. Init => ChatInput \/ input.kind # "chat"
    BY DEF Init, AlgorithmInput, VerifyInput, IndexerInput, PadInput, ScaleInput, LoopInput
  <2>4. QED
    BY <2>1, <2>2, <2>3
<1>3. ChatCapped /\ [Next]_<<layout, input, prepareVars>> => ChatCapped'
  BY DEF Next, ChatCapped
<1>4. QED
  BY <1>2, <1>3, PTL DEF Spec

-----------------------------------------------------------------------------
(* Shards of padded parameters and their scales (Tp3Pad, Mxfp8Scales).     *)

\* A shard of the checkpoint's rows, with the checkpoint's rows only.
LEMMA NarrowRow ==
  ASSUME NEW S, NEW rows \in Seq(S), NEW from \in Nat, NEW size \in Nat,
         from + size <= Len(rows)
  PROVE  /\ DOMAIN Narrow(rows, from, size) = 1 .. size
         /\ \A i \in 1 .. size : Narrow(rows, from, size)[i] = rows[from + i]
  BY DEF Narrow

\* Row i of a shard is the checkpoint's row there, and neutral padding after the
\* checkpoint's end: one for a scale, zero for a weight.
THEOREM ColumnShardExact ==
  ASSUME NEW S, NEW rows \in Seq(S), NEW rank \in Nat, NEW size \in Nat,
         NEW scale \in BOOLEAN, NEW i \in 1 .. size
  PROVE  LoadColumn(rows, rank, size, scale)[i] =
           IF rank * size + i <= Len(rows) THEN rows[rank * size + i]
           ELSE IF scale THEN OneRow ELSE ZeroRow
<1> DEFINE start == rank * size
           padded == PadOrNarrow(rows, start, size)
<1>1. start \in Nat /\ Len(rows) \in Nat
  OBVIOUS
<1> HIDE DEF start
<1>2. CASE start + size <= Len(rows)
  <2>1. LoadColumn(rows, rank, size, scale) = Narrow(rows, start, size)
    BY <1>1, <1>2 DEF LoadColumn, start
  <2>2. QED
    BY <1>1, <1>2, <2>1, NarrowRow DEF start
<1>3. CASE start + size > Len(rows)
  <2>1. /\ DOMAIN padded = 1 .. size
        /\ \A k \in 1 .. size :
             padded[k] = IF start + k <= Len(rows) THEN rows[start + k] ELSE ZeroRow
    BY DEF PadOrNarrow
  <2>2. LoadColumn(rows, rank, size, scale)
          = IF scale /\ Real(rows, start) < size
            THEN FillOnes(padded, Real(rows, start)) ELSE padded
    BY <1>1, <1>3 DEF LoadColumn, start
  <2> HIDE DEF padded
  <2>3. Real(rows, start) \in Nat /\ Real(rows, start) < size
    BY <1>1, <1>3 DEF Real
  <2>4. i > Real(rows, start) <=> start + i > Len(rows)
    BY <1>1 DEF Real
  <2>5. FillOnes(padded, Real(rows, start))[i]
          = IF i > Real(rows, start) THEN OneRow ELSE padded[i]
    BY <2>1 DEF FillOnes
  <2>6. QED
    BY <1>1, <2>1, <2>2, <2>3, <2>4, <2>5 DEF start
<1>4. QED
  BY <1>1, <1>2, <1>3

\* The loader of ColumnParallelLinear does the same, but that a scale's shard that
\* begins past the checkpoint's end gets zeros.
THEOREM LinearShardExact ==
  ASSUME NEW S, NEW rows \in Seq(S), NEW rank \in Nat, NEW size \in Nat,
         NEW scale \in BOOLEAN, NEW i \in 1 .. size
  PROVE  LoadLinear(rows, rank, size, scale)[i] =
           IF rank * size + i <= Len(rows) THEN rows[rank * size + i]
           ELSE IF scale /\ rank * size <= Len(rows) THEN OneRow ELSE ZeroRow
<1> DEFINE start == rank * size
           real == Len(rows) - start
           padded == PadOrNarrow(rows, start, size)
<1>1. start \in Nat /\ Len(rows) \in Nat
  OBVIOUS
<1> HIDE DEF start
<1>2. CASE start + size <= Len(rows)
  <2>1. LoadLinear(rows, rank, size, scale) = Narrow(rows, start, size)
    BY <1>1, <1>2 DEF LoadLinear, start
  <2>2. QED
    BY <1>1, <1>2, <2>1, NarrowRow DEF start
<1>3. CASE start + size > Len(rows)
  <2>1. /\ DOMAIN padded = 1 .. size
        /\ \A k \in 1 .. size :
             padded[k] = IF start + k <= Len(rows) THEN rows[start + k] ELSE ZeroRow
    BY DEF PadOrNarrow
  <2>2. LoadLinear(rows, rank, size, scale)
          = IF scale /\ 0 <= real /\ real < size THEN FillOnes(padded, real) ELSE padded
    BY <1>1, <1>3 DEF LoadLinear, start
  <2> HIDE DEF padded
  <2>3. real < size /\ (0 <= real <=> start <= Len(rows))
    BY <1>1, <1>3
  <2>4. i > real <=> start + i > Len(rows)
    BY <1>1
  <2>5. FillOnes(padded, real)[i] = IF i > real THEN OneRow ELSE padded[i]
    BY <2>1 DEF FillOnes
  <2>6. QED
    BY <1>1, <2>1, <2>2, <2>3, <2>4, <2>5 DEF start
<1>4. QED
  BY <1>1, <1>2, <1>3

\* The padded count of any rows is a whole number, and so is a rank's share of it.
LEMMA ShareTyped ==
  ASSUME NEW n \in Nat, NEW tp \in Nat \ {0}
  PROVE  PadCount(n, tp) \div tp \in Nat
<1>1. (n + tp - 1) \in Nat /\ (n + tp - 1) \div tp \in Nat
  BY DivBounds
<1>2. CeilTo(n, tp) \in Nat
  BY <1>1 DEF CeilTo
<1>3. PadCount(n, tp) \in Nat
  BY <1>2 DEF PadCount
<1>4. QED
  BY <1>3, DivBounds

\* Scales are powers of two where the weights are not zero; elsewhere they are what
\* padding may hold when the scales tile the weights, or what the loader writes.
Repairable(scales, zero, size, tiles) ==
  /\ scales = [i \in 1 .. size |-> scales[i]]
  /\ zero = [i \in 1 .. size |-> zero[i]]
  /\ \A i \in 1 .. size : ~zero[i] => scales[i] = "power"
  /\ \A i \in 1 .. size : zero[i] =>
       scales[i] \in IF tiles THEN ScaleKinds \ {"infinite"} ELSE {"power", "one", "zero"}

\* Repairable scales are accepted once prepared, and the checkpoint's own are kept.
LEMMA PreparedAccepted ==
  ASSUME NEW size \in Nat, NEW tiles \in BOOLEAN, NEW scales, NEW zero,
         Repairable(scales, zero, size, tiles)
  PROVE  LET prepared == PreparedScales(scales, zero, tiles)
         IN  Accepted(prepared) /\ \A i \in 1 .. size : ~zero[i] => prepared[i] = "power"
<1> DEFINE repaired == RepairPaddedScales(scales, zero, tiles)
           prepared == PreparedScales(scales, zero, tiles)
           Good(i) == repaired[i] \in (IF tiles THEN {"power", "one"} ELSE {"power", "one", "zero"})
                        /\ (~zero[i] => repaired[i] = "power")
<1> USE DEF Repairable
<1>1. DOMAIN scales = 1 .. size
  OBVIOUS
<1>2. DOMAIN repaired = 1 .. size /\ \A i \in 1 .. size : Good(i)
  <2>1. CASE ~tiles
    <3>1. repaired = scales
      BY <2>1 DEF RepairPaddedScales
    <3>2. QED
      BY <1>1, <2>1, <3>1
  <2>2. CASE tiles
    <3>1. repaired = [i \in 1 .. size |->
                        IF i \in BadScales(scales) /\ zero[i] THEN "one" ELSE scales[i]]
      BY <1>1, <2>2 DEF RepairPaddedScales
    <3>2. ASSUME NEW i \in 1 .. size PROVE Good(i)
      <4>1. repaired[i] = IF ~PowerOfTwo(scales[i]) /\ zero[i] THEN "one" ELSE scales[i]
        BY <1>1, <3>1, <3>2 DEF BadScales
      <4> HIDE DEF repaired
      <4>2. CASE ~zero[i]
        BY <2>2, <3>2, <4>1, <4>2
      <4>3. CASE zero[i] /\ PowerOfTwo(scales[i])
        <5>1. scales[i] \in ScaleKinds \ {"infinite"}
          BY <2>2, <3>2, <4>3
        <5>2. scales[i] \in {"power", "one"}
          BY <4>3, <5>1 DEF PowerOfTwo
        <5>3. QED
          BY <2>2, <4>1, <4>3, <5>2
      <4>4. CASE zero[i] /\ ~PowerOfTwo(scales[i])
        BY <2>2, <4>1, <4>4
      <4>5. QED
        BY <4>2, <4>3, <4>4
    <3>3. QED
      BY <3>1, <3>2
  <2>3. QED
    BY <2>1, <2>2
<1>3. prepared = EncodedScales(repaired)
  BY DEF PreparedScales
<1> HIDE DEF repaired, prepared
<1>4. /\ DOMAIN prepared = 1 .. size
      /\ \A i \in 1 .. size : prepared[i] \in {"power", "one"}
                             /\ (~zero[i] => prepared[i] = "power")
  <2>1. CASE \E i \in 1 .. size : repaired[i] \in {"zero", "negative"}
    <3>1. prepared = [i \in 1 .. size |-> IF Positive(repaired[i]) THEN repaired[i] ELSE "one"]
      BY <1>2, <1>3, <2>1 DEF EncodedScales
    <3>2. ASSUME NEW i \in 1 .. size
          PROVE  prepared[i] \in {"power", "one"} /\ (~zero[i] => prepared[i] = "power")
      <4>1. repaired[i] \in {"power", "one", "zero"} /\ (~zero[i] => repaired[i] = "power")
        BY <1>2
      <4>2. prepared[i] = IF Positive(repaired[i]) THEN repaired[i] ELSE "one"
        BY <3>1
      <4>3. QED
        BY <4>1, <4>2 DEF Positive
    <3>3. QED
      BY <3>1, <3>2
  <2>2. CASE ~\E i \in 1 .. size : repaired[i] \in {"zero", "negative"}
    <3>1. prepared = repaired
      BY <1>2, <1>3, <2>2 DEF EncodedScales
    <3>2. QED
      BY <1>2, <2>2, <3>1
  <2>3. QED
    BY <2>1, <2>2
<1>5. QED
  BY <1>4 DEF Accepted, prepared

\* Whatever the rows of a checkpoint and the ranks, the scales of every rank's shard
\* reach the kernels as powers of two, the checkpoint's own as they were.
THEOREM ScalesAcceptedHolds == Spec => []ScalesAccepted
<1> DEFINE Input ==
             input.kind = "scale" =>
               /\ input.rows \in Nat /\ input.tp \in Nat \ {0} /\ input.tiles \in BOOLEAN
               /\ input.memory \in ScaleKinds \cup {"loaded"}
<1>1. ASSUME Input, input.kind = "scale", input.memory # "infinite",
             input.tiles \/ input.memory = "loaded", NEW rank \in 0 .. input.tp - 1
      PROVE  LET rows == [i \in 1 .. input.rows |-> i]
                 size == PadCount(input.rows, input.tp) \div input.tp
                 Kind(row) == IF row = ZeroRow THEN "zero" ELSE IF row = OneRow THEN "one" ELSE "power"
                 loaded == LoadLinear(rows, rank, size, TRUE)
                 zero == [i \in 1 .. size |-> LoadLinear(rows, rank, size, FALSE)[i] = ZeroRow]
                 scales == [i \in 1 .. size |->
                              IF zero[i] /\ input.memory # "loaded" THEN input.memory
                              ELSE Kind(loaded[i])]
                 prepared == PreparedScales(scales, zero, input.tiles)
             IN  Accepted(prepared) /\ \A i \in 1 .. size : ~zero[i] => prepared[i] = "power"
  <2> DEFINE n == input.rows
             tp == input.tp
             tiles == input.tiles
             memory == input.memory
             rows == [i \in 1 .. n |-> i]
             size == PadCount(n, tp) \div tp
             Kind(row) == IF row = ZeroRow THEN "zero" ELSE IF row = OneRow THEN "one" ELSE "power"
             loaded == LoadLinear(rows, rank, size, TRUE)
             bare == LoadLinear(rows, rank, size, FALSE)
             zero == [i \in 1 .. size |-> bare[i] = ZeroRow]
             scales == [i \in 1 .. size |->
                          IF zero[i] /\ memory # "loaded" THEN memory ELSE Kind(loaded[i])]
             start == rank * size
  <2>0. /\ n \in Nat /\ tp \in Nat \ {0} /\ tiles \in BOOLEAN /\ rank \in 0 .. tp - 1
        /\ memory \in ScaleKinds \cup {"loaded"} /\ memory # "infinite"
        /\ tiles \/ memory = "loaded"
    BY <1>1
  <2> HIDE DEF n, tp, tiles, memory
  <2>1. size \in Nat /\ rank \in Nat
    BY <2>0, ShareTyped
  <2>2. rows \in Seq(Nat) /\ Len(rows) = n /\ \A i \in 1 .. n : rows[i] = i
    BY <2>0
  <2> HIDE DEF size, rows
  <2>3. start \in Nat
    BY <2>1
  <2>4. ASSUME NEW i \in 1 .. size
        PROVE  /\ bare[i] = IF start + i <= n THEN rows[start + i] ELSE ZeroRow
               /\ loaded[i] = IF start + i <= n THEN rows[start + i]
                              ELSE IF start <= n THEN OneRow ELSE ZeroRow
    BY <2>1, <2>2, <2>4, LinearShardExact
  <2> HIDE DEF bare, loaded, start
  <2>5. ASSUME NEW i \in 1 .. size
        PROVE  /\ zero[i] <=> start + i > n
               /\ ~zero[i] => scales[i] = "power"
               /\ zero[i] => scales[i] \in IF tiles THEN ScaleKinds \ {"infinite"}
                                           ELSE {"power", "one", "zero"}
    <3>1. CASE start + i <= n
      <4>1. rows[start + i] \in Nat \ {0}
        BY <2>2, <2>3, <2>5, <3>1
      <4>2. bare[i] = rows[start + i] /\ loaded[i] = rows[start + i]
        BY <2>4, <2>5, <3>1
      <4>3. bare[i] # ZeroRow /\ Kind(loaded[i]) = "power"
        BY <4>1, <4>2 DEF ZeroRow, OneRow
      <4> HIDE DEF Kind
      <4>4. ~zero[i]
        BY <2>5, <4>3
      <4>5. scales[i] = Kind(loaded[i])
        BY <2>5, <4>4
      <4> HIDE DEF zero, scales
      <4>6. QED
        BY <2>0, <2>3, <2>5, <3>1, <4>3, <4>4, <4>5
    <3>2. CASE ~(start + i <= n)
      <4>1. bare[i] = ZeroRow /\ loaded[i] \in {ZeroRow, OneRow}
        BY <2>4, <2>5, <3>2
      <4>2. Kind(loaded[i]) \in {"zero", "one"}
        BY <4>1
      <4>3. {"zero", "one"} \subseteq ScaleKinds \ {"infinite"}
        BY DEF ScaleKinds
      <4> HIDE DEF Kind
      <4>4. zero[i] /\ scales[i] \in IF memory # "loaded" THEN {memory} ELSE {"zero", "one"}
        BY <2>5, <4>1, <4>2
      <4>5. memory # "loaded" => tiles /\ memory \in ScaleKinds \ {"infinite"}
        BY <2>0
      <4> HIDE DEF zero, scales
      <4>6. QED
        BY <2>0, <2>1, <2>2, <2>3, <2>5, <3>2, <4>3, <4>4, <4>5
    <3>3. QED
      BY <3>1, <3>2
  <2>6. scales = [i \in 1 .. size |-> scales[i]] /\ zero = [i \in 1 .. size |-> zero[i]]
    OBVIOUS
  <2> HIDE DEF zero, scales
  <2>7. Repairable(scales, zero, size, tiles)
    BY <2>5, <2>6 DEF Repairable
  <2>8. LET prepared == PreparedScales(scales, zero, tiles)
        IN  Accepted(prepared) /\ \A i \in 1 .. size : ~zero[i] => prepared[i] = "power"
    BY <2>0, <2>1, <2>7, PreparedAccepted
  <2>9. QED
    BY <2>8 DEF n, tp, tiles, memory, rows, size, loaded, bare, zero, scales
<1>2. Input => ScalesAccepted
  BY <1>1 DEF ScalesAccepted
<1>3. Init => Input
  <2>1. Init => ScaleInput \/ input.kind # "scale"
    BY DEF Init, AlgorithmInput, VerifyInput, IndexerInput, PadInput, ChatInput, LoopInput
  <2>2. ScaleInput => Input
    BY RulesAssumption DEF ScaleInput
  <2>3. QED
    BY <2>1, <2>2
<1>4. Input /\ [Next]_<<layout, input, prepareVars>> => Input'
  BY DEF Next
<1>5. QED
  BY <1>2, <1>3, <1>4, PTL DEF Spec

-----------------------------------------------------------------------------
(* A generation that repeats itself (module LoopAbort).                     *)

\* A set of numbers that is not empty has a least one.
LEMMA LeastNumber ==
  ASSUME NEW T \in SUBSET Nat, T # {}
  PROVE  \E x \in T : \A y \in T : x <= y
<1> DEFINE R == {ss \in Nat \X Nat : ss[1] < ss[2]}
<1>1. IsWellFoundedOn(R, Nat)
  BY NatLessThanWellFounded DEF OpToRel
<1> HIDE DEF R
<1>2. PICK x \in T : \A y \in T : ~ (<<y, x>> \in R)
  BY <1>1, WFMin
<1>3. ASSUME NEW y \in T, y < x PROVE FALSE
  <2>1. <<y, x>> \in Nat \X Nat /\ <<y, x>>[1] < <<y, x>>[2]
    BY <1>3
  <2>2. <<y, x>> \in R
    BY <2>1 DEF R
  <2>3. QED
    BY <1>2, <2>2
<1>4. QED
  BY <1>3

\* The run that an output ends in begins where it can be looked up.
LEMMA RunLength ==
  ASSUME NEW V, NEW ids \in Seq(V), Len(ids) > 0
  PROVE  /\ LastRun(ids) \in 1 .. Len(ids)
         /\ \A k \in 1 .. Len(ids) : Runs(ids, k) <=> k <= LastRun(ids)
<1> DEFINE n == Len(ids)
           S == {i \in 1 .. n : \A j \in i .. n : ids[j] = ids[n]}
<1>0. n \in Nat /\ n > 0
  OBVIOUS
<1> HIDE DEF n
<1>1. n \in S
  BY <1>0
<1>2. PICK m \in S : \A i \in S : m <= i
  <2>1. S \in SUBSET Nat /\ S # {}
    BY <1>1
  <2> HIDE DEF S
  <2>2. QED
    BY <2>1, LeastNumber
<1>3. S = m .. n
  BY <1>0, <1>2
<1>4. LastRun(ids) = n - m + 1
  <2>1. Cardinality(m .. n) = n - m + 1
    BY <1>0, <1>2, FS_Interval
  <2>2. LastRun(ids) = Cardinality(S)
    BY DEF LastRun, n
  <2>3. QED
    BY <1>3, <2>1, <2>2
<1>5. ASSUME NEW k \in 1 .. n PROVE Runs(ids, k) <=> k <= LastRun(ids)
  <2>1. Runs(ids, k) <=> n - k + 1 \in S
    BY <1>0, <1>5 DEF Runs, n
  <2>2. QED
    BY <1>0, <1>2, <1>3, <1>4, <1>5, <2>1
<1>6. QED
  BY <1>0, <1>2, <1>4, <1>5 DEF n

\* Copies of the last p tokens are p apart.
LEMMA CopiesCycle ==
  ASSUME NEW V, NEW ids \in Seq(V), NEW p \in Nat \ {0}, NEW k \in Nat \ {0},
         p * k <= Len(ids)
  PROVE  EndsInCopies(ids, p, k) <=> Cycles(ids, p, k)
<1> DEFINE n == Len(ids)
           At(r, j) == ids[n - r * p - p + j]
           Same == \A r \in 1 .. k - 1 : \A j \in 1 .. p : At(r, j) = ids[n - p + j]
<1>0. n \in Nat /\ p * k <= n /\ p <= p * k /\ k * p = p * k
  BY MulMonotone
<1> HIDE DEF n
<1>1. ASSUME NEW r \in 0 .. k - 1
      PROVE  /\ r * p \in Nat /\ r * p + p <= n
             /\ (r + 1) * p = r * p + p
  <2>1. p * (r + 1) <= p * k
    BY MulMonotone
  <2>2. p * (r + 1) = r * p + p /\ (r + 1) * p = r * p + p /\ r * p \in Nat
    OBVIOUS
  <2>3. QED
    BY <1>0, <2>1, <2>2
<1>2. EndsInCopies(ids, p, k) <=> Same
  <2>1. ASSUME NEW r \in 1 .. k - 1
        PROVE  SubSeq(ids, n - (r + 1) * p + 1, n - r * p) = SubSeq(ids, n - p + 1, n)
                 <=> \A j \in 1 .. p : At(r, j) = ids[n - p + j]
    <3> DEFINE a == n - r * p - p
               s == SubSeq(ids, a + 1, n - r * p)
               t == SubSeq(ids, n - p + 1, n)
    <3>1. /\ a \in Nat /\ n - r * p = a + p /\ a + p <= n
          /\ n - (r + 1) * p = a
      BY <1>0, <1>1
    <3> HIDE DEF a
    <3>2. /\ s \in Seq(V) /\ Len(s) = p
          /\ \A j \in 1 .. p : s[j] = ids[a + j]
      <4>1. \A i \in a + 1 .. a + p : ids[i] \in V
        BY <1>0, <3>1 DEF n
      <4>2. /\ SubSeq(ids, a + 1, a + p) \in Seq(V)
            /\ Len(SubSeq(ids, a + 1, a + p)) = p
            /\ \A j \in 1 .. p : SubSeq(ids, a + 1, a + p)[j] = ids[a + 1 + j - 1]
        BY <3>1, <4>1, SubSeqProperties
      <4>3. \A j \in 1 .. p : a + 1 + j - 1 = a + j
        BY <3>1
      <4>4. QED
        BY <3>1, <4>2, <4>3
    <3>3. /\ t \in Seq(V) /\ Len(t) = p
          /\ \A j \in 1 .. p : t[j] = ids[n - p + j]
      <4>1. \A i \in n - p + 1 .. n : ids[i] \in V
        BY <1>0 DEF n
      <4>2. /\ t \in Seq(V)
            /\ Len(t) = p
            /\ \A j \in 1 .. p : t[j] = ids[n - p + 1 + j - 1]
        BY <1>0, <4>1, SubSeqProperties
      <4>3. \A j \in 1 .. p : n - p + 1 + j - 1 = n - p + j
        BY <1>0
      <4>4. QED
        BY <4>2, <4>3
    <3> HIDE DEF s, t
    <3>4. s = t <=> \A j \in 1 .. p : s[j] = t[j]
      BY <3>2, <3>3, SeqEqual
    <3>5. s = t <=> \A j \in 1 .. p : ids[a + j] = ids[n - p + j]
      BY <3>2, <3>3, <3>4
    <3>6. \A j \in 1 .. p : At(r, j) = ids[a + j]
      BY DEF a
    <3>7. SubSeq(ids, n - (r + 1) * p + 1, n - r * p) = s
      BY <3>1 DEF s
    <3> HIDE DEF At
    <3>8. QED
      BY <3>5, <3>6, <3>7 DEF t
  <2>2. EndsInCopies(ids, p, k) <=>
          \A r \in 1 .. k - 1 :
             SubSeq(ids, n - (r + 1) * p + 1, n - r * p) = SubSeq(ids, n - p + 1, n)
    BY <1>0 DEF EndsInCopies, n
  <2> HIDE DEF At
  <2>3. QED
    BY <2>1, <2>2
<1>3. ASSUME Cycles(ids, p, k) PROVE Same
  <2> DEFINE Bad == {r \in 0 .. k - 1 : \E j \in 1 .. p : At(r, j) # ids[n - p + j]}
  <2> HIDE DEF At
  <2>1. Bad = {} => Same
    <3>1. ASSUME Bad = {}, NEW r \in 1 .. k - 1, NEW j \in 1 .. p
          PROVE  At(r, j) = ids[n - p + j]
      <4>1. At(r, j) # ids[n - p + j] => r \in Bad
        BY <3>1
      <4> HIDE DEF Bad
      <4>2. QED
        BY <3>1, <4>1
    <3>2. QED
      BY <3>1
  <2>2. SUFFICES ASSUME Bad # {} PROVE FALSE
    BY <2>1
  <2>3. PICK r \in Bad : \A q \in Bad : r <= q
    <3>1. Bad \in SUBSET Nat
      OBVIOUS
    <3> HIDE DEF Bad
    <3>2. QED
      BY <2>2, <3>1, LeastNumber
  <2> USE DEF At
  <2>4. PICK j \in 1 .. p : At(r, j) # ids[n - p + j]
    BY <2>3
  <2>5. r # 0
    BY <1>0, <2>4
  <2>6. r - 1 \in 0 .. k - 1 /\ r - 1 \notin Bad
    BY <2>3, <2>5
  <2>7. At(r - 1, j) = ids[n - p + j]
    BY <2>4, <2>6
  <2>8. /\ (r - 1) * p = r * p - p
        /\ r * p \in Nat /\ r * p + p <= n /\ r * p <= k * p - p
    <3>1. r \in 0 .. k - 1
      BY <2>3
    <3>2. p * r <= p * (k - 1)
      BY <3>1, MulMonotone
    <3>3. p * (k - 1) = k * p - p /\ p * r = r * p /\ (r - 1) * p = r * p - p
      BY <3>1
    <3>4. QED
      BY <1>1, <3>1, <3>2, <3>3
  <2> DEFINE i == n - r * p + j
  <2>9. /\ i \in n - k * p + p + 1 .. n
        /\ i = n - (r - 1) * p - p + j /\ i - p = n - r * p - p + j
    BY <1>0, <2>4, <2>8
  <2>10. ids[i] = ids[i - p]
    BY <1>3, <2>9 DEF Cycles, n
  <2>11. QED
    BY <2>4, <2>7, <2>9, <2>10
<1>4. ASSUME Same, NEW i \in n - k * p + p + 1 .. n PROVE ids[i] = ids[i - p]
  <2> DEFINE d == n - i
             r == d \div p
             j == n - r * p - i
  <2>1. d \in Nat /\ d < k * p - p
    BY <1>0, <1>4
  <2>2. r \in Nat /\ p * r <= d /\ d < p * r + p
    BY <2>1, DivBounds
  <2>3. r < k - 1
    <3>1. p * (k - 1) = k * p - p
      OBVIOUS
    <3>2. r >= k - 1 => p * (k - 1) <= p * r
      BY <2>2, MulMonotone
    <3> HIDE DEF d, r
    <3>3. QED
      BY <2>1, <2>2, <3>1, <3>2
  <2> HIDE DEF r
  <2>4. p * r = r * p /\ r * p \in Nat /\ (r + 1) * p = r * p + p
    BY <2>2
  <2>5. p - j \in 1 .. p /\ n - r * p - p + (p - j) = i
    BY <1>0, <1>4, <2>2, <2>4
  <2>6. ids[i - p] = ids[n - p + (p - j)]
    <3>1. r + 1 \in 1 .. k - 1
      BY <2>2, <2>3
    <3>2. At(r + 1, p - j) = ids[n - p + (p - j)]
      BY <1>4, <2>5, <3>1
    <3>3. n - (r + 1) * p - p + (p - j) = i - p
      BY <1>0, <1>4, <2>4, <2>5
    <3>4. QED
      BY <3>2, <3>3
  <2>7. ids[i] = ids[n - p + (p - j)]
    <3>1. CASE r = 0
      BY <1>0, <2>4, <2>5, <3>1
    <3>2. CASE r # 0
      <4>1. r \in 1 .. k - 1
        BY <2>2, <2>3, <3>2
      <4>2. At(r, p - j) = ids[n - p + (p - j)]
        BY <1>4, <2>5, <4>1
      <4>3. QED
        BY <2>5, <4>2
    <3>3. QED
      BY <3>1, <3>2
  <2>8. QED
    BY <2>6, <2>7
<1>5. QED
  BY <1>2, <1>3, <1>4 DEF Cycles, n

\* The loop checks stop at what repeats and at nothing else; what is cut is a copy
\* of what stays.
LEMMA IdenticalFinds ==
  ASSUME NEW V, NEW ids \in Seq(V), Len(ids) > 0, NEW cfg, cfg.identical \in Int
  PROVE  LET kept == IdenticalLoop(ids, cfg)
         IN  /\ kept # NoLoop <=> /\ cfg.identical > 0 /\ Len(ids) >= cfg.identical
                                  /\ Runs(ids, cfg.identical)
             /\ kept # NoLoop => /\ kept \in 1 .. Len(ids)
                                 /\ \A i \in kept + 1 .. Len(ids) : ids[i] = ids[i - 1]
<1> DEFINE n == Len(ids)
           run == LastRun(ids)
           k == cfg.identical
<1>1. /\ n \in Nat /\ n > 0 /\ k \in Int
      /\ run \in 1 .. n /\ \A c \in 1 .. n : Runs(ids, c) <=> c <= run
  BY RunLength
<1>2. IdenticalLoop(ids, cfg) = IF k > 0 /\ run >= k THEN n - run + 1 ELSE 0
  BY DEF IdenticalLoop, NoLoop
<1> HIDE DEF run, k
<1>3. k > 0 /\ run >= k <=> k > 0 /\ n >= k /\ Runs(ids, k)
  BY <1>1
<1>4. \A i \in n - run + 2 .. n : ids[i] = ids[i - 1]
  <2>1. Runs(ids, run)
    BY <1>1
  <2>2. \A i \in n - run + 1 .. n : ids[i] = ids[n]
    BY <2>1 DEF Runs
  <2>3. QED
    BY <1>1, <2>2
<1> HIDE DEF n
<1>5. QED
  BY <1>1, <1>2, <1>3, <1>4 DEF NoLoop, n, k

\* The search for a cycle finds one exactly when the output ends in one, and cuts only copies.
LEMMA CycleFinds ==
  ASSUME NEW V, NEW ids \in Seq(V), NEW cfg,
         cfg.ngram \in Int, cfg.ngram_max \in Int, cfg.repeats \in Int
  PROVE  LET kept == CycleLoop(ids, cfg)
         IN  /\ kept # NoLoop <=>
                  /\ cfg.ngram > 0 /\ cfg.repeats > 0
                  /\ \E p \in cfg.ngram .. cfg.ngram_max :
                        p * cfg.repeats <= Len(ids) /\ Cycles(ids, p, cfg.repeats)
             /\ kept # NoLoop =>
                  /\ kept \in 1 .. Len(ids)
                  /\ \E p \in 1 .. kept : \A i \in kept + 1 .. Len(ids) : ids[i] = ids[i - p]
<1> DEFINE n == Len(ids)
           k == cfg.repeats
           hits == {p \in cfg.ngram .. cfg.ngram_max : EndsInCopies(ids, p, k)}
           shortest == CHOOSE p \in hits : \A q \in hits : p <= q
           kept == CycleLoop(ids, cfg)
<1>1. kept = IF cfg.ngram > 0 /\ k > 0 /\ hits # {} THEN n - (k - 1) * shortest ELSE 0
  BY DEF CycleLoop, NoLoop
<1>2. CASE ~(cfg.ngram > 0 /\ k > 0)
  BY <1>1, <1>2 DEF NoLoop
<1>3. CASE cfg.ngram > 0 /\ k > 0
  <2>1. n \in Nat /\ k \in Nat \ {0} /\ \A p \in cfg.ngram .. cfg.ngram_max : p \in Nat \ {0}
    BY <1>3
  <2>2. \A p \in cfg.ngram .. cfg.ngram_max :
           p \in hits <=> p * k <= n /\ Cycles(ids, p, k)
    <3>1. ASSUME NEW p \in cfg.ngram .. cfg.ngram_max
          PROVE  EndsInCopies(ids, p, k) <=> p * k <= n /\ Cycles(ids, p, k)
      <4>1. EndsInCopies(ids, p, k) => p * k <= n
        BY DEF EndsInCopies
      <4>2. p \in Nat \ {0}
        BY <2>1
      <4> HIDE DEF k
      <4>3. p * k <= n => (EndsInCopies(ids, p, k) <=> Cycles(ids, p, k))
        BY <2>1, <4>2, CopiesCycle
      <4>4. QED
        BY <4>1, <4>3
    <3>2. QED
      BY <3>1
  <2> HIDE DEF kept, k
  <2>3. CASE hits = {}
    <3>1. kept = 0
      BY <1>1, <2>3
    <3>2. ~\E p \in cfg.ngram .. cfg.ngram_max : p * k <= n /\ Cycles(ids, p, k)
      BY <2>2, <2>3
    <3>3. QED
      BY <3>1, <3>2 DEF NoLoop, kept, k
  <2>4. CASE hits # {}
    <3>1. hits \in SUBSET Nat /\ hits \subseteq cfg.ngram .. cfg.ngram_max
      BY <2>1
    <3> HIDE DEF hits
    <3>2. \E p \in hits : \A q \in hits : p <= q
      BY <2>4, <3>1, LeastNumber
    <3>3. shortest \in hits
      BY <3>2
    <3> DEFINE p == shortest
    <3> HIDE DEF shortest
    <3>4. p \in cfg.ngram .. cfg.ngram_max /\ p \in Nat \ {0} /\ p * k <= n /\ Cycles(ids, p, k)
      BY <2>1, <2>2, <3>1, <3>3
    <3>5. kept = n - (k - 1) * p
      BY <1>1, <1>3, <2>4
    <3>6. /\ k * p = p * k /\ (k - 1) * p = k * p - p /\ p <= k * p /\ k * p \in Nat
      <4>1. p * 1 <= p * k
        BY <2>1, <3>4, MulMonotone
      <4>2. QED
        BY <2>1, <3>4, <4>1
    <3>7. kept \in 1 .. n /\ p \in 1 .. kept
      BY <2>1, <3>4, <3>5, <3>6
    <3>8. \A i \in kept + 1 .. n : ids[i] = ids[i - p]
      <4>1. kept + 1 = n - k * p + p + 1
        BY <2>1, <3>4, <3>5, <3>6
      <4>2. QED
        BY <3>4, <4>1 DEF Cycles
    <3> HIDE DEF p, n
    <3>9. kept # 0 /\ kept \in 1 .. n /\ \E q \in 1 .. kept : \A i \in kept + 1 .. n : ids[i] = ids[i - q]
      BY <3>7, <3>8
    <3>10. \E q \in cfg.ngram .. cfg.ngram_max : q * k <= n /\ Cycles(ids, q, k)
      BY <3>4
    <3>11. QED
      BY <1>3, <3>9, <3>10 DEF NoLoop, kept, k, n
  <2>5. QED
    BY <2>3, <2>4
<1>4. QED
  BY <1>2, <1>3

\* The variables of a configuration are numbers.
LoopTyped(cfg) ==
  /\ cfg.abort \in Int /\ cfg.ngram \in Int /\ cfg.ngram_max \in Int
  /\ cfg.repeats \in Int /\ cfg.identical \in Int /\ cfg.line_repeats \in Int

\* What makes an output end in a loop.
Repeats(ids, decodes, cfg) ==
  \/ cfg.identical > 0 /\ Len(ids) >= cfg.identical /\ Runs(ids, cfg.identical)
  \/ /\ cfg.ngram > 0 /\ cfg.repeats > 0
     /\ \E p \in cfg.ngram .. cfg.ngram_max :
           p * cfg.repeats <= Len(ids) /\ Cycles(ids, p, cfg.repeats)
  \/ /\ decodes
     /\ RepeatedLineSuffix(SubSeq(ids, IF Len(ids) > LineWindow THEN Len(ids) - LineWindow + 1
                                       ELSE 1, Len(ids)),
                           cfg.line_repeats, cfg.line_min)

\* What is cut after the first `kept` tokens repeats what stays.
OnlyCopiesCut(ids, kept) ==
  \E p \in 1 .. kept \cup {Len(ids)} : \A i \in kept + 1 .. Len(ids) : ids[i] = ids[i - p]

\* Any repetition the configuration names is found, and nothing else.
LEMMA LoopDetected ==
  ASSUME NEW V, NEW ids \in Seq(V), NEW decodes \in BOOLEAN, NEW cfg, LoopTyped(cfg)
  PROVE  LET kept == DetectRepetition(ids, decodes /\ cfg.line_repeats > 0, cfg)
         IN  /\ LoopEnabled(cfg) /\ kept # NoLoop <=>
                  cfg.abort > 0 /\ Len(ids) > 0 /\ Repeats(ids, decodes, cfg)
             /\ kept # NoLoop => kept \in 1 .. Len(ids) /\ OnlyCopiesCut(ids, kept)
<1> DEFINE n == Len(ids)
           decoded == decodes /\ cfg.line_repeats > 0
           window == SubSeq(ids, IF n > LineWindow THEN n - LineWindow + 1 ELSE 1, n)
           lines == RepeatedLineSuffix(window, cfg.line_repeats, cfg.line_min)
           kept == DetectRepetition(ids, decoded, cfg)
           same == IdenticalLoop(ids, cfg)
           turn == CycleLoop(ids, cfg)
           run == cfg.identical > 0 /\ n >= cfg.identical /\ Runs(ids, cfg.identical)
           cycle == /\ cfg.ngram > 0 /\ cfg.repeats > 0
                    /\ \E p \in cfg.ngram .. cfg.ngram_max :
                          p * cfg.repeats <= n /\ Cycles(ids, p, cfg.repeats)
<1>1. n \in Nat
  OBVIOUS
<1>2. kept = IF n = 0 \/ ~LoopEnabled(cfg) THEN NoLoop
             ELSE IF same # NoLoop THEN same
             ELSE IF turn # NoLoop THEN turn
             ELSE IF decoded /\ lines THEN n ELSE NoLoop
  BY DEF DetectRepetition
<1>3. Repeats(ids, decodes, cfg) <=> run \/ cycle \/ (decodes /\ lines)
  BY DEF Repeats
<1>4. n > 0 => /\ same # NoLoop <=> run
               /\ same # NoLoop => /\ same \in 1 .. n
                                   /\ \A i \in same + 1 .. n : ids[i] = ids[i - 1]
  <2>1. cfg.identical \in Int
    BY DEF LoopTyped
  <2>2. QED
    BY <2>1, IdenticalFinds
<1>5. /\ turn # NoLoop <=> cycle
      /\ turn # NoLoop => /\ turn \in 1 .. n
                          /\ \E p \in 1 .. turn : \A i \in turn + 1 .. n : ids[i] = ids[i - p]
  <2>1. cfg.ngram \in Int /\ cfg.ngram_max \in Int /\ cfg.repeats \in Int
    BY DEF LoopTyped
  <2>2. QED
    BY <2>1, CycleFinds
<1>6. lines => cfg.line_repeats > 0
  BY DEF RepeatedLineSuffix
<1>7. LoopEnabled(cfg) <=> cfg.abort > 0 /\ ((cfg.ngram > 0 /\ cfg.repeats > 0)
                                              \/ cfg.identical > 0 \/ cfg.line_repeats > 0)
  BY DEF LoopEnabled
<1>8. run => cfg.identical > 0
  OBVIOUS
<1>9. cycle => cfg.ngram > 0 /\ cfg.repeats > 0
  OBVIOUS
<1> HIDE DEF kept, same, turn, run, cycle, lines
<1>10. LoopEnabled(cfg) /\ kept # NoLoop <=>
         cfg.abort > 0 /\ n > 0 /\ (run \/ cycle \/ (decodes /\ lines))
  <2>1. CASE n = 0 \/ ~LoopEnabled(cfg)
    BY <1>1, <1>2, <1>6, <1>7, <1>8, <1>9, <2>1
  <2>2. CASE n > 0 /\ LoopEnabled(cfg)
    <3>1. decoded /\ lines <=> decodes /\ lines
      BY <1>6
    <3>2. cfg.abort > 0
      BY <1>7, <2>2
    <3>3. n # NoLoop
      BY <2>2 DEF NoLoop
    <3> HIDE DEF n, decoded
    <3>4. QED
      BY <1>2, <1>4, <1>5, <2>2, <3>1, <3>2, <3>3
  <2>3. QED
    BY <1>1, <2>1, <2>2
<1>11. kept # NoLoop => kept \in 1 .. n /\ OnlyCopiesCut(ids, kept)
  <2>1. SUFFICES ASSUME kept # NoLoop PROVE kept \in 1 .. n /\ OnlyCopiesCut(ids, kept)
    OBVIOUS
  <2>2. n > 0
    BY <1>1, <1>2, <2>1
  <2>3. (kept = same /\ same # NoLoop) \/ (kept = turn /\ turn # NoLoop) \/ kept = n
    BY <1>2, <2>1
  <2>4. CASE kept = same /\ same # NoLoop
    <3>1. kept \in 1 .. n /\ \A i \in kept + 1 .. n : ids[i] = ids[i - 1]
      BY <1>4, <2>2, <2>4
    <3>2. 1 \in 1 .. kept
      BY <3>1
    <3>3. QED
      BY <3>1, <3>2 DEF OnlyCopiesCut
  <2>5. CASE kept = turn /\ turn # NoLoop
    BY <1>5, <2>5 DEF OnlyCopiesCut
  <2>6. CASE kept = n
    BY <1>1, <2>2, <2>6 DEF OnlyCopiesCut
  <2>7. QED
    BY <2>3, <2>4, <2>5, <2>6
<1>12. QED
  BY <1>3, <1>10, <1>11 DEF kept

\* Whatever the output and the configuration, a generation is stopped exactly when
\* its end repeats itself, and only copies of what it keeps are cut.
THEOREM LoopFoundHolds == Spec => []LoopFound
<1> DEFINE V == Letters \cup {Newline, Blank}
           Input == input.kind = "loop" =>
                      /\ input.ids \in Seq(V) /\ input.decodes \in BOOLEAN
                      /\ LoopTyped(input.cfg)
<1>1. ASSUME NEW ids \in Seq(V), NEW decodes \in BOOLEAN, NEW cfg, LoopTyped(cfg)
      PROVE  LET n == Len(ids)
                 req == [ids |-> ids, reason |-> "none", kept |-> n]
                 new == UpdateFinishState(req, decodes, cfg)
             IN  /\ new.reason = "repetition" <=>
                      cfg.abort > 0 /\ n > 0 /\ Repeats(ids, decodes, cfg)
                 /\ n > 0 => new.kept \in 1 .. n
                 /\ OnlyCopiesCut(ids, new.kept)
                 /\ \A r \in {"stop", "length"} :
                      UpdateFinishState([req EXCEPT !.reason = r], decodes, cfg).reason = r
  <2> DEFINE n == Len(ids)
             req == [ids |-> ids, reason |-> "none", kept |-> n]
             new == UpdateFinishState(req, decodes, cfg)
             kept == DetectRepetition(ids, decodes /\ cfg.line_repeats > 0, cfg)
  <2>1. /\ LoopEnabled(cfg) /\ kept # NoLoop <=>
             cfg.abort > 0 /\ n > 0 /\ Repeats(ids, decodes, cfg)
        /\ kept # NoLoop => kept \in 1 .. n /\ OnlyCopiesCut(ids, kept)
    BY <1>1, LoopDetected
  <2>2. \A r \in {"stop", "length"} :
           UpdateFinishState([req EXCEPT !.reason = r], decodes, cfg).reason = r
    BY DEF UpdateFinishState
  <2>3. OnlyCopiesCut(ids, n)
    BY DEF OnlyCopiesCut
  <2>4. n \in Nat
    OBVIOUS
  <2> HIDE DEF kept, n
  <2>5. /\ new.reason = IF LoopEnabled(cfg) /\ kept # NoLoop THEN "repetition" ELSE "none"
        /\ new.kept = IF LoopEnabled(cfg) /\ kept # NoLoop THEN kept ELSE n
    BY DEF UpdateFinishState, kept
  <2> HIDE DEF new, req
  <2>6. /\ new.reason = "repetition" <=>
             cfg.abort > 0 /\ n > 0 /\ Repeats(ids, decodes, cfg)
        /\ n > 0 => new.kept \in 1 .. n
        /\ OnlyCopiesCut(ids, new.kept)
    BY <2>1, <2>3, <2>4, <2>5
  <2>7. QED
    BY <2>2, <2>6 DEF new, req, n
<1>2. Input => LoopFound
  <2>1. SUFFICES ASSUME Input, input.kind = "loop" PROVE LoopFound
    BY DEF LoopFound
  <2> DEFINE ids == input.ids
             cfg == input.cfg
             decodes == input.decodes
             req == [ids |-> ids, reason |-> "none", kept |-> Len(ids)]
             new == UpdateFinishState(req, decodes, cfg)
  <2>2. ids \in Seq(V) /\ decodes \in BOOLEAN /\ LoopTyped(cfg)
    BY <2>1
  <2> HIDE DEF ids, cfg, decodes
  <2>3. /\ new.reason = "repetition" <=>
             cfg.abort > 0 /\ Len(ids) > 0 /\ Repeats(ids, decodes, cfg)
        /\ Len(ids) > 0 => new.kept \in 1 .. Len(ids)
        /\ OnlyCopiesCut(ids, new.kept)
        /\ \A r \in {"stop", "length"} :
             UpdateFinishState([req EXCEPT !.reason = r], decodes, cfg).reason = r
    BY <1>1, <2>2
  <2> HIDE DEF new, req
  <2>4. QED
    BY <2>1, <2>3 DEF LoopFound, Repeats, OnlyCopiesCut, new, req, ids, cfg, decodes
<1>3. Init => Input
  <2>1. Init => LoopInput \/ input.kind # "loop"
    BY DEF Init, AlgorithmInput, VerifyInput, IndexerInput, PadInput, ScaleInput, ChatInput
  <2>2. LoopInput => Input
    <3>1. ASSUME NEW n \in 0 .. MaxOutput, NEW ids \in [1 .. n -> V]
          PROVE  ids \in Seq(V)
      BY <3>1, RulesAssumption
    <3>2. ASSUME NEW raw \in LoopConfigs PROVE LoopTyped(LoopConfig(raw))
      BY RulesAssumption DEF LoopConfig, LoopTyped
    <3> HIDE DEF V
    <3>3. QED
      BY <3>1, <3>2 DEF LoopInput, V
  <2>3. QED
    BY <2>1, <2>2
<1>4. Input /\ [Next]_<<layout, input, prepareVars>> => Input'
  BY DEF Next
<1>5. QED
  BY <1>2, <1>3, <1>4, PTL DEF Spec

-----------------------------------------------------------------------------
(* The indexer in row chunks (module IndexerChunked).                       *)

\* The sums are defined: the next is the one before and an entry.
LEMMA SumStep ==
  ASSUME NEW s \in Seq(Nat)
  PROVE  /\ Before(s, 0) = 0
         /\ \A i \in 1 .. Len(s) : Before(s, i) = Before(s, i - 1) + s[i]
<1> DEFINE N == Len(s)
           Sum(h, n) == h = [i \in 0 .. n |-> IF i = 0 THEN 0 ELSE h[i - 1] + s[i]]
           Bad == {n \in 0 .. N : ~\E h : Sum(h, n)}
           sum == CHOOSE h : Sum(h, N)
<1>0. N \in Nat
  OBVIOUS
<1> HIDE DEF N
<1>1. Bad = {}
  <2>1. SUFFICES ASSUME Bad # {} PROVE FALSE
    OBVIOUS
  <2>2. PICK n \in Bad : \A m \in Bad : n <= m
    <3>1. Bad \in SUBSET Nat
      BY <1>0
    <3> HIDE DEF Bad
    <3>2. QED
      BY <2>1, <3>1, LeastNumber
  <2>3. n \in 0 .. N /\ ~\E h : Sum(h, n)
    BY <2>2
  <2>4. n # 0
    <3>1. Sum([i \in 0 .. 0 |-> 0], 0)
      OBVIOUS
    <3> HIDE DEF Sum
    <3>2. QED
      BY <2>3, <3>1
  <2>5. PICK h : Sum(h, n - 1)
    <3>1. n - 1 \in 0 .. N /\ n - 1 < n
      BY <1>0, <2>3, <2>4
    <3>2. ~(\E h : Sum(h, n - 1)) => n - 1 \in Bad
      BY <3>1
    <3> HIDE DEF Bad
    <3>3. n - 1 \notin Bad
      BY <2>2, <2>3, <3>1
    <3>4. QED
      BY <3>2, <3>3
  <2> DEFINE g == [i \in 0 .. n |-> IF i = n THEN h[n - 1] + s[n] ELSE h[i]]
  <2>6. Sum(g, n)
    <3>1. ASSUME NEW i \in 0 .. n
          PROVE  g[i] = IF i = 0 THEN 0 ELSE g[i - 1] + s[i]
      <4>1. n - 1 \in 0 .. n - 1 /\ (i # n => i \in 0 .. n - 1) /\ (i # 0 => i - 1 \in 0 .. n - 1)
        BY <1>0, <2>3, <2>4
      <4>2. i # 0 => g[i - 1] = h[i - 1]
        BY <1>0, <2>3, <4>1
      <4>3. i # n => h[i] = IF i = 0 THEN 0 ELSE h[i - 1] + s[i]
        BY <2>5, <4>1
      <4>4. g[i] = IF i = n THEN h[n - 1] + s[n] ELSE h[i]
        OBVIOUS
      <4> HIDE DEF g
      <4>5. QED
        BY <2>4, <4>2, <4>3, <4>4
    <3>2. DOMAIN g = 0 .. n /\ g = [i \in 0 .. n |-> g[i]]
      OBVIOUS
    <3> HIDE DEF g
    <3>3. QED
      BY <3>1, <3>2
  <2>7. QED
    BY <2>3, <2>6
<1>2. \E h : Sum(h, N)
  <2>1. N \in 0 .. N
    BY <1>0
  <2>2. ~(\E h : Sum(h, N)) => N \in Bad
    BY <2>1
  <2> HIDE DEF Bad
  <2>3. QED
    BY <1>1, <2>2
<1>3. Sum(sum, N)
  BY Zenon, <1>2
<1>4. \A n : Before(s, n) = sum[n]
  BY Zenon DEF Before, N
<1> HIDE DEF sum
<1>5. sum[0] = 0 /\ \A i \in 1 .. N : sum[i] = sum[i - 1] + s[i]
  BY <1>0, <1>3
<1>6. QED
  BY <1>4, <1>5 DEF N

\* Places in a sequence that another one follows.
LEMMA Shifted ==
  ASSUME NEW a \in Nat, NEW b \in Nat
  PROVE  /\ \A k \in 1 .. b : a + k \in 1 .. a + b /\ ~(a + k <= a) /\ (a + k) - a = k
         /\ \A k \in 1 .. a : k \in 1 .. a + b /\ k <= a
  OBVIOUS

\* The keys of the requests one after the other: those of a request lie from its
\* start on.
LEMMA SlotsInOrder ==
  ASSUME NEW seq \in Seq(Nat), NEW b \in 1 .. Len(seq), NEW j \in 0 .. Keys(seq, b) - 1
  PROVE  KSlots(seq)[Start(seq, b) + j + 1] = <<b, j>>
<1> DEFINE N == Len(seq)
           keys == [r \in DOMAIN seq |-> Keys(seq, r)]
           Part(i) == [k \in 1 .. Keys(seq, i) |-> <<i, k - 1>>]
           Slots(h, n) == h = [i \in 0 .. n |-> IF i = 0 THEN <<>> ELSE h[i - 1] \o Part(i)]
           Bad == {n \in 0 .. N : ~\E h : Slots(h, n)}
           slots == CHOOSE h : Slots(h, N)
<1>0. /\ N \in Nat /\ keys \in Seq(Nat) /\ Len(keys) = N
      /\ \A i \in 1 .. N : Keys(seq, i) \in Nat /\ keys[i] = Keys(seq, i)
  <2>1. \A i \in 1 .. N : Keys(seq, i) \in Nat
    <3>1. ASSUME NEW i \in 1 .. N PROVE Keys(seq, i) \in Nat
      <4>1. seq[i] \in Nat
        OBVIOUS
      <4>2. QED
        BY <4>1, IndexerAssumption, DivBounds DEF Keys
    <3>2. QED
      BY <3>1
  <2>2. DOMAIN seq = 1 .. N /\ N \in Nat
    OBVIOUS
  <2>3. keys \in [1 .. N -> Nat] /\ \A i \in 1 .. N : keys[i] = Keys(seq, i)
    BY <2>1, <2>2
  <2> HIDE DEF keys, N
  <2>4. QED
    BY <2>1, <2>2, <2>3
<1> HIDE DEF keys
<1>1. Bad = {}
  <2> HIDE DEF N, Part
  <2>1. SUFFICES ASSUME Bad # {} PROVE FALSE
    OBVIOUS
  <2>2. PICK n \in Bad : \A m \in Bad : n <= m
    <3>1. Bad \in SUBSET Nat
      BY <1>0
    <3> HIDE DEF Bad
    <3>2. QED
      BY <2>1, <3>1, LeastNumber
  <2>3. n \in 0 .. N /\ ~\E h : Slots(h, n)
    BY <2>2
  <2>4. n # 0
    <3>1. Slots([i \in 0 .. 0 |-> <<>>], 0)
      OBVIOUS
    <3> HIDE DEF Slots
    <3>2. QED
      BY <2>3, <3>1
  <2>5. PICK h : Slots(h, n - 1)
    <3>1. n - 1 \in 0 .. N /\ n - 1 < n
      BY <1>0, <2>3, <2>4
    <3>2. ~(\E h : Slots(h, n - 1)) => n - 1 \in Bad
      BY <3>1
    <3> HIDE DEF Bad
    <3>3. n - 1 \notin Bad
      BY <2>2, <2>3, <3>1
    <3>4. QED
      BY <3>2, <3>3
  <2> DEFINE g == [i \in 0 .. n |-> IF i = n THEN h[n - 1] \o Part(n) ELSE h[i]]
  <2>6. Slots(g, n)
    <3>1. ASSUME NEW i \in 0 .. n
          PROVE  g[i] = IF i = 0 THEN <<>> ELSE g[i - 1] \o Part(i)
      <4>1. n - 1 \in 0 .. n - 1 /\ (i # n => i \in 0 .. n - 1) /\ (i # 0 => i - 1 \in 0 .. n - 1)
        BY <1>0, <2>3, <2>4
      <4>2. i # 0 => g[i - 1] = h[i - 1]
        BY <1>0, <2>3, <4>1
      <4>3. i # n => h[i] = IF i = 0 THEN <<>> ELSE h[i - 1] \o Part(i)
        BY <2>5, <4>1
      <4>4. g[i] = IF i = n THEN h[n - 1] \o Part(n) ELSE h[i]
        OBVIOUS
      <4> HIDE DEF g
      <4>5. QED
        BY <2>4, <4>2, <4>3, <4>4
    <3>2. DOMAIN g = 0 .. n /\ g = [i \in 0 .. n |-> g[i]]
      OBVIOUS
    <3> HIDE DEF g
    <3>3. QED
      BY <3>1, <3>2
  <2>7. QED
    BY <2>3, <2>6
<1>2. \E h : Slots(h, N)
  <2>1. N \in 0 .. N
    BY <1>0
  <2>2. ~(\E h : Slots(h, N)) => N \in Bad
    BY <2>1
  <2> HIDE DEF Bad
  <2>3. QED
    BY <1>1, <2>2
<1>3. Slots(slots, N)
  BY Zenon, <1>2
<1>4. KSlots(seq) = slots[N]
  BY Zenon DEF KSlots
<1> HIDE DEF slots
<1>5. slots[0] = <<>> /\ \A i \in 1 .. N : slots[i] = slots[i - 1] \o Part(i)
  <2> HIDE DEF N, Part
  <2>1. \A i \in 0 .. N : slots[i] = IF i = 0 THEN <<>> ELSE slots[i - 1] \o Part(i)
    BY <1>3
  <2> HIDE DEF Slots
  <2>2. slots[0] = <<>>
    BY <1>0, <2>1
  <2>3. ASSUME NEW i \in 1 .. N PROVE slots[i] = slots[i - 1] \o Part(i)
    <3>1. i \in 0 .. N /\ i # 0
      BY <1>0, <2>3
    <3>2. QED
      BY Zenon, <2>1, <3>1
  <2>4. QED
    BY Zenon, <2>2, <2>3
<1>6. \A i \in 1 .. N : /\ Part(i) \in Seq(Nat \X Nat) /\ Len(Part(i)) = keys[i]
                        /\ \A k \in 1 .. keys[i] : Part(i)[k] = <<i, k - 1>>
  <2>1. ASSUME NEW i \in 1 .. N
        PROVE  /\ Part(i) \in Seq(Nat \X Nat) /\ Len(Part(i)) = keys[i]
               /\ \A k \in 1 .. keys[i] : Part(i)[k] = <<i, k - 1>>
    <3>1. Keys(seq, i) \in Nat /\ keys[i] = Keys(seq, i) /\ i \in Nat
      BY <1>0, <2>1
    <3>2. \A k \in 1 .. Keys(seq, i) : <<i, k - 1>> \in Nat \X Nat
      BY <3>1
    <3>3. Part(i) \in [1 .. Keys(seq, i) -> Nat \X Nat]
      BY <3>2
    <3>4. \A k \in 1 .. Keys(seq, i) : Part(i)[k] = <<i, k - 1>>
      OBVIOUS
    <3> HIDE DEF Part
    <3>5. Part(i) \in Seq(Nat \X Nat) /\ Len(Part(i)) = Keys(seq, i)
      BY <3>1, <3>3
    <3>6. QED
      BY Zenon, <3>1, <3>4, <3>5
  <2>2. QED
    BY <2>1
<1>7. Before(keys, 0) = 0 /\ \A i \in 1 .. N : Before(keys, i) = Before(keys, i - 1) + keys[i]
  BY <1>0, SumStep
<1> DEFINE At(a, k) == Before(keys, a - 1) + k
           Laid(i) == /\ slots[i] \in Seq(Nat \X Nat) /\ Len(slots[i]) = Before(keys, i)
                      /\ \A a \in 1 .. i : \A k \in 1 .. keys[a] :
                           At(a, k) \in 1 .. Len(slots[i]) /\ slots[i][At(a, k)] = <<a, k - 1>>
<1> HIDE DEF Part, N
<1>8. Laid(0)
  BY <1>5, <1>7
<1>9. ASSUME NEW i \in 1 .. N, Laid(i - 1) PROVE Laid(i)
  <2> DEFINE old == slots[i - 1]
  <2>1. /\ old \in Seq(Nat \X Nat) /\ Len(old) = Before(keys, i - 1) /\ Len(old) \in Nat
    BY <1>9
  <2>2. /\ Part(i) \in Seq(Nat \X Nat) /\ Len(Part(i)) = keys[i] /\ keys[i] \in Nat
        /\ \A k \in 1 .. keys[i] : Part(i)[k] = <<i, k - 1>>
    BY <1>0, <1>6, <1>9
  <2>3. slots[i] = old \o Part(i)
    BY <1>5
  <2> HIDE DEF old
  <2>4. /\ slots[i] \in Seq(Nat \X Nat) /\ Len(slots[i]) = Len(old) + keys[i]
        /\ \A k \in 1 .. Len(old) : slots[i][k] = old[k]
        /\ \A k \in 1 .. keys[i] : slots[i][Len(old) + k] = Part(i)[k]
    <3>1. /\ old \o Part(i) \in Seq(Nat \X Nat)
          /\ Len(old \o Part(i)) = Len(old) + Len(Part(i))
          /\ \A k \in 1 .. Len(old) + Len(Part(i)) :
               (old \o Part(i))[k] = IF k <= Len(old) THEN old[k] ELSE Part(i)[k - Len(old)]
      BY <2>1, <2>2, ConcatProperties
    <3>2. /\ \A k \in 1 .. keys[i] : /\ Len(old) + k \in 1 .. Len(old) + keys[i]
                                     /\ ~(Len(old) + k <= Len(old))
                                     /\ (Len(old) + k) - Len(old) = k
          /\ \A k \in 1 .. Len(old) : k \in 1 .. Len(old) + keys[i] /\ k <= Len(old)
      BY <2>1, <2>2, Shifted
    <3>3. Len(Part(i)) = keys[i]
      BY <2>2
    <3>4. ASSUME NEW k \in 1 .. Len(old) PROVE slots[i][k] = old[k]
      BY Zenon, <2>3, <3>1, <3>2, <3>3
    <3>5. ASSUME NEW k \in 1 .. keys[i] PROVE slots[i][Len(old) + k] = Part(i)[k]
      <4>1. slots[i][Len(old) + k] = Part(i)[(Len(old) + k) - Len(old)]
        BY Zenon, <2>3, <3>1, <3>2, <3>3
      <4>2. QED
        BY Zenon, <3>2, <4>1
    <3>6. QED
      BY Zenon, <2>3, <3>1, <3>3, <3>4, <3>5
  <2>5. Before(keys, i) = Len(old) + keys[i]
    BY <1>7, <1>9, <2>1
  <2>6. ASSUME NEW a \in 1 .. i, NEW k \in 1 .. keys[a]
        PROVE  At(a, k) \in 1 .. Len(slots[i]) /\ slots[i][At(a, k)] = <<a, k - 1>>
    <3>1. CASE a = i
      <4>1. At(a, k) = Len(old) + k /\ k \in 1 .. keys[i]
        BY <2>1, <2>6, <3>1
      <4> HIDE DEF At
      <4>2. slots[i][At(a, k)] = <<a, k - 1>>
        BY <2>2, <2>4, <3>1, <4>1
      <4>3. Len(old) + k \in 1 .. Len(old) + keys[i]
        BY <2>1, <2>2, <4>1, Shifted
      <4>4. At(a, k) \in 1 .. Len(slots[i])
        BY Zenon, <2>4, <4>1, <4>3
      <4>5. QED
        BY <4>2, <4>4
    <3>2. CASE a # i
      <4>1. a \in 1 .. i - 1
        BY <1>0, <1>9, <2>6, <3>2
      <4>2. At(a, k) \in 1 .. Len(old) /\ old[At(a, k)] = <<a, k - 1>>
        BY <1>9, <2>6, <4>1 DEF old
      <4> HIDE DEF At
      <4>3. slots[i][At(a, k)] = <<a, k - 1>>
        BY <2>4, <4>2
      <4>4. At(a, k) \in 1 .. Len(slots[i])
        BY <2>1, <2>2, <2>4, <4>2, Shifted
      <4>5. QED
        BY <4>3, <4>4
    <3>3. QED
      BY <3>1, <3>2
  <2> HIDE DEF At
  <2>7. QED
    BY <2>4, <2>5, <2>6
<1>10. \A i \in 0 .. N : Laid(i)
  <2> HIDE DEF Laid
  <2> DEFINE Late == {i \in 0 .. N : ~Laid(i)}
  <2>1. SUFFICES ASSUME Late # {} PROVE FALSE
    OBVIOUS
  <2>2. PICK i \in Late : \A k \in Late : i <= k
    <3>1. Late \in SUBSET Nat
      BY <1>0
    <3> HIDE DEF Late
    <3>2. QED
      BY <2>1, <3>1, LeastNumber
  <2>3. i # 0 /\ i \in 1 .. N
    BY <1>0, <1>8, <2>2
  <2>4. i - 1 \in 0 .. N /\ i - 1 \notin Late
    BY <1>0, <2>2, <2>3
  <2>5. QED
    BY <1>9, <2>2, <2>3, <2>4
<1>11. Start(seq, b) = Before(keys, b - 1)
  BY DEF Start, keys
<1>12. b \in 1 .. N /\ b - 1 \in 0 .. N /\ N \in 0 .. N /\ j + 1 \in 1 .. keys[b]
  BY <1>0 DEF N
<1>13. Start(seq, b) \in Nat
  <2>1. slots[b - 1] \in Seq(Nat \X Nat) /\ Len(slots[b - 1]) = Before(keys, b - 1)
    BY <1>10, <1>12
  <2>2. QED
    BY <1>11, <2>1
<1>14. slots[N][Before(keys, b - 1) + (j + 1)] = <<b, j + 1 - 1>>
  <2>1. Laid(N)
    BY <1>10, <1>12
  <2>2. QED
    BY <1>12, <2>1
<1>15. Before(keys, b - 1) + (j + 1) = Start(seq, b) + j + 1 /\ j + 1 - 1 = j
  BY <1>11, <1>13
<1>16. QED
  BY <1>4, <1>14, <1>15

\* A request of a batch that has keys.
Request(seq, q, b, budget, tail) ==
  /\ seq \in Seq(Nat) /\ b \in 1 .. Len(seq) /\ q[b] \in 0 .. seq[b]
  /\ tail = <<>> \/ tail[b] \in Nat
  /\ budget \in Nat /\ Keys(seq, b) > 0

\* The numbers of a request are naturals, and it has keys.
LEMMA RequestTyped ==
  ASSUME NEW seq, NEW q, NEW b, NEW budget, NEW tail, Request(seq, q, b, budget, tail)
  PROVE  q[b] \in Nat /\ seq[b] \in Nat /\ budget \in Nat /\ Keys(seq, b) \in Nat \ {0}
<1>1. seq[b] \in Nat /\ budget \in Nat /\ q[b] \in Nat /\ Keys(seq, b) > 0
  BY DEF Request
<1>2. Keys(seq, b) \in Nat
  BY <1>1, IndexerAssumption, DivBounds DEF Keys
<1>3. QED
  BY <1>1, <1>2

\* The keys before a token with n tokens up to and with it.
Ready(seq, b, n) == {j \in 0 .. Keys(seq, b) - 1 : (j + 1) * CompressRatio <= n}

\* Row t is offered the allowed ones of the keys of its own request before it.
OwnKeys(seq, q, b, t, allowed) ==
  PageKeys(seq, q, b, t, allowed) =
    {<<b, j>> : j \in {j \in Ready(seq, b, seq[b] - q[b] + t + 1) : j \in allowed}}

\* Every row is in one chunk; the chunks are within the budget or one row long.
RowsOnce(seq, q, b, budget) ==
  LET chunks == Chunks(seq, q, b, budget)
  IN  /\ \A t \in 0 .. q[b] - 1 : Cardinality({c \in chunks : c.c0 <= t /\ t < c.c1}) = 1
      /\ \A c \in chunks :
           c.c1 - c.c0 = 1 \/ (c.c1 - c.c0) * Aligned(Keys(seq, b)) * 4 <= budget

\* What the chunks of a request publish.
AllPublished(seq, q, b, budget, tail) ==
  UNION {Published(c, FirstPub(q, b, tail)) : c \in Chunks(seq, q, b, budget)}

\* A mask is published of each row of the tail, from that very row.
TailMasks(seq, q, b, budget, tail) ==
  LET pub == PubRows(q, b, tail)
  IN  AllPublished(seq, q, b, budget, tail) =
        {[row |-> k, of |-> q[b] - pub + k] : k \in 0 .. pub - 1}

\* The pages offered to a row hold its own keys.
LEMMA KeysOffered ==
  ASSUME NEW seq, NEW q, NEW b, NEW budget, NEW tail, Request(seq, q, b, budget, tail),
         NEW t \in 0 .. q[b] - 1, NEW allowed
  PROVE  OwnKeys(seq, q, b, t, allowed)
<1> DEFINE n == seq[b] - q[b] + t + 1
           lens == Lens(seq, q, b, t)
           ready == Ready(seq, b, n)
<1>0. seq \in Seq(Nat) /\ b \in 1 .. Len(seq) /\ q[b] \in 0 .. seq[b]
  BY DEF Request
<1>1. seq[b] \in Nat /\ n \in Nat /\ n <= seq[b] /\ CompressRatio \in Nat \ {0}
  BY <1>0, IndexerAssumption
<1>2. lens = n \div CompressRatio /\ Keys(seq, b) = seq[b] \div CompressRatio
  BY DEF Lens, Keys
<1> HIDE DEF n, lens
<1>3. lens \in Nat /\ Keys(seq, b) \in Nat /\ lens <= Keys(seq, b)
  <2> DEFINE k == Keys(seq, b)
  <2>1. lens \in Nat /\ k \in Nat /\ seq[b] < CompressRatio * k + CompressRatio
    BY <1>1, <1>2, DivBounds
  <2>2. CompressRatio * (k + 1) = CompressRatio * k + CompressRatio
    BY <1>1, <2>1
  <2> HIDE DEF k
  <2>3. n < CompressRatio * (k + 1)
    BY <1>1, <2>1, <2>2
  <2>4. QED
    BY <1>1, <1>2, <2>1, <2>3, DivCompare DEF k
<1>4. ASSUME NEW j \in Nat
      PROVE  j < lens <=> (j + 1) * CompressRatio <= n
  <2>1. lens > j <=> n >= CompressRatio * (j + 1)
    BY <1>1, <1>2, DivCompare
  <2>2. CompressRatio * (j + 1) = (j + 1) * CompressRatio /\ (j + 1) * CompressRatio \in Nat
    BY <1>1
  <2>3. QED
    BY <1>1, <1>3, <2>1, <2>2
<1>5. 0 .. lens - 1 = ready
  <2>1. ASSUME NEW j \in 0 .. lens - 1 PROVE j \in ready
    BY <1>3, <1>4, <2>1 DEF Ready
  <2>2. ASSUME NEW j \in ready PROVE j \in 0 .. lens - 1
    BY <1>3, <1>4, <2>2 DEF Ready
  <2>3. QED
    BY <2>1, <2>2
<1>6. \A j \in 0 .. lens - 1 : KSlots(seq)[Start(seq, b) + j + 1] = <<b, j>>
  <2>1. \A j \in 0 .. lens - 1 : j \in 0 .. Keys(seq, b) - 1
    BY <1>3
  <2>2. QED
    BY <1>0, <2>1, SlotsInOrder
<1> HIDE DEF ready
<1>7. PageKeys(seq, q, b, t, allowed) = {<<b, j>> : j \in {j \in 0 .. lens - 1 : j \in allowed}}
  BY <1>6 DEF PageKeys, lens
<1>8. QED
  BY <1>5, <1>7 DEF OwnKeys, ready, n

\* The bounds of a remainder.
LEMMA ModBounds ==
  ASSUME NEW a \in Nat, NEW b \in Nat \ {0}
  PROVE  a % b \in Nat /\ a = b * (a \div b) + (a % b)
  OBVIOUS

\* Multiples leave no remainder, and only they.
LEMMA Multiple ==
  ASSUME NEW k \in Nat, NEW n \in Nat \ {0}
  PROVE  (n * k) \div n = k /\ (n * k) % n = 0
<1> DEFINE c == n * k
           m == c \div n
           r == c % n
<1>1. c \in Nat
  OBVIOUS
<1>2. m \in Nat /\ r \in Nat /\ c = n * m + r /\ r < n
  <2> HIDE DEF c
  <2>1. QED
    BY <1>1, DivBounds, ModBounds
<1> HIDE DEF m, r
<1>3. m = k
  <2>1. n * (k + 1) = n * k + n /\ n * (m + 1) = n * m + n
    BY <1>2
  <2>2. ~(k + 1 <= m) /\ ~(m + 1 <= k)
    <3>1. k + 1 <= m => n * (k + 1) <= n * m
      BY <1>2, MulMonotone
    <3>2. m + 1 <= k => n * (m + 1) <= n * k
      BY <1>2, MulMonotone
    <3>3. n * m \in Nat /\ n * k \in Nat
      BY <1>2
    <3>4. QED
      BY <1>2, <2>1, <3>1, <3>2, <3>3
  <2>3. QED
    BY <1>2, <2>2
<1>4. n * m = n * k
  BY <1>3
<1>5. r = 0
  <2>1. n * k \in Nat
    BY <1>1
  <2>2. QED
    BY <1>2, <1>4, <2>1
<1>6. QED
  BY <1>3, <1>5 DEF m, r

\* Of the multiples of n exactly one is the last not above a number.
LEMMA LastMultiple ==
  ASSUME NEW t \in Nat, NEW n \in Nat \ {0}
  PROVE  \E c \in 0 .. t : /\ c % n = 0 /\ t < c + n
                           /\ \A d \in 0 .. t : d % n = 0 /\ t < d + n => d = c
<1> DEFINE k == t \div n
           c == n * k
<1>1. k \in Nat /\ c <= t /\ t < c + n /\ c \in Nat
  BY DivBounds
<1> HIDE DEF k
<1>2. ASSUME NEW d \in 0 .. t, t < d + n, d % n = 0 PROVE d = c
  <2> DEFINE m == d \div n
  <2>1. m \in Nat /\ d = n * m
    BY <1>2, DivBounds, ModBounds
  <2> HIDE DEF m
  <2>2. m = k
    <3>1. n * (k + 1) = c + n /\ n * (m + 1) = n * m + n /\ k + 1 \in Nat /\ m + 1 \in Nat
      BY <1>1, <2>1
    <3> HIDE DEF c
    <3>2. n * m < n * (k + 1) /\ n * k < n * (m + 1)
      BY <1>1, <1>2, <2>1, <3>1 DEF c
    <3>3. ~(k + 1 <= m) /\ ~(m + 1 <= k)
      <4>1. k + 1 <= m => n * (k + 1) <= n * m
        BY <1>1, <2>1, MulMonotone
      <4>2. m + 1 <= k => n * (m + 1) <= n * k
        BY <1>1, <2>1, MulMonotone
      <4>3. n * m \in Nat /\ n * k \in Nat /\ n * (k + 1) \in Nat /\ n * (m + 1) \in Nat
        BY <1>1, <2>1
      <4>4. QED
        BY <3>2, <4>1, <4>2, <4>3
    <3>4. QED
      BY <1>1, <2>1, <3>3
  <2>3. QED
    BY <2>1, <2>2
<1>3. c % n = 0
  BY <1>1, Multiple
<1> HIDE DEF c
<1>4. c \in 0 .. t
  BY <1>1
<1>5. QED
  BY <1>1, <1>2, <1>3, <1>4

\* The chunk of m rows in steps of n that begins at row c.
ChunkAt(m, n, c) == [c0 |-> c, c1 |-> IF c + n <= m THEN c + n ELSE m]

\* The chunks of a request score each of its rows once, and no more rows than the
\* budget allows but for the one there must be.
LEMMA ChunksCover ==
  ASSUME NEW seq, NEW q, NEW b, NEW budget, NEW tail, Request(seq, q, b, budget, tail)
  PROVE  /\ \A t \in 0 .. q[b] - 1 :
              \E c \in Chunks(seq, q, b, budget) :
                 /\ c.c0 <= t /\ t < c.c1
                 /\ \A d \in Chunks(seq, q, b, budget) : d.c0 <= t /\ t < d.c1 => d = c
         /\ \A c \in Chunks(seq, q, b, budget) :
              /\ c.c0 \in Nat /\ c.c1 \in c.c0 + 1 .. q[b]
              /\ \/ c.c1 - c.c0 = 1
                 \/ (c.c1 - c.c0) * Aligned(Keys(seq, b)) * 4 <= budget
<1> DEFINE m == q[b]
           n == RowsPerChunk(Keys(seq, b), budget)
           chunks == Chunks(seq, q, b, budget)
           a == Aligned(Keys(seq, b))
<1>1. m \in Nat /\ budget \in Nat /\ Keys(seq, b) \in Nat \ {0}
  BY RequestTyped
<1>2. a \in Nat \ {0}
  <2> DEFINE k == Keys(seq, b)
             d == (k + 3) \div 4
  <2>1. a = d * 4
    BY DEF Aligned
  <2>2. k \in Nat /\ k + 3 \in Nat /\ k >= 1
    BY <1>1
  <2> HIDE DEF a, k
  <2>3. d \in Nat /\ k + 3 < 4 * d + 4
    BY <2>2, DivBounds
  <2> HIDE DEF d
  <2>4. QED
    BY <2>1, <2>2, <2>3
<1>3. n \in Nat \ {0} /\ (n = 1 \/ n * a * 4 <= budget)
  <2> DEFINE w == a * 4
             r == budget \div w
  <2>1. n = IF r >= 1 THEN r ELSE 1
    BY DEF RowsPerChunk
  <2> HIDE DEF a, n
  <2>2. w \in Nat \ {0}
    BY <1>2
  <2>3. r \in Nat /\ w * r <= budget
    BY <1>1, <2>2, DivBounds
  <2>4. r * a * 4 = w * r
    BY <1>2, <2>3
  <2> HIDE DEF r, w
  <2>5. QED
    BY <2>1, <2>3, <2>4
<1>4. chunks = {ChunkAt(m, n, c) : c \in {c \in 0 .. m - 1 : c % n = 0}}
  BY DEF Chunks, ChunkAt
<1> HIDE DEF m, n, chunks, a
<1>5. ASSUME NEW t \in 0 .. m - 1
      PROVE  \E c \in chunks : /\ c.c0 <= t /\ t < c.c1
                               /\ \A d \in chunks : d.c0 <= t /\ t < d.c1 => d = c
  <2>0. t \in Nat /\ n \in Nat \ {0}
    BY <1>1, <1>3, <1>5
  <2>1. PICK c \in 0 .. t : /\ c % n = 0 /\ t < c + n
                            /\ \A d \in 0 .. t : d % n = 0 /\ t < d + n => d = c
    BY Zenon, <2>0, LastMultiple
  <2>2. ChunkAt(m, n, c) \in chunks
    <3>1. c \in 0 .. m - 1
      BY <1>1
    <3>2. QED
      BY <1>4, <2>1, <3>1
  <2>3. ChunkAt(m, n, c).c0 <= t /\ t < ChunkAt(m, n, c).c1
    BY <1>1, <1>3, <2>1 DEF ChunkAt
  <2>4. ASSUME NEW d \in chunks, d.c0 <= t, t < d.c1 PROVE d = ChunkAt(m, n, c)
    <3>1. PICK e \in 0 .. m - 1 : e % n = 0 /\ d = ChunkAt(m, n, e)
      BY <1>4
    <3>2. d.c0 = e /\ d.c1 = IF e + n <= m THEN e + n ELSE m
      BY <3>1 DEF ChunkAt
    <3>3. e \in 0 .. t /\ t < e + n
      BY <1>1, <1>3, <2>4, <3>1, <3>2
    <3>4. e = c
      BY <2>1, <3>1, <3>3
    <3>5. QED
      BY <3>1, <3>4
  <2>5. QED
    BY <2>2, <2>3, <2>4
<1>6. ASSUME NEW c \in chunks
      PROVE  /\ c.c0 \in Nat /\ c.c1 \in c.c0 + 1 .. m
             /\ (c.c1 - c.c0 = 1 \/ (c.c1 - c.c0) * a * 4 <= budget)
  <2>1. PICK e \in 0 .. m - 1 : c = ChunkAt(m, n, e)
    BY <1>4
  <2>2. c.c0 = e /\ c.c1 = IF e + n <= m THEN e + n ELSE m
    BY <2>1 DEF ChunkAt
  <2>3. c.c0 \in Nat /\ c.c1 \in c.c0 + 1 .. m /\ c.c1 - c.c0 \in 1 .. n
    BY <1>1, <1>3, <2>2
  <2> DEFINE l == c.c1 - c.c0
  <2>4. l \in 1 .. n
    BY <2>3
  <2> HIDE DEF l
  <2>5. a * l <= a * n
    BY <1>2, <1>3, <2>4, MulMonotone
  <2>6. l * a * 4 <= n * a * 4
    <3>1. l * a = a * l /\ n * a = a * n /\ a * l \in Int /\ a * n \in Int
      BY <1>2, <1>3, <2>4
    <3>2. QED
      BY <2>5, <3>1
  <2>7. l = 1 \/ l * a * 4 <= budget
    <3>1. l * a * 4 \in Int /\ n * a * 4 \in Int
      BY <1>2, <1>3, <2>4
    <3>2. QED
      BY <1>1, <1>3, <2>4, <2>6, <3>1
  <2>8. QED
    BY <2>3, <2>7 DEF l
<1>7. QED
  BY <1>5, <1>6 DEF m, a, chunks

\* What is published are the masks of the tail.
LEMMA TailPublished ==
  ASSUME NEW seq, NEW q, NEW b, NEW budget, NEW tail, Request(seq, q, b, budget, tail)
  PROVE  TailMasks(seq, q, b, budget, tail)
<1> DEFINE m == q[b]
           pub == PubRows(q, b, tail)
           first == FirstPub(q, b, tail)
           chunks == Chunks(seq, q, b, budget)
           From(c) == IF c.c0 >= first THEN c.c0 ELSE first
           Row(k) == [row |-> k, of |-> first + k]
           Part(c) == {[row |-> From(c) - first + i, of |-> From(c) + i] :
                         i \in 0 .. c.c1 - From(c) - 1}
<1>1. m \in Nat /\ pub \in 0 .. m /\ first = m - pub
  <2>1. m \in Nat /\ (tail = <<>> \/ tail[b] \in Nat)
    BY RequestTyped DEF Request
  <2>2. QED
    BY <2>1 DEF PubRows, FirstPub
<1>2. /\ \A t \in 0 .. m - 1 : \E c \in chunks : c.c0 <= t /\ t < c.c1
      /\ \A c \in chunks : c.c0 \in Nat /\ c.c1 \in c.c0 + 1 .. m
  BY Zenon, ChunksCover
<1>3. AllPublished(seq, q, b, budget, tail) = UNION {Part(c) : c \in chunks}
  BY DEF AllPublished, Published
<1> HIDE DEF m, pub, first, chunks
<1>4. ASSUME NEW c \in chunks PROVE Part(c) \subseteq {Row(k) : k \in 0 .. pub - 1}
  <2>1. ASSUME NEW i \in 0 .. c.c1 - From(c) - 1
        PROVE  [row |-> From(c) - first + i, of |-> From(c) + i] \in {Row(k) : k \in 0 .. pub - 1}
    <3> DEFINE k == From(c) - first + i
    <3>1. k \in 0 .. pub - 1 /\ From(c) + i = first + k
      BY <1>1, <1>2, <1>4, <2>1
    <3> HIDE DEF k
    <3>2. [row |-> k, of |-> From(c) + i] = Row(k)
      BY <3>1
    <3>3. QED
      BY <3>1, <3>2 DEF k
  <2> HIDE DEF From, Row
  <2>2. QED
    BY <2>1
<1>5. ASSUME NEW k \in 0 .. pub - 1 PROVE \E c \in chunks : Row(k) \in Part(c)
  <2>1. first + k \in 0 .. m - 1
    BY <1>1, <1>5
  <2>2. PICK c \in chunks : c.c0 <= first + k /\ first + k < c.c1
    BY <1>2, <2>1
  <2> DEFINE i == first + k - From(c)
  <2>3. i \in 0 .. c.c1 - From(c) - 1 /\ From(c) - first + i = k /\ From(c) + i = first + k
    BY <1>1, <1>2, <1>5, <2>2
  <2> HIDE DEF i, From
  <2>4. QED
    BY <2>3
<1> HIDE DEF Part
<1>6. UNION {Part(c) : c \in chunks} = {Row(k) : k \in 0 .. pub - 1}
  <2> HIDE DEF Row
  <2>1. ASSUME NEW x \in UNION {Part(c) : c \in chunks}
        PROVE  x \in {Row(k) : k \in 0 .. pub - 1}
    BY <1>4, <2>1
  <2>2. ASSUME NEW x \in {Row(k) : k \in 0 .. pub - 1}
        PROVE  x \in UNION {Part(c) : c \in chunks}
    BY <1>5, <2>2
  <2>3. QED
    BY <2>1, <2>2
<1>7. {Row(k) : k \in 0 .. pub - 1} = {[row |-> k, of |-> m - pub + k] : k \in 0 .. pub - 1}
  BY <1>1
<1>8. QED
  BY Zenon, <1>3, <1>6, <1>7 DEF TailMasks, pub, m

\* The rows of the chunks are the request's rows, each beside its own mask row.
LEMMA RowsScored ==
  ASSUME NEW seq, NEW q, NEW b, NEW budget, NEW tail, Request(seq, q, b, budget, tail)
  PROVE  ScoreRows(seq, q, b, budget) = {[row |-> t, mask |-> t] : t \in 0 .. q[b] - 1}
<1> DEFINE m == q[b]
           chunks == Chunks(seq, q, b, budget)
           Row(t) == [row |-> t, mask |-> t]
           Part(c) == {[row |-> c.c0 + i, mask |-> MaskRow(c, i)] : i \in 0 .. c.c1 - c.c0 - 1}
<1>1. m \in Nat
  BY RequestTyped
<1>2. /\ \A t \in 0 .. m - 1 : \E c \in chunks : c.c0 <= t /\ t < c.c1
      /\ \A c \in chunks : c.c0 \in Nat /\ c.c1 \in c.c0 + 1 .. m
  BY Zenon, ChunksCover
<1>3. ScoreRows(seq, q, b, budget) = UNION {Part(c) : c \in chunks}
  BY DEF ScoreRows
<1> HIDE DEF m, chunks
<1>4. ASSUME NEW c \in chunks PROVE Part(c) \subseteq {Row(t) : t \in 0 .. m - 1}
  <2>1. ASSUME NEW i \in 0 .. c.c1 - c.c0 - 1
        PROVE  [row |-> c.c0 + i, mask |-> MaskRow(c, i)] \in {Row(t) : t \in 0 .. m - 1}
    BY <1>1, <1>2, <1>4, <2>1 DEF MaskRow
  <2> HIDE DEF Row
  <2>2. QED
    BY <2>1
<1>5. ASSUME NEW t \in 0 .. m - 1 PROVE \E c \in chunks : Row(t) \in Part(c)
  <2>1. PICK c \in chunks : c.c0 <= t /\ t < c.c1
    BY <1>2
  <2> DEFINE i == t - c.c0
  <2>2. i \in 0 .. c.c1 - c.c0 - 1 /\ c.c0 + i = t /\ MaskRow(c, i) = t
    BY <1>1, <1>2, <2>1 DEF MaskRow
  <2> HIDE DEF i
  <2>3. QED
    BY <2>2
<1> HIDE DEF Part, Row
<1>6. UNION {Part(c) : c \in chunks} = {Row(t) : t \in 0 .. m - 1}
  <2>1. ASSUME NEW x \in UNION {Part(c) : c \in chunks} PROVE x \in {Row(t) : t \in 0 .. m - 1}
    BY <1>4, <2>1
  <2>2. ASSUME NEW x \in {Row(t) : t \in 0 .. m - 1} PROVE x \in UNION {Part(c) : c \in chunks}
    BY <1>5, <2>2
  <2>3. QED
    BY <2>1, <2>2
<1>7. QED
  BY Zenon, <1>3, <1>6 DEF Row, m

\* What a request with keys selects: row by row, the allowed keys before it.
LEMMA RowsSelect ==
  ASSUME NEW seq, NEW q, NEW b, NEW budget, NEW tail, Request(seq, q, b, budget, tail),
         NEW consume
  PROVE  Selected(seq, q, b, budget, consume) =
           {[row |-> t, keys |->
              {<<b, j>> : j \in {j \in Ready(seq, b, seq[b] - q[b] + t + 1) :
                                   j \in Allowed(seq, b, consume, t)}}] : t \in 0 .. q[b] - 1}
<1> DEFINE Own(t) == {<<b, j>> : j \in {j \in Ready(seq, b, seq[b] - q[b] + t + 1) :
                                          j \in Allowed(seq, b, consume, t)}}
           Page(t, r) == PageKeys(seq, q, b, t, Allowed(seq, b, consume, r))
           rows == 0 .. q[b] - 1
<1>1. Keys(seq, b) # 0
  BY RequestTyped
<1>2. Selected(seq, q, b, budget, consume) =
        {[row |-> s.row, keys |-> Page(s.row, s.mask)] : s \in {[row |-> t, mask |-> t] : t \in rows}}
  BY <1>1, RowsScored DEF Selected
<1>3. \A t \in rows : Page(t, t) = Own(t)
  BY KeysOffered DEF OwnKeys
<1> HIDE DEF Own, Page, rows
<1>4. {[row |-> s.row, keys |-> Page(s.row, s.mask)] : s \in {[row |-> t, mask |-> t] : t \in rows}}
        = {[row |-> t, keys |-> Page(t, t)] : t \in rows}
  <2> DEFINE scored == {[row |-> t, mask |-> t] : t \in rows}
             Result(s) == [row |-> s.row, keys |-> Page(s.row, s.mask)]
             Paged(t) == [row |-> t, keys |-> Page(t, t)]
  <2>1. ASSUME NEW s \in scored PROVE \E t \in rows : Result(s) = Paged(t)
    <3>1. PICK t \in rows : s = [row |-> t, mask |-> t]
      OBVIOUS
    <3>2. s.row = t /\ s.mask = t
      BY <3>1
    <3>3. QED
      BY <3>2
  <2>2. ASSUME NEW t \in rows PROVE \E s \in scored : Result(s) = Paged(t)
    <3>1. PICK s \in scored : s = [row |-> t, mask |-> t]
      OBVIOUS
    <3>2. s.row = t /\ s.mask = t
      BY <3>1
    <3>3. QED
      BY <3>2
  <2>3. {Result(s) : s \in scored} = {Paged(t) : t \in rows}
    <3> HIDE DEF scored, Result, Paged
    <3>1. QED
      BY <2>1, <2>2
  <2>4. QED
    BY Zenon, <2>3
<1>5. {[row |-> t, keys |-> Page(t, t)] : t \in rows} = {[row |-> t, keys |-> Own(t)] : t \in rows}
  BY <1>3
<1>6. QED
  BY <1>2, <1>4, <1>5 DEF Own, rows

\* Every request of the batch has its own mask in the list.
LEMMA MasksListed ==
  ASSUME NEW seq, NEW q, NEW budget, NEW tail, NEW pick, seq \in Seq(Nat), Len(seq) = 2
  PROVE  CandidateMasks(seq, q, budget, tail, pick) =
           <<Mask(seq, q, 1, budget, tail, pick), Mask(seq, q, 2, budget, tail, pick)>>
<1> DEFINE M(b) == Mask(seq, q, b, budget, tail, pick)
           List(h) == h = [b \in 0 .. Len(seq) |-> IF b = 0 THEN <<>> ELSE Append(h[b - 1], M(b))]
           masks == CHOOSE h : List(h)
           three == [b \in 0 .. 2 |-> IF b = 0 THEN <<>> ELSE IF b = 1 THEN <<M(1)>> ELSE <<M(1), M(2)>>]
<1>1. CandidateMasks(seq, q, budget, tail, pick) = masks[Len(seq)]
  BY Zenon DEF CandidateMasks
<1> HIDE DEF M
<1>2. /\ three[0] = <<>> /\ three[1] = Append(three[0], M(1)) /\ three[2] = Append(three[1], M(2))
      /\ three = [b \in 0 .. 2 |-> three[b]] /\ three[2] = <<M(1), M(2)>>
  OBVIOUS
<1> HIDE DEF three
<1>3. List(three)
  <2>1. ASSUME NEW b \in 0 .. 2
        PROVE  three[b] = IF b = 0 THEN <<>> ELSE Append(three[b - 1], M(b))
    <3>1. CASE b = 0
      BY <1>2, <3>1
    <3>2. CASE b = 1
      <4>1. b # 0 /\ b - 1 = 0
        BY <3>2
      <4>2. QED
        BY Zenon, <1>2, <3>2, <4>1
    <3>3. CASE b = 2
      <4>1. b # 0 /\ b - 1 = 1
        BY <3>3
      <4>2. QED
        BY Zenon, <1>2, <3>3, <4>1
    <3>4. QED
      BY <3>1, <3>2, <3>3
  <2>2. QED
    BY <1>2, <2>1
<1>4. \E h : List(h)
  BY <1>3
<1>5. List(masks)
  BY Zenon, <1>4
<1> HIDE DEF masks
<1>6. masks[0] = <<>> /\ masks[1] = Append(masks[0], M(1)) /\ masks[2] = Append(masks[1], M(2))
  <2>1. \A b \in 0 .. 2 : masks[b] = IF b = 0 THEN <<>> ELSE Append(masks[b - 1], M(b))
    BY <1>5
  <2> HIDE DEF List
  <2>2. QED
    BY <2>1
<1>7. masks[2] = <<M(1), M(2)>>
  BY Zenon, <1>2, <1>6
<1>8. QED
  BY <1>1, <1>7 DEF M

\* The published mask holds, for each row of the tail, what was picked for it.
LEMMA MaskKept ==
  ASSUME NEW seq, NEW q, NEW b, NEW budget, NEW tail, Request(seq, q, b, budget, tail),
         NEW pick
  PROVE  \A r \in 0 .. PubRows(q, b, tail) - 1 :
           MaskKeys(Mask(seq, q, b, budget, tail, pick), r)
             = pick[b][q[b] - PubRows(q, b, tail) + r]
<1> SUFFICES ASSUME NEW r \in 0 .. PubRows(q, b, tail) - 1
             PROVE  MaskKeys(Mask(seq, q, b, budget, tail, pick), r)
                      = pick[b][q[b] - PubRows(q, b, tail) + r]
  OBVIOUS
<1> DEFINE pub == PubRows(q, b, tail)
           first == q[b] - pub
           mask == Mask(seq, q, b, budget, tail, pick)
           Picked(k) == pick[b][first + k]
           rows == 0 .. pub - 1
<1>1. q[b] \in Nat /\ pub \in 0 .. q[b] /\ Keys(seq, b) # 0
  <2>1. q[b] \in Nat /\ (tail = <<>> \/ tail[b] \in Nat) /\ Keys(seq, b) # 0
    BY RequestTyped DEF Request
  <2>2. QED
    BY <2>1 DEF PubRows
<1>2. q[b] # 0
  BY <1>1
<1>3. AllPublished(seq, q, b, budget, tail) = {[row |-> k, of |-> first + k] : k \in rows}
  BY TailPublished DEF TailMasks
<1>4. mask = {[row |-> w.row, keys |-> pick[b][w.of]] : w \in AllPublished(seq, q, b, budget, tail)}
  BY <1>1, <1>2 DEF Mask, AllPublished
<1> HIDE DEF mask, rows, first, pub
<1>5. mask = {[row |-> k, keys |-> Picked(k)] : k \in rows}
  <2> DEFINE writes == {[row |-> k, of |-> first + k] : k \in rows}
             Kept(w) == [row |-> w.row, keys |-> pick[b][w.of]]
  <2>1. ASSUME NEW w \in writes
        PROVE  \E k \in rows : Kept(w) = [row |-> k, keys |-> Picked(k)]
    <3>1. PICK k \in rows : w = [row |-> k, of |-> first + k]
      OBVIOUS
    <3>2. w.row = k /\ w.of = first + k
      BY <3>1
    <3>3. QED
      BY <3>2
  <2>2. ASSUME NEW k \in rows
        PROVE  \E w \in writes : Kept(w) = [row |-> k, keys |-> Picked(k)]
    <3>1. PICK w \in writes : w = [row |-> k, of |-> first + k]
      OBVIOUS
    <3>2. w.row = k /\ w.of = first + k
      BY <3>1
    <3>3. QED
      BY <3>2
  <2>3. mask = {Kept(w) : w \in writes}
    BY <1>3, <1>4
  <2> HIDE DEF writes, Kept, Picked
  <2>4. {Kept(w) : w \in writes} = {[row |-> k, keys |-> Picked(k)] : k \in rows}
    BY <2>1, <2>2
  <2>5. QED
    BY <2>3, <2>4
<1> HIDE DEF Picked
<1>6. r \in rows
  BY DEF rows, pub
<1>7. {w \in mask : w.row = r} = {[row |-> r, keys |-> Picked(r)]}
  BY <1>5, <1>6
<1>8. UNION {w.keys : w \in {w \in mask : w.row = r}} = Picked(r)
  <2>1. {w.keys : w \in {[row |-> r, keys |-> Picked(r)]}} = {Picked(r)}
    OBVIOUS
  <2>2. UNION {Picked(r)} = Picked(r)
    OBVIOUS
  <2>3. QED
    BY <1>7, <2>1, <2>2
<1>9. QED
  BY <1>8 DEF MaskKeys, Picked, mask, first, pub

\* A request of the batch, with or without keys.
AnyRequest(seq, q, b, budget, tail) ==
  /\ seq \in Seq(Nat) /\ Len(seq) = 2 /\ b \in 1 .. 2 /\ q[b] \in 0 .. seq[b]
  /\ tail = <<>> \/ tail[b] \in Nat
  /\ budget \in Nat

\* The keys a row selects in a layer without candidates and in one that consumes
\* those of the rows of the tail.
Plain(seq, q, b) ==
  {[row |-> t, keys |-> {<<b, j>> : j \in Ready(seq, b, seq[b] - q[b] + t + 1)}] :
     t \in 0 .. q[b] - 1}

Picky(seq, q, late, b, pick) ==
  {[row |-> r, keys |->
     {<<b, j>> : j \in {j \in Ready(seq, b, seq[b] - late[b] + r + 1) :
                          j \in pick[b][q[b] - late[b] + r]}}] : r \in 0 .. late[b] - 1}

LEMMA PlainSelected ==
  ASSUME NEW seq, NEW q, NEW b, NEW budget, NEW tail, AnyRequest(seq, q, b, budget, tail)
  PROVE  Selected(seq, q, b, budget, <<>>) = Plain(seq, q, b)
<1> DEFINE At(t) == seq[b] - q[b] + t + 1
           rows == 0 .. q[b] - 1
<1>0. Keys(seq, b) \in Nat
  <2>1. seq[b] \in Nat
    BY DEF AnyRequest
  <2>2. QED
    BY <2>1, IndexerAssumption, DivBounds DEF Keys
<1>1. CASE Keys(seq, b) = 0
  <2>1. \A t \in rows : {<<b, j>> : j \in Ready(seq, b, At(t))} = {}
    BY <1>1 DEF Ready
  <2> HIDE DEF At, rows
  <2>2. {[row |-> t, keys |-> {}] : t \in rows}
          = {[row |-> t, keys |-> {<<b, j>> : j \in Ready(seq, b, At(t))}] : t \in rows}
    BY <2>1
  <2>3. QED
    BY <1>1, <2>2 DEF Selected, Plain, At, rows
<1>2. CASE Keys(seq, b) > 0
  <2>1. Request(seq, q, b, budget, tail)
    BY <1>2 DEF Request, AnyRequest
  <2>2. Selected(seq, q, b, budget, <<>>) =
          {[row |-> t, keys |->
              {<<b, j>> : j \in {j \in Ready(seq, b, At(t)) : j \in Allowed(seq, b, <<>>, t)}}] :
             t \in rows}
    BY <2>1, RowsSelect
  <2>3. ASSUME NEW n
        PROVE  {j \in Ready(seq, b, n) : j \in 0 .. Keys(seq, b) - 1} = Ready(seq, b, n)
    BY DEF Ready
  <2>4. \A t : Allowed(seq, b, <<>>, t) = 0 .. Keys(seq, b) - 1
    BY DEF Allowed
  <2> HIDE DEF At, rows
  <2>5. QED
    BY <2>2, <2>3, <2>4 DEF Plain, At, rows
<1>3. QED
  BY <1>0, <1>1, <1>2

LEMMA PickySelected ==
  ASSUME NEW seq, NEW q, NEW b, NEW budget, NEW tail, AnyRequest(seq, q, b, budget, tail),
         NEW pick, NEW late, late = [c \in 1 .. 2 |-> PubRows(q, c, tail)]
  PROVE  Selected(seq, late, b, budget, CandidateMasks(seq, q, budget, tail, pick))
           = Picky(seq, q, late, b, pick)
<1> DEFINE masks == CandidateMasks(seq, q, budget, tail, pick)
           At(t) == seq[b] - late[b] + t + 1
           Picked(r) == pick[b][q[b] - late[b] + r]
           rows == 0 .. late[b] - 1
<1>0. Keys(seq, b) \in Nat
  <2>1. seq[b] \in Nat
    BY DEF AnyRequest
  <2>2. QED
    BY <2>1, IndexerAssumption, DivBounds DEF Keys
<1>1. CASE Keys(seq, b) = 0
  <2>1. \A t \in rows : {<<b, j>> : j \in {j \in Ready(seq, b, At(t)) : j \in Picked(t)}} = {}
    BY <1>1 DEF Ready
  <2> HIDE DEF At, Picked, rows
  <2>2. {[row |-> t, keys |-> {}] : t \in rows}
          = {[row |-> t, keys |->
                {<<b, j>> : j \in {j \in Ready(seq, b, At(t)) : j \in Picked(t)}}] : t \in rows}
    BY <2>1
  <2>3. QED
    BY <1>1, <2>2 DEF Selected, Picky, At, Picked, rows
<1>2. CASE Keys(seq, b) > 0
  <2>1. Request(seq, q, b, budget, tail)
    BY <1>2 DEF Request, AnyRequest
  <2>2. late[b] = PubRows(q, b, tail) /\ late[b] \in 0 .. q[b] /\ q[b] \in Nat /\ seq[b] \in Nat
    <3>1. b \in 1 .. 2 /\ seq[b] \in Nat /\ q[b] \in Nat /\ (tail = <<>> \/ tail[b] \in Nat)
      BY DEF AnyRequest
    <3>2. late[b] = PubRows(q, b, tail)
      BY <3>1
    <3>3. PubRows(q, b, tail) \in 0 .. q[b]
      BY <3>1 DEF PubRows
    <3>4. QED
      BY <3>1, <3>2, <3>3
  <2>3. Request(seq, late, b, budget, <<>>)
    BY <1>2, <2>2 DEF Request, AnyRequest
  <2>4. Selected(seq, late, b, budget, masks) =
          {[row |-> t, keys |->
              {<<b, j>> : j \in {j \in Ready(seq, b, At(t)) : j \in Allowed(seq, b, masks, t)}}] :
             t \in rows}
    BY <2>3, RowsSelect
  <2>5. masks # <<>> /\ masks[b] = Mask(seq, q, b, budget, tail, pick)
    BY MasksListed DEF AnyRequest
  <2>6. ASSUME NEW t \in rows PROVE Allowed(seq, b, masks, t) = Picked(t)
    <3>1. t \in 0 .. PubRows(q, b, tail) - 1
      BY <2>2
    <3>2. \A r \in 0 .. PubRows(q, b, tail) - 1 :
            MaskKeys(Mask(seq, q, b, budget, tail, pick), r)
              = pick[b][q[b] - PubRows(q, b, tail) + r]
      BY <2>1, MaskKept
    <3>3. QED
      BY <2>2, <2>5, <3>1, <3>2 DEF Allowed
  <2> DEFINE Chosen(t) == {<<b, j>> : j \in {j \in Ready(seq, b, At(t)) : j \in Allowed(seq, b, masks, t)}}
             Right(t) == {<<b, j>> : j \in {j \in Ready(seq, b, At(t)) : j \in Picked(t)}}
  <2>7. \A t \in rows : Chosen(t) = Right(t)
    <3> HIDE DEF At, Picked, rows, masks
    <3>1. QED
      BY <2>6
  <2>8. {[row |-> t, keys |-> Chosen(t)] : t \in rows} = {[row |-> t, keys |-> Right(t)] : t \in rows}
    <3> HIDE DEF Chosen, Right, rows
    <3>1. QED
      BY <2>7
  <2>9. QED
    BY Zenon, <2>4, <2>8 DEF Picky
<1>3. QED
  BY <1>0, <1>1, <1>2

\* Whatever the batch, the budget, the replayed tail and the picks, the chunks score
\* every row once within the budget, and each row selects what it may: its own keys
\* before it, and of these what was picked for this row where candidates are consumed.
THEOREM ChunksExactHolds == Spec => []ChunksExact
<1> DEFINE Input == input.kind = "index" =>
                      /\ input.seq \in [1 .. 2 -> Nat] /\ input.budget \in Nat
                      /\ \A b \in 1 .. 2 :
                           /\ input.q[b] \in 0 .. input.seq[b]
                           /\ input.tail = <<>> \/ input.tail[b] \in Nat
<1>1. ASSUME NEW seq, NEW q, NEW b, NEW budget, NEW tail, Request(seq, q, b, budget, tail)
      PROVE  RowsOnce(seq, q, b, budget)
  <2> DEFINE chunks == Chunks(seq, q, b, budget)
  <2>1. /\ \A t \in 0 .. q[b] - 1 :
             \E c \in chunks : /\ c.c0 <= t /\ t < c.c1
                               /\ \A d \in chunks : d.c0 <= t /\ t < d.c1 => d = c
        /\ \A c \in chunks :
             c.c1 - c.c0 = 1 \/ (c.c1 - c.c0) * Aligned(Keys(seq, b)) * 4 <= budget
    BY Zenon, <1>1, ChunksCover
  <2> HIDE DEF chunks
  <2>2. ASSUME NEW t \in 0 .. q[b] - 1
        PROVE  Cardinality({c \in chunks : c.c0 <= t /\ t < c.c1}) = 1
    <3>1. PICK c \in chunks : /\ c.c0 <= t /\ t < c.c1
                              /\ \A d \in chunks : d.c0 <= t /\ t < d.c1 => d = c
      BY <2>1
    <3>2. {d \in chunks : d.c0 <= t /\ t < d.c1} = {c}
      BY <3>1
    <3>3. QED
      BY <3>2, FS_Singleton
  <2>3. QED
    BY Zenon, <2>1, <2>2 DEF RowsOnce, chunks
<1>2. Input => ChunksExact
  <2>1. SUFFICES ASSUME Input, input.kind = "index" PROVE ChunksExact
    BY DEF ChunksExact
  <2> DEFINE seq == input.seq
             q == input.q
             tail == input.tail
             budget == input.budget
             pick == input.pick
             late == [c \in 1 .. 2 |-> PubRows(q, c, tail)]
  <2>2. seq \in [1 .. 2 -> Nat] /\ budget \in Nat
    BY <2>1
  <2>3. \A b \in 1 .. 2 : q[b] \in 0 .. seq[b] /\ (tail = <<>> \/ tail[b] \in Nat)
    BY <2>1
  <2> HIDE DEF seq, q, tail, budget, pick
  <2>4. seq \in Seq(Nat) /\ Len(seq) = 2
    <3> DEFINE n == 2
    <3>1. n \in Nat /\ seq \in [1 .. n -> Nat]
      BY <2>2
    <3> HIDE DEF n
    <3>2. seq \in Seq(Nat) /\ Len(seq) = n
      BY <3>1
    <3>3. QED
      BY <3>2 DEF n
  <2> HIDE DEF late
  <2>5. ASSUME NEW b \in 1 .. 2
        PROVE  /\ Keys(seq, b) > 0 => RowsOnce(seq, q, b, budget)
               /\ Selected(seq, q, b, budget, <<>>) = Plain(seq, q, b)
               /\ Selected(seq, late, b, budget, CandidateMasks(seq, q, budget, tail, pick))
                    = Picky(seq, q, late, b, pick)
    <3>1. AnyRequest(seq, q, b, budget, tail)
      BY <2>2, <2>3, <2>4, <2>5 DEF AnyRequest
    <3>2. Keys(seq, b) > 0 => Request(seq, q, b, budget, tail)
      BY <3>1 DEF Request, AnyRequest
    <3>3. late = [c \in 1 .. 2 |-> PubRows(q, c, tail)]
      BY DEF late
    <3>4. Keys(seq, b) > 0 => RowsOnce(seq, q, b, budget)
      BY Zenon, <1>1, <3>2
    <3>5. Selected(seq, q, b, budget, <<>>) = Plain(seq, q, b)
      BY Zenon, <3>1, PlainSelected
    <3>6. Selected(seq, late, b, budget, CandidateMasks(seq, q, budget, tail, pick))
            = Picky(seq, q, late, b, pick)
      BY Zenon, <3>1, <3>3, PickySelected
    <3>7. QED
      BY <3>4, <3>5, <3>6
  <2>6. QED
    BY Zenon, <2>5
       DEF ChunksExact, RowsOnce, Plain, Picky, Ready, seq, q, tail, budget, pick, late
<1>3. Init => Input
  <2>1. Init => IndexerInput \/ input.kind # "index"
    BY DEF Init, AlgorithmInput, VerifyInput, LoopInput, PadInput, ScaleInput, ChatInput
  <2>2. IndexerInput => Input
    <3>1. ASSUME NEW seq \in [1 .. 2 -> Contexts], NEW q \in [1 .. 2 -> Contexts],
                 NEW b \in 1 .. 2, q[b] <= seq[b]
          PROVE  q[b] \in 0 .. seq[b]
      <4>1. Contexts \subseteq Nat
        BY RulesAssumption
      <4>2. q[b] \in Nat /\ seq[b] \in Nat
        BY <4>1
      <4>3. QED
        BY <3>1, <4>2
    <3>2. ASSUME NEW tail \in [1 .. 2 -> Contexts] \cup {<<>>}, NEW b \in 1 .. 2
          PROVE  tail = <<>> \/ tail[b] \in Nat
      BY <3>2, RulesAssumption
    <3>3. [1 .. 2 -> Contexts] \subseteq [1 .. 2 -> Nat] /\ Budgets \subseteq Nat
      BY RulesAssumption
    <3>4. QED
      BY <3>1, <3>2, <3>3 DEF IndexerInput
  <2>3. QED
    BY <2>1, <2>2
<1>4. Input /\ [Next]_<<layout, input, prepareVars>> => Input'
  BY DEF Next
<1>5. QED
  BY <1>2, <1>3, <1>4, PTL DEF Spec

-----------------------------------------------------------------------------
(* Padded counts (module Tp3Pad).                                           *)

\* Rounding up gives a multiple, less than a step above.
LEMMA RoundedUp ==
  ASSUME NEW n \in Nat, NEW d \in Nat \ {0}
  PROVE  \E k \in Nat : /\ CeilTo(n, d) = d * k /\ d * k \in n .. n + d - 1
                        /\ CeilTo(n, d) % d = 0
<1> DEFINE k == (n + d - 1) \div d
<1>1. n + d - 1 \in Nat
  OBVIOUS
<1>2. k \in Nat /\ d * k <= n + d - 1 /\ n + d - 1 < d * k + d
  BY <1>1, DivBounds
<1>3. CeilTo(n, d) = k * d
  BY DEF CeilTo
<1> HIDE DEF k
<1>4. k * d = d * k /\ d * k \in Nat
  BY <1>2
<1>5. (d * k) % d = 0
  BY <1>2, Multiple
<1>6. d * k \in n .. n + d - 1
  BY <1>2, <1>4
<1>7. QED
  BY <1>2, <1>3, <1>4, <1>5, <1>6

\* What a padded configuration is to be: whole heads per group, an equal share of
\* groups and a legal count of heads on each rank.
Padded(pad, per, tp) ==
  \E local \in LegalLocal, share \in Nat \ {0} :
     /\ pad = [heads |-> tp * local, groups |-> tp * share]
     /\ tp * local = (tp * share) * per

\* Heads of a group that every legal count is a multiple of.
EvenPer == {1, 2, 4, 8}

\* A legal share is a whole number of groups.
LEMMA LegalShare ==
  ASSUME NEW local \in LegalLocal, NEW per \in EvenPer
  PROVE  \E share \in Nat \ {0} : local = share * per
<1>1. PICK l \in {1, 2, 4, 8, 16} : local = 8 * l
  BY DEF LegalLocal
<1>2. PICK k \in {1, 2, 4, 8} : 8 = k * per
  BY DEF EvenPer
<1>3. l * k \in Nat \ {0} /\ local = (l * k) * per
  BY <1>1, <1>2 DEF EvenPer
<1>4. QED
  BY <1>3

\* The smallest legal share has room for the heads.
LEMMA TargetFits ==
  ASSUME NEW local \in 1 .. 128
  PROVE  TargetLocal(local) \in LegalLocal /\ local <= TargetLocal(local)
<1> DEFINE fits == {h \in LegalLocal : h >= local}
<1>1. 128 \in fits /\ fits \in SUBSET Nat
  BY DEF LegalLocal
<1> HIDE DEF fits
<1>2. \E h \in fits : \A k \in fits : h <= k
  BY <1>1, LeastNumber
<1>3. TargetLocal(local) = CHOOSE h \in fits : \A k \in fits : h <= k
  BY <1>1 DEF TargetLocal, fits
<1>4. TargetLocal(local) \in fits
  BY <1>2, <1>3
<1>5. QED
  BY <1>4 DEF fits

\* A padded configuration is left as it is.
LEMMA PaddedStays ==
  ASSUME NEW tp \in Nat \ {0}, NEW per \in EvenPer, NEW pad, Padded(pad, per, tp)
  PROVE  PadHeads(pad.heads, pad.groups, tp) = pad
<1>1. PICK local \in LegalLocal, share \in Nat \ {0} :
         /\ pad = [heads |-> tp * local, groups |-> tp * share]
         /\ tp * local = (tp * share) * per
  BY DEF Padded
<1>2. per \in Nat \ {0} /\ local \in Nat
  BY DEF EvenPer, LegalLocal
<1> DEFINE heads == tp * local
           groups == tp * share
<1>3. groups \in Nat \ {0} /\ heads = groups * per /\ groups * per = per * groups
  BY <1>1, <1>2
<1>4. heads % tp = 0 /\ heads \div tp = local
  BY <1>2, Multiple
<1> HIDE DEF heads, groups
<1>5. pad = [heads |-> heads, groups |-> groups]
  BY <1>1 DEF heads, groups
<1>6. PadHeads(heads, groups, tp) = [heads |-> heads, groups |-> groups]
  <2> DEFINE p == IF heads \div groups >= 1 THEN heads \div groups ELSE 1
  <2>1. Divisible(heads, groups, p, tp) = [heads |-> heads, groups |-> groups]
    BY <1>4 DEF Divisible
  <2> HIDE DEF p
  <2>2. QED
    BY <1>4, <2>1 DEF PadHeads, p
<1>7. QED
  BY <1>5, <1>6

\* Heads and groups are padded to shares that are legal, and never cut.
LEMMA HeadsPadded ==
  ASSUME NEW groups \in Nat \ {0}, NEW per \in EvenPer, NEW tp \in Nat \ {0},
         groups * per <= 128 * tp
  PROVE  LET pad == PadHeads(groups * per, groups, tp)
         IN  Padded(pad, per, tp) /\ pad.groups >= groups
<1> DEFINE heads == groups * per
           c == Divisible(heads, groups, per, tp)
           pad == PadHeads(heads, groups, tp)
           local == c.heads \div tp
           target == TargetLocal(local)
           wide == target * tp
           g == wide \div per
<1>1. per \in Nat \ {0} /\ heads \in Nat \ {0} /\ heads = per * groups
  BY DEF EvenPer
<1>2. heads \div groups = per
  <2>1. heads = groups * per
    OBVIOUS
  <2>2. QED
    BY <1>1, Multiple
<1>3. pad = IF local \in LegalLocal THEN c
            ELSE IF g * per = wide THEN [heads |-> wide, groups |-> g]
            ELSE LET up == CeilTo(g, tp) IN [heads |-> up * per, groups |-> up]
  <2>1. (IF heads \div groups >= 1 THEN heads \div groups ELSE 1) = per
    BY <1>1, <1>2
  <2>2. QED
    BY <2>1 DEF PadHeads
<1> HIDE DEF pad
<1>4. PICK whole \in Nat \ {0} :
         /\ c = [heads |-> whole * per, groups |-> whole] /\ whole >= groups
         /\ \E k \in 1 .. 128 : whole * per = tp * k
  <2>1. CASE heads % tp = 0
    <3>1. c = [heads |-> groups * per, groups |-> groups]
      BY <2>1 DEF Divisible
    <3> DEFINE k == heads \div tp
    <3>2. k \in Nat /\ heads = tp * k
      <4>1. k \in Nat /\ heads = tp * k + (heads % tp) /\ tp * k \in Nat
        BY <1>1, DivBounds, ModBounds
      <4> HIDE DEF k, heads
      <4>2. QED
        BY <2>1, <4>1
    <3> HIDE DEF k
    <3>3. k \in 1 .. 128
      <4>1. tp * k <= 128 * tp
        BY <3>2
      <4>2. k >= 129 => tp * 129 <= tp * k
        BY <3>2, MulMonotone
      <4>3. tp * k \in Nat /\ k # 0
        BY <1>1, <3>2
      <4>4. QED
        BY <3>2, <4>1, <4>2, <4>3
    <3>4. groups * per = tp * k
      BY <3>2
    <3> HIDE DEF c
    <3>5. groups >= groups /\ \E j \in 1 .. 128 : groups * per = tp * j
      BY <3>3, <3>4
    <3>6. QED
      BY Zenon, <3>1, <3>5
  <2>2. CASE heads % tp # 0
    <3>1. PICK k \in Nat : CeilTo(groups, tp) = tp * k /\ tp * k \in groups .. groups + tp - 1
      BY RoundedUp
    <3> DEFINE w == tp * k
    <3>2. c = [heads |-> w * per, groups |-> w]
      BY <2>2, <3>1 DEF Divisible
    <3>3. w \in Nat \ {0} /\ w >= groups /\ w < groups + tp
      BY <3>1
    <3>4. w * per = tp * (k * per)
      BY <1>1, <3>1
    <3>5. k * per \in 1 .. 128
      <4>1. PICK most \in {128, 64, 32, 16} : 128 = most * per
        BY DEF EvenPer
      <4>2. groups <= most * tp
        <5>1. groups * per <= (most * tp) * per
          <6>1. (most * tp) * per = 128 * tp
            BY <1>1, <4>1
          <6>2. QED
            BY <6>1
        <5>2. groups >= most * tp + 1 => per * (most * tp + 1) <= per * groups
          BY <1>1, <4>1, MulMonotone
        <5>3. per * (most * tp + 1) = (most * tp) * per + per /\ per * groups = groups * per
          BY <1>1, <4>1
        <5> DEFINE b == most * tp
        <5>4. b \in Nat /\ b * per \in Nat
          BY <1>1, <4>1
        <5> HIDE DEF b
        <5>5. QED
          BY <1>1, <5>1, <5>2, <5>3, <5>4 DEF b
      <4>3. k <= most
        <5>1. k >= most + 1 => tp * (most + 1) <= tp * k
          BY <3>1, <4>1, MulMonotone
        <5>2. tp * (most + 1) = most * tp + tp /\ most * tp \in Nat
          BY <4>1
        <5>3. tp * k < groups + tp /\ tp * k \in Nat
          BY <3>3
        <5>4. most \in Nat
          BY <4>1
        <5>5. QED
          BY <3>1, <4>2, <5>1, <5>2, <5>3, <5>4
      <4>4. per * k <= per * most
        BY <1>1, <3>1, <4>1, <4>3, MulMonotone
      <4>5. per * k = k * per /\ per * most = most * per /\ k * per \in Nat
        BY <1>1, <3>1, <4>1
      <4>6. k # 0
        BY <3>3
      <4>7. k * per # 0
        BY <1>1, <3>1, <4>6
      <4>8. QED
        BY <4>1, <4>4, <4>5, <4>7
    <3> HIDE DEF c, w
    <3>6. QED
      BY <3>2, <3>3, <3>4, <3>5
  <2>3. QED
    BY <2>1, <2>2
<1>5. PICK k \in 1 .. 128 : whole * per = tp * k
  BY <1>4
<1> HIDE DEF c
<1>6. local = k /\ c.groups = whole
  <2>1. c.heads = tp * k
    BY <1>4, <1>5
  <2>2. (tp * k) \div tp = k
    BY <1>5, Multiple
  <2>3. QED
    BY <1>4, <2>1, <2>2
<1> HIDE DEF local
<1>7. CASE local \in LegalLocal
  <2>1. PICK share \in Nat \ {0} : k = share * per
    BY <1>6, <1>7, LegalShare
  <2>2. whole = tp * share
    <3>1. per * whole = per * (tp * share)
      BY <1>1, <1>4, <1>5, <2>1
    <3>2. (per * whole) \div per = whole /\ (per * (tp * share)) \div per = tp * share
      BY <1>1, <1>4, <2>1, Multiple
    <3>3. QED
      BY <3>1, <3>2
  <2>3. pad = [heads |-> tp * k, groups |-> tp * share]
    BY <1>3, <1>4, <1>5, <1>7, <2>2
  <2>4. Padded(pad, per, tp)
    BY <1>5, <1>6, <1>7, <2>2, <2>3 DEF Padded
  <2>5. pad.groups >= groups
    BY <1>4, <2>2, <2>3
  <2>6. QED
    BY <2>4, <2>5 DEF pad
<1>8. CASE local \notin LegalLocal
  <2>1. target \in LegalLocal /\ k <= target
    BY <1>6, TargetFits
  <2>2. PICK share \in Nat \ {0} : target = share * per
    BY <2>1, LegalShare
  <2>3. target \in Nat
    BY <2>1 DEF LegalLocal
  <2>4. wide = per * (tp * share) /\ wide = tp * target
    BY <1>1, <2>2, <2>3
  <2>5. g = tp * share
    BY <1>1, <2>2, <2>4, Multiple
  <2> HIDE DEF target, g
  <2>6. g * per = wide
    BY <1>1, <2>2, <2>4, <2>5
  <2> HIDE DEF wide
  <2>7. pad = [heads |-> tp * target, groups |-> tp * share]
    BY <1>3, <1>8, <2>4, <2>5, <2>6
  <2>8. Padded(pad, per, tp)
    BY <2>1, <2>2, <2>4, <2>5, <2>6, <2>7 DEF Padded
  <2>9. tp * share >= whole
    <3>1. tp * k <= tp * target
      BY <1>5, <2>1, <2>3, MulMonotone
    <3>2. whole * per <= (tp * share) * per
      BY <1>5, <2>4, <2>5, <2>6, <3>1
    <3> DEFINE b == tp * share
    <3>3. b \in Nat
      BY <2>2
    <3> HIDE DEF b
    <3>4. whole >= b + 1 => per * (b + 1) <= per * whole
      BY <1>1, <1>4, <3>3, MulMonotone
    <3>5. per * (b + 1) = b * per + per /\ per * whole = whole * per /\ b * per \in Nat
      BY <1>1, <1>4, <3>3
    <3>6. QED
      BY <1>1, <1>4, <3>2, <3>3, <3>4, <3>5 DEF b
  <2>10. pad.groups >= groups
    <3>1. pad.groups = tp * share /\ tp * share \in Nat
      BY <2>2, <2>7
    <3>2. QED
      BY <1>4, <2>9, <3>1
  <2>11. QED
    BY <2>8, <2>10 DEF pad
<1>9. QED
  BY <1>7, <1>8

\* The vocabulary's size is a multiple of both counts that it is padded to.
LEMMA VocabPadded ==
  ASSUME NEW size \in Nat, NEW padTo \in Nat \ {0}, NEW tp \in Nat \ {0}
  PROVE  LET vocab == PadVocab(size, padTo, tp)
         IN  /\ vocab >= size /\ vocab % tp = 0 /\ vocab % padTo = 0
             /\ vocab - size < tp * padTo
<1> DEFINE Common == {m \in 1 .. padTo * tp : m % padTo = 0 /\ m % tp = 0}
           step == IF tp > 1 THEN Lcm(padTo, tp) ELSE padTo
           vocab == PadVocab(size, padTo, tp)
<1>1. padTo * tp = tp * padTo /\ padTo * tp \in Nat /\ padTo <= padTo * tp /\ padTo * tp > 0
  <2>1. padTo * 1 <= padTo * tp
    BY MulMonotone
  <2>2. QED
    BY <2>1
<1>2. padTo * tp \in Common
  <2>1. (padTo * tp) % padTo = 0 /\ (tp * padTo) % tp = 0
    BY Multiple
  <2>2. QED
    BY <1>1, <2>1
<1>3. \E m \in Common : \A k \in Common : m <= k
  <2>1. Common \in SUBSET Nat
    BY <1>1
  <2> HIDE DEF Common
  <2>2. QED
    BY <1>2, <2>1, LeastNumber
<1>4. Lcm(padTo, tp) \in Common
  <2> DEFINE LeastOf(m) == /\ m \in 1 .. padTo * tp
                         /\ m % padTo = 0 /\ m % tp = 0
                         /\ \A k \in 1 .. m - 1 : k % padTo # 0 \/ k % tp # 0
  <2>1. PICK m \in Common : \A k \in Common : m <= k
    BY <1>3
  <2>2. LeastOf(m)
    <3>1. m \in 1 .. padTo * tp /\ m % padTo = 0 /\ m % tp = 0
      BY <2>1
    <3>2. ASSUME NEW k \in 1 .. m - 1, k % padTo = 0, k % tp = 0 PROVE FALSE
      <4>1. k \in 1 .. padTo * tp /\ k < m
        BY <1>1, <3>1, <3>2
      <4>2. k \in Common
        BY <3>2, <4>1
      <4> HIDE DEF Common
      <4>3. k \in Nat /\ m \in Nat /\ m <= k
        BY <2>1, <3>1, <4>1, <4>2
      <4>4. QED
        BY <4>1, <4>3
    <3>3. QED
      BY <3>1, <3>2
  <2>3. Lcm(padTo, tp) = CHOOSE l \in 1 .. padTo * tp :
           /\ l % padTo = 0 /\ l % tp = 0
           /\ \A k \in 1 .. l - 1 : k % padTo # 0 \/ k % tp # 0
    BY DEF Lcm
  <2>4. Lcm(padTo, tp) \in 1 .. padTo * tp /\ Lcm(padTo, tp) % padTo = 0 /\ Lcm(padTo, tp) % tp = 0
    BY Zenon, <2>2, <2>3
  <2>5. QED
    BY <2>4
<1>5. /\ step \in 1 .. padTo * tp /\ step % padTo = 0 /\ step % tp = 0
  <2>1. CASE tp > 1
    BY <1>4, <2>1
  <2>2. CASE tp = 1
    <3>1. (padTo * 1) % padTo = 0 /\ (1 * padTo) % 1 = 0
      BY Multiple
    <3>2. step = padTo /\ padTo * 1 = padTo /\ 1 * padTo = padTo
      BY <2>2
    <3> HIDE DEF step
    <3>3. QED
      BY <1>1, <2>2, <3>1, <3>2
  <2>3. QED
    BY <2>1, <2>2
<1>6. vocab = CeilTo(size, step)
  BY DEF PadVocab
<1> HIDE DEF step, vocab, Common
<1>7. step \in Nat \ {0} /\ step <= padTo * tp
  BY <1>1, <1>5
<1>8. PICK k \in Nat : vocab = step * k /\ step * k \in size .. size + step - 1
  BY <1>6, <1>7, RoundedUp
<1>9. ASSUME NEW d \in Nat \ {0}, step % d = 0 PROVE vocab % d = 0
  <2> DEFINE x == step \div d
  <2>1. x \in Nat /\ step = d * x
    <3>1. x \in Nat /\ step = d * x + (step % d) /\ d * x \in Nat
      BY <1>7, DivBounds, ModBounds
    <3> HIDE DEF x
    <3>2. QED
      BY <1>9, <3>1
  <2> HIDE DEF x
  <2>2. vocab = d * (x * k) /\ x * k \in Nat
    BY <1>8, <2>1
  <2>3. QED
    BY <2>2, Multiple
<1>10. vocab % tp = 0 /\ vocab % padTo = 0
  BY <1>5, <1>9
<1>11. vocab >= size /\ vocab - size < tp * padTo
  BY <1>1, <1>7, <1>8
<1>12. QED
  BY <1>10, <1>11 DEF vocab

\* Heads that can be padded: those of a group divide what the kernels exist for, and
\* no rank has more than the largest of those.
PaddableHeads ==
  /\ GroupCounts \subseteq Nat \ {0} /\ PerGroup \subseteq EvenPer
  /\ \A groups \in GroupCounts, per \in PerGroup, tp \in TpSizes : groups * per <= 128 * tp

\* A count is padded to the next multiple.
LEMMA CountPadded ==
  ASSUME NEW n \in Nat, NEW tp \in Nat \ {0}
  PROVE  PadCount(n, tp) \in n .. n + tp - 1 /\ PadCount(n, tp) % tp = 0
<1>1. PICK k \in Nat : CeilTo(n, tp) \in n .. n + tp - 1 /\ CeilTo(n, tp) % tp = 0
  BY RoundedUp
<1>2. QED
  BY <1>1 DEF PadCount

\* The ranks' shards are the checkpoint's rows and then what is neutral.
ExactShards(groups, size, tp, scale) ==
  LET rows == [i \in 1 .. groups |-> i]
      fill == IF scale THEN OneRow ELSE ZeroRow
      Whole(i) == IF i <= groups THEN i ELSE fill
  IN  \A r \in 0 .. tp - 1 : \A i \in 1 .. size :
         /\ LoadColumn(rows, r, size, scale)[i] = Whole(r * size + i)
         /\ (tp - 1) * size <= groups =>
              LoadLinear(rows, r, size, scale)[i] = Whole(r * size + i)

\* The loaders' shards are the checkpoint's rows and then padding.
LEMMA ShardsExact ==
  ASSUME NEW groups \in Nat, NEW size \in Nat, NEW tp \in Nat \ {0}, NEW scale \in BOOLEAN
  PROVE  ExactShards(groups, size, tp, scale)
<1> DEFINE rows == [i \in 1 .. groups |-> i]
           fill == IF scale THEN OneRow ELSE ZeroRow
<1>1. rows \in Seq(Nat) /\ Len(rows) = groups /\ \A i \in 1 .. groups : rows[i] = i
  OBVIOUS
<1> HIDE DEF rows
<1>2. ASSUME NEW r \in 0 .. tp - 1, NEW i \in 1 .. size
      PROVE  /\ LoadColumn(rows, r, size, scale)[i] =
                  IF r * size + i <= groups THEN r * size + i ELSE fill
             /\ (tp - 1) * size <= groups =>
                  LoadLinear(rows, r, size, scale)[i] =
                    IF r * size + i <= groups THEN r * size + i ELSE fill
  <2>1. r \in Nat /\ r * size \in Nat
    OBVIOUS
  <2>2. r * size + i <= groups => rows[r * size + i] = r * size + i
    BY <1>1, <2>1
  <2>3. LoadColumn(rows, r, size, scale)[i] =
          IF r * size + i <= groups THEN rows[r * size + i] ELSE fill
    <3>1. LoadColumn(rows, r, size, scale)[i] =
            IF r * size + i <= Len(rows) THEN rows[r * size + i]
            ELSE IF scale THEN OneRow ELSE ZeroRow
      <4>1. rows \in Seq(Nat)
        BY <1>1
      <4>2. QED
        BY <2>1, <4>1, ColumnShardExact
    <3>2. QED
      BY Zenon, <1>1, <3>1
  <2>4. LoadLinear(rows, r, size, scale)[i] =
          IF r * size + i <= groups THEN rows[r * size + i]
          ELSE IF scale /\ r * size <= groups THEN OneRow ELSE ZeroRow
    BY <1>1, <2>1, LinearShardExact
  <2>5. (tp - 1) * size <= groups => r * size <= groups
    <3>1. size * r <= size * (tp - 1)
      BY MulMonotone
    <3>2. size * r = r * size /\ size * (tp - 1) = (tp - 1) * size /\ (tp - 1) * size \in Nat
      BY <2>1
    <3>3. QED
      BY <2>1, <3>1, <3>2
  <2>6. QED
    BY <2>2, <2>3, <2>4, <2>5
<1>3. QED
  BY <1>2 DEF ExactShards, rows

\* Whatever the groups, the heads of one and the ranks, as long as they can be
\* padded: the padded configuration is legal and final, and the shards are exact.
THEOREM PaddedExactHolds ==
  ASSUME PaddableHeads
  PROVE  Spec => []PaddedExact
<1> DEFINE Input == input.kind = "pad" =>
                      /\ input.groups \in GroupCounts /\ input.per \in PerGroup
                      /\ input.tp \in TpSizes /\ input.scale \in BOOLEAN
<1>1. ASSUME NEW groups \in GroupCounts, NEW per \in PerGroup, NEW tp \in TpSizes,
             NEW scale \in BOOLEAN
      PROVE  LET pad == PadHeads(groups * per, groups, tp)
                 rows == [i \in 1 .. groups |-> i]
                 size == pad.groups \div tp
             IN  /\ pad.heads % tp = 0 /\ pad.groups % tp = 0
                 /\ pad.heads \div tp \in LegalLocal
                 /\ pad.heads = pad.groups * per /\ pad.groups >= groups
                 /\ \A same \in BOOLEAN :
                      PadConfig([heads |-> groups * per, groups |-> groups], tp, same) = pad
                 /\ LoadDefault(rows, pad.groups) =
                      [i \in 1 .. pad.groups |-> IF i <= groups THEN i ELSE ZeroRow]
                 /\ size \in Nat
  <2> DEFINE pad == PadHeads(groups * per, groups, tp)
             rows == [i \in 1 .. groups |-> i]
             size == pad.groups \div tp
  <2>1. /\ groups \in Nat \ {0} /\ per \in EvenPer /\ tp \in Nat \ {0}
        /\ groups * per <= 128 * tp /\ per \in Nat
    BY RulesAssumption DEF PaddableHeads, EvenPer
  <2>2. Padded(pad, per, tp) /\ pad.groups >= groups
    BY <2>1, HeadsPadded
  <2>3. \A same \in BOOLEAN :
           PadConfig([heads |-> groups * per, groups |-> groups], tp, same) = pad
    <3>1. PadHeads(pad.heads, pad.groups, tp) = pad
      BY <2>1, <2>2, PaddedStays
    <3>2. QED
      BY <3>1 DEF PadConfig
  <2> HIDE DEF pad
  <2>4. PICK local \in LegalLocal, share \in Nat \ {0} :
           /\ pad = [heads |-> tp * local, groups |-> tp * share]
           /\ tp * local = (tp * share) * per
    BY <2>2 DEF Padded
  <2>5. local \in Nat
    BY DEF LegalLocal
  <2>6. /\ (tp * local) % tp = 0 /\ (tp * local) \div tp = local
        /\ (tp * share) % tp = 0 /\ (tp * share) \div tp = share
    BY <2>1, <2>4, <2>5, Multiple
  <2>7. pad.heads = tp * local /\ pad.groups = tp * share
    BY <2>4
  <2>8. /\ pad.heads % tp = 0 /\ pad.groups % tp = 0 /\ pad.heads \div tp = local
        /\ size = share /\ pad.heads = pad.groups * per
    BY Zenon, <2>4, <2>6, <2>7
  <2>9. LoadDefault(rows, pad.groups) =
          [i \in 1 .. pad.groups |-> IF i <= groups THEN i ELSE ZeroRow]
    <3>1. Len(rows) = groups /\ \A i \in 1 .. groups : rows[i] = i
      BY <2>1
    <3>2. pad.groups \in Nat /\ pad.groups >= groups
      BY <2>1, <2>2, <2>4, <2>7
    <3>3. CASE pad.groups = groups
      BY <2>1, <3>1, <3>3 DEF LoadDefault
    <3>4. CASE pad.groups # groups
      <4>1. LoadDefault(rows, pad.groups) =
              [i \in 1 .. pad.groups |-> IF i <= Len(rows) THEN rows[i] ELSE ZeroRow]
        BY <3>1, <3>4 DEF LoadDefault
      <4>2. \A i \in 1 .. pad.groups : i <= groups => i \in 1 .. groups
        BY <2>1, <3>2
      <4> HIDE DEF rows
      <4>3. QED
        BY <3>1, <4>1, <4>2
    <3>5. QED
      BY <3>3, <3>4
  <2> HIDE DEF size, rows
  <2>10. pad.heads \div tp \in LegalLocal /\ size \in Nat
    BY <2>4, <2>8
  <2>11. QED
    BY <2>2, <2>3, <2>8, <2>9, <2>10 DEF pad, size, rows
<1>2. Input => PaddedExact
  <2>1. SUFFICES ASSUME Input, input.kind = "pad" PROVE PaddedExact
    BY DEF PaddedExact
  <2> DEFINE groups == input.groups
             per == input.per
             tp == input.tp
             scale == input.scale
             pad == PadHeads(groups * per, groups, tp)
             rows == [i \in 1 .. groups |-> i]
             size == pad.groups \div tp
  <2>2. groups \in GroupCounts /\ per \in PerGroup /\ tp \in TpSizes /\ scale \in BOOLEAN
    BY <2>1
  <2> HIDE DEF groups, per, tp, scale
  <2>3. /\ groups \in Nat \ {0} /\ per \in Nat \ {0} /\ tp \in Nat \ {0}
        /\ groups * per \in Nat
    BY <2>2, RulesAssumption DEF PaddableHeads, EvenPer
  <2>4. /\ pad.heads % tp = 0 /\ pad.groups % tp = 0
        /\ pad.heads \div tp \in LegalLocal
        /\ pad.heads = pad.groups * per /\ pad.groups >= groups
        /\ \A same \in BOOLEAN :
             PadConfig([heads |-> groups * per, groups |-> groups], tp, same) = pad
        /\ LoadDefault(rows, pad.groups) =
             [i \in 1 .. pad.groups |-> IF i <= groups THEN i ELSE ZeroRow]
        /\ size \in Nat
    BY Zenon, <1>1, <2>2
  <2>5. LET vocab == PadVocab(groups * per, per, tp)
        IN  vocab >= groups * per /\ vocab % tp = 0 /\ vocab % per = 0
              /\ vocab - groups * per < tp * per
    BY Zenon, <2>3, VocabPadded
  <2>6. PadCount(groups, tp) \in groups .. groups + tp - 1 /\ PadCount(groups, tp) % tp = 0
    BY <2>3, CountPadded
  <2> HIDE DEF pad, size
  <2>7. ExactShards(groups, size, tp, scale)
    <3>1. groups \in Nat
      BY <2>3
    <3>2. QED
      BY Zenon, <2>2, <2>3, <2>4, <3>1, ShardsExact
  <2>8. QED
    BY Zenon, <2>4, <2>5, <2>6, <2>7 DEF PaddedExact, ExactShards, pad, size, groups, per, tp, scale
<1>3. Init => Input
  <2>1. Init => PadInput \/ input.kind # "pad"
    BY DEF Init, AlgorithmInput, VerifyInput, IndexerInput, ScaleInput, ChatInput, LoopInput
  <2>2. PadInput => Input
    BY DEF PadInput
  <2>3. QED
    BY <2>1, <2>2
<1>4. Input /\ [Next]_<<layout, input, prepareVars>> => Input'
  BY DEF Next
<1>5. QED
  BY <1>2, <1>3, <1>4, PTL DEF Spec

-----------------------------------------------------------------------------
(* Induction and recursion over the naturals, of a set and of a function. *)

\* Induction, of a set of numbers.
LEMMA Induction ==
  ASSUME NEW S, 0 \in S, \A n \in Nat : n \in S => n + 1 \in S
  PROVE  Nat \subseteq S
<1>1. SUFFICES ASSUME Nat \ S # {} PROVE FALSE
  OBVIOUS
<1>2. PICK x \in Nat \ S : \A y \in Nat \ S : x <= y
  BY <1>1, LeastNumber
<1>3. x # 0 /\ x - 1 \in Nat /\ ~(x <= x - 1)
  BY <1>2
<1>4. x - 1 \in S
  BY <1>2, <1>3
<1>5. x - 1 + 1 = x
  BY <1>2
<1>6. QED
  BY <1>2, <1>3, <1>4, <1>5

\* A function on 0 .. n given by its first value and by each from the one before.
LEMMA Recursion ==
  ASSUME NEW V, NEW c \in V, NEW n \in Nat, NEW F \in [(1 .. n) \X V -> V]
  PROVE  \E h \in [0 .. n -> V] : h[0] = c /\ \A i \in 1 .. n : h[i] = F[<<i, h[i - 1]>>]
<1> DEFINE Good(h, k) == h[0] = c /\ \A i \in 1 .. k : h[i] = F[<<i, h[i - 1]>>]
           S == {k \in Nat : k <= n => \E h \in [0 .. k -> V] : Good(h, k)}
<1>1. 0 \in S
  <2>1. [i \in 0 .. 0 |-> c] \in [0 .. 0 -> V] /\ Good([i \in 0 .. 0 |-> c], 0)
    OBVIOUS
  <2> HIDE DEF Good
  <2>2. QED
    BY <2>1
<1>2. ASSUME NEW k \in Nat, k \in S PROVE k + 1 \in S
  <2>1. SUFFICES ASSUME k + 1 <= n PROVE \E h \in [0 .. k + 1 -> V] : Good(h, k + 1)
    BY <1>2
  <2>2. PICK h \in [0 .. k -> V] : Good(h, k)
    BY <1>2, <2>1
  <2> DEFINE v == F[<<k + 1, h[k]>>]
             g == [i \in 0 .. k + 1 |-> IF i = k + 1 THEN v ELSE h[i]]
  <2>3. v \in V
    <3>1. k + 1 \in 1 .. n /\ h[k] \in V
      BY <2>1, <2>2
    <3>2. QED
      BY <3>1
  <2> HIDE DEF v
  <2>4. g \in [0 .. k + 1 -> V] /\ g[0] = c
    BY <2>2, <2>3
  <2>5. ASSUME NEW i \in 1 .. k + 1 PROVE g[i] = F[<<i, g[i - 1]>>]
    <3>1. i - 1 \in 0 .. k /\ i - 1 # k + 1 /\ g[i - 1] = h[i - 1]
      BY <2>5
    <3> HIDE DEF g
    <3>2. CASE i = k + 1
      <4>1. g[i] = v /\ i - 1 = k
        BY <3>2 DEF g
      <4>2. QED
        BY <3>1, <3>2, <4>1 DEF v
    <3>3. CASE i # k + 1
      <4>1. g[i] = h[i] /\ i \in 1 .. k
        BY <2>5, <3>3 DEF g
      <4>2. QED
        BY <2>2, <3>1, <4>1
    <3>4. QED
      BY <3>2, <3>3
  <2>6. QED
    BY <2>4, <2>5
<1> HIDE DEF Good
<1>3. Nat \subseteq S
  <2> HIDE DEF S
  <2>1. QED
    BY <1>1, <1>2, Induction
<1>4. n \in S
  BY <1>3
<1>5. QED
  BY <1>4 DEF Good

-----------------------------------------------------------------------------
(* Exact fractions (module Rationals).                                     *)

\* h is Gcd for second arguments up to n, each from a smaller one.
GcdUpTo(h, n) ==
  h = [s \in Nat \X (0 .. n) |-> IF s[2] = 0 THEN s[1] ELSE h[<<s[2], s[1] % s[2]>>]]

\* What such a function is.
LEMMA GcdUpToMeans ==
  ASSUME NEW h, NEW n \in Nat
  PROVE  GcdUpTo(h, n) <=>
           /\ h = [s \in Nat \X (0 .. n) |-> h[s]]
           /\ \A a \in Nat : h[<<a, 0>>] = a
           /\ \A a \in Nat : \A b \in 1 .. n : h[<<a, b>>] = h[<<b, a % b>>]
<1> DEFINE V(s) == IF s[2] = 0 THEN s[1] ELSE h[<<s[2], s[1] % s[2]>>]
<1>1. ASSUME GcdUpTo(h, n)
      PROVE  /\ h = [s \in Nat \X (0 .. n) |-> h[s]]
             /\ \A a \in Nat : h[<<a, 0>>] = a
             /\ \A a \in Nat : \A b \in 1 .. n : h[<<a, b>>] = h[<<b, a % b>>]
  <2>1. h = [s \in Nat \X (0 .. n) |-> V(s)]
    BY <1>1 DEF GcdUpTo
  <2>2. \A s \in Nat \X (0 .. n) : h[s] = V(s)
    <3> HIDE DEF V
    <3>1. QED
      BY Zenon, <2>1
  <2>3. \A a \in Nat : \A b \in 0 .. n : h[<<a, b>>] = V(<<a, b>>)
    <3> HIDE DEF V
    <3>1. QED
      BY <2>2
  <2>4. h = [s \in Nat \X (0 .. n) |-> h[s]]
    <3> HIDE DEF V
    <3>1. QED
      BY <2>1, <2>2
  <2>5. \A a \in Nat : V(<<a, 0>>) = a
    OBVIOUS
  <2>6. \A a \in Nat : \A b \in 1 .. n : V(<<a, b>>) = h[<<b, a % b>>]
    OBVIOUS
  <2>7. 0 \in 0 .. n /\ \A b \in 1 .. n : b \in 0 .. n
    OBVIOUS
  <2> HIDE DEF V
  <2>8. QED
    BY <2>3, <2>4, <2>5, <2>6, <2>7
<1>2. ASSUME /\ h = [s \in Nat \X (0 .. n) |-> h[s]]
             /\ \A a \in Nat : h[<<a, 0>>] = a
             /\ \A a \in Nat : \A b \in 1 .. n : h[<<a, b>>] = h[<<b, a % b>>]
      PROVE  GcdUpTo(h, n)
  <2>1. ASSUME NEW s \in Nat \X (0 .. n) PROVE h[s] = V(s)
    <3>1. PICK a \in Nat, b \in 0 .. n : s = <<a, b>>
      OBVIOUS
    <3>2. V(s) = IF b = 0 THEN a ELSE h[<<b, a % b>>]
      BY <3>1
    <3> HIDE DEF V
    <3>3. QED
      BY <1>2, <3>1, <3>2
  <2>2. h = [s \in Nat \X (0 .. n) |-> V(s)]
    <3> HIDE DEF V
    <3>1. QED
      BY <1>2, <2>1
  <2>3. QED
    BY <2>2 DEF GcdUpTo
<1>3. QED
  BY <1>1, <1>2

\* There is one for every bound.
LEMMA GcdUpToExists ==
  ASSUME NEW n \in Nat
  PROVE  \E h : GcdUpTo(h, n)
<1> DEFINE S == {m \in Nat : \E h : GcdUpTo(h, m)}
<1>1. 0 \in S
  <2> DEFINE g == [s \in Nat \X (0 .. 0) |-> s[1]]
  <2>1. g = [s \in Nat \X (0 .. 0) |-> g[s]]
    OBVIOUS
  <2>2. \A a \in Nat : g[<<a, 0>>] = a
    OBVIOUS
  <2> HIDE DEF g
  <2>3. GcdUpTo(g, 0)
    <3>1. \A a \in Nat : \A b \in 1 .. 0 : g[<<a, b>>] = g[<<b, a % b>>]
      OBVIOUS
    <3>2. QED
      BY <2>1, <2>2, <3>1, GcdUpToMeans
  <2>4. QED
    BY <2>3
<1>2. ASSUME NEW m \in Nat, m \in S PROVE m + 1 \in S
  <2>1. PICK h : GcdUpTo(h, m)
    BY <1>2
  <2> DEFINE g == [s \in Nat \X (0 .. m + 1) |->
                     IF s[2] = m + 1 THEN h[<<m + 1, s[1] % (m + 1)>>] ELSE h[s]]
  <2>2. /\ \A a \in Nat : h[<<a, 0>>] = a
        /\ \A a \in Nat : \A b \in 1 .. m : h[<<a, b>>] = h[<<b, a % b>>]
    BY <2>1, GcdUpToMeans
  <2>3. g = [s \in Nat \X (0 .. m + 1) |-> g[s]]
    OBVIOUS
  <2>4. \A a \in Nat : \A b \in 0 .. m : g[<<a, b>>] = h[<<a, b>>]
    OBVIOUS
  <2>5. \A a \in Nat : g[<<a, m + 1>>] = h[<<m + 1, a % (m + 1)>>]
    OBVIOUS
  <2> HIDE DEF g
  <2>6. ASSUME NEW a \in Nat, NEW b \in 1 .. m + 1
        PROVE  g[<<a, b>>] = g[<<b, a % b>>]
    <3>1. a % b \in 0 .. m
      BY ModBounds
    <3>2. g[<<b, a % b>>] = h[<<b, a % b>>]
      BY <2>4, <3>1
    <3>3. CASE b = m + 1
      BY <2>5, <3>2, <3>3
    <3>4. CASE b \in 1 .. m
      BY <2>2, <2>4, <3>2, <3>4
    <3>5. QED
      BY <3>3, <3>4
  <2>7. \A a \in Nat : g[<<a, 0>>] = a
    <3>1. 0 \in 0 .. m
      OBVIOUS
    <3>2. QED
      BY <2>2, <2>4, <3>1
  <2>8. GcdUpTo(g, m + 1)
    <3>1. m + 1 \in Nat
      OBVIOUS
    <3>2. QED
      BY <2>3, <2>6, <2>7, <3>1, GcdUpToMeans
  <2>9. QED
    BY <2>8
<1>3. Nat \subseteq S
  <2> HIDE DEF S
  <2>1. QED
    BY <1>1, <1>2, Induction
<1>4. QED
  BY <1>3

\* Two of them agree wherever both are bounded to reach.
LEMMA GcdUpToAgree ==
  ASSUME NEW h, NEW n \in Nat, GcdUpTo(h, n), NEW g, NEW m \in Nat, GcdUpTo(g, m),
         NEW a \in Nat, NEW b \in Nat, b <= n, b <= m
  PROVE  h[<<a, b>>] = g[<<a, b>>]
<1> DEFINE Same(k) == \A c \in Nat : h[<<c, k>>] = g[<<c, k>>]
           S == {k \in Nat : \A j \in 0 .. k : j <= n /\ j <= m => Same(j)}
<1>0. /\ \A c \in Nat : h[<<c, 0>>] = c /\ g[<<c, 0>>] = c
      /\ \A c \in Nat : \A k \in 1 .. n : h[<<c, k>>] = h[<<k, c % k>>]
      /\ \A c \in Nat : \A k \in 1 .. m : g[<<c, k>>] = g[<<k, c % k>>]
  BY GcdUpToMeans
<1>1. 0 \in S
  BY <1>0
<1>2. ASSUME NEW k \in Nat, k \in S PROVE k + 1 \in S
  <2>1. ASSUME k + 1 <= n, k + 1 <= m, NEW c \in Nat
        PROVE  h[<<c, k + 1>>] = g[<<c, k + 1>>]
    <3>1. c % (k + 1) \in 0 .. k
      BY ModBounds
    <3>2. Same(c % (k + 1))
      BY <1>2, <2>1, <3>1
    <3>3. h[<<k + 1, c % (k + 1)>>] = g[<<k + 1, c % (k + 1)>>]
      BY <3>2
    <3>4. QED
      BY <1>0, <2>1, <3>3
  <2>2. \A j \in 0 .. k + 1 : j \in 0 .. k \/ j = k + 1
    OBVIOUS
  <2>3. QED
    BY <1>2, <2>1, <2>2
<1>3. Nat \subseteq S
  <2> HIDE DEF S
  <2>1. QED
    BY <1>1, <1>2, Induction
<1>4. b \in S
  BY <1>3
<1>5. QED
  BY <1>4

\* Euclid's recursion defines a function.
LEMMA GcdStep ==
  ASSUME NEW a \in Nat, NEW b \in Nat
  PROVE  Gcd[<<a, b>>] = IF b = 0 THEN a ELSE Gcd[<<b, a % b>>]
<1> DEFINE G(n) == CHOOSE h : GcdUpTo(h, n)
           H == [s \in Nat \X Nat |-> G(s[2])[s]]
           Eq(h) == h = [s \in Nat \X Nat |-> IF s[2] = 0 THEN s[1] ELSE h[<<s[2], s[1] % s[2]>>]]
<1>1. \A n \in Nat : GcdUpTo(G(n), n)
  BY Zenon, GcdUpToExists
<1> HIDE DEF G
<1>2. \A c, d \in Nat : H[<<c, d>>] = G(d)[<<c, d>>]
  OBVIOUS
<1>3. ASSUME NEW c \in Nat, NEW d \in Nat
      PROVE  H[<<c, d>>] = IF d = 0 THEN c ELSE H[<<d, c % d>>]
  <2>1. G(d)[<<c, d>>] = IF d = 0 THEN c ELSE G(d)[<<d, c % d>>]
    <3>1. /\ G(d)[<<c, 0>>] = c
          /\ \A k \in 1 .. d : G(d)[<<c, k>>] = G(d)[<<k, c % k>>]
      BY <1>1, GcdUpToMeans
    <3>2. d # 0 => d \in 1 .. d
      OBVIOUS
    <3>3. QED
      BY <3>1, <3>2
  <2>2. ASSUME d # 0 PROVE G(d)[<<d, c % d>>] = G(c % d)[<<d, c % d>>]
    <3>1. c % d \in 0 .. d - 1 /\ c % d \in Nat
      BY <2>2, ModBounds
    <3>2. QED
      BY <1>1, <3>1, GcdUpToAgree
  <2>3. d # 0 => c % d \in Nat
    BY ModBounds
  <2> HIDE DEF H
  <2>4. QED
    BY <1>2, <2>1, <2>2, <2>3
<1>4. Eq(H)
  <2>1. H = [s \in Nat \X Nat |-> H[s]]
    OBVIOUS
  <2> DEFINE V(s) == IF s[2] = 0 THEN s[1] ELSE H[<<s[2], s[1] % s[2]>>]
  <2> HIDE DEF H
  <2>2. ASSUME NEW s \in Nat \X Nat PROVE H[s] = V(s)
    <3>1. PICK c \in Nat, d \in Nat : s = <<c, d>>
      OBVIOUS
    <3>2. V(s) = IF d = 0 THEN c ELSE H[<<d, c % d>>]
      BY <3>1
    <3> HIDE DEF V
    <3>3. QED
      BY <1>3, <3>1, <3>2
  <2> HIDE DEF V
  <2>3. H = [s \in Nat \X Nat |-> V(s)]
    BY <2>1, <2>2
  <2>4. QED
    BY <2>3 DEF V
<1>5. Gcd = CHOOSE h : Eq(h)
  BY Zenon DEF Gcd
<1> HIDE DEF H
<1>6. Eq(Gcd)
  <2> HIDE DEF Eq
  <2>1. QED
    BY Zenon, <1>4, <1>5
<1>7. <<a, b>> \in Nat \X Nat
  OBVIOUS
<1>8. QED
  BY <1>6, <1>7

\* The remainder is the one below the divisor.
LEMMA RemainderOf ==
  ASSUME NEW n \in Nat \ {0}, NEW q \in Nat, NEW r \in Nat, r < n
  PROVE  (n * q + r) % n = r
<1> DEFINE c == n * q + r
           m == c \div n
           t == c % n
<1>1. c \in Nat /\ n * q \in Nat
  OBVIOUS
<1>2. m \in Nat /\ t \in Nat /\ c = n * m + t /\ t < n
  <2> HIDE DEF c
  <2>1. QED
    BY <1>1, DivBounds, ModBounds
<1> HIDE DEF m, t
<1>3. ~(m < q)
  <2>1. SUFFICES ASSUME m + 1 <= q PROVE FALSE
    BY <1>2
  <2>2. n * (m + 1) <= n * q /\ n * (m + 1) = n * m + n
    BY <1>2, <2>1, MulMonotone
  <2>3. n * m \in Nat
    BY <1>2
  <2>4. QED
    BY <1>1, <1>2, <2>2, <2>3
<1>4. ~(q < m)
  <2>1. SUFFICES ASSUME q + 1 <= m PROVE FALSE
    BY <1>2
  <2>2. n * (q + 1) <= n * m /\ n * (q + 1) = n * q + n
    BY <1>2, <2>1, MulMonotone
  <2>3. n * m \in Nat
    BY <1>2
  <2>4. QED
    BY <1>1, <1>2, <2>2, <2>3
<1>5. m = q
  BY <1>2, <1>3, <1>4
<1>6. t = r
  BY <1>1, <1>2, <1>5
<1>7. QED
  BY <1>6 DEF t

\* It divides both numbers.
LEMMA GcdDivides ==
  ASSUME NEW a \in Nat, NEW b \in Nat, a # 0 \/ b # 0
  PROVE  /\ Gcd[<<a, b>>] \in Nat \ {0}
         /\ \E k, l \in Nat : a = Gcd[<<a, b>>] * k /\ b = Gcd[<<a, b>>] * l
<1> DEFINE Divides(c, d) ==
             c # 0 \/ d # 0 =>
               /\ Gcd[<<c, d>>] \in Nat \ {0}
               /\ \E k, l \in Nat : c = Gcd[<<c, d>>] * k /\ d = Gcd[<<c, d>>] * l
           S == {n \in Nat : \A d \in 0 .. n : \A c \in Nat : Divides(c, d)}
<1>1. 0 \in S
  <2>1. ASSUME NEW c \in Nat PROVE Divides(c, 0)
    <3>1. Gcd[<<c, 0>>] = c
      BY GcdStep
    <3>2. c = c * 1 /\ 0 = c * 0
      OBVIOUS
    <3>3. QED
      BY <3>1, <3>2
  <2> HIDE DEF Divides
  <2>2. \A d \in 0 .. 0 : d = 0
    OBVIOUS
  <2>3. QED
    BY <2>1, <2>2
<1>2. ASSUME NEW n \in Nat, n \in S PROVE n + 1 \in S
  <2>1. ASSUME NEW c \in Nat PROVE Divides(c, n + 1)
    <3> DEFINE e == n + 1
               r == c % e
               q == c \div e
               g == Gcd[<<e, r>>]
    <3>1. r \in 0 .. n /\ q \in Nat /\ c = e * q + r /\ e \in Nat \ {0}
      <4>1. e \in Nat \ {0} /\ e - 1 = n
        OBVIOUS
      <4> HIDE DEF e
      <4>2. QED
        BY <4>1, ModBounds, DivBounds
    <3>2. Gcd[<<c, e>>] = g
      BY <3>1, GcdStep
    <3> HIDE DEF r, q
    <3>3. Divides(e, r)
      BY <1>2, <3>1
    <3>4. g \in Nat \ {0} /\ \E k, l \in Nat : e = g * k /\ r = g * l
      BY <3>1, <3>3
    <3> HIDE DEF g
    <3>5. PICK k \in Nat, l \in Nat : e = g * k /\ r = g * l
      BY <3>4
    <3>6. c = g * (k * q + l) /\ k * q + l \in Nat
      BY <3>1, <3>4, <3>5
    <3>7. QED
      BY <3>2, <3>4, <3>5, <3>6
  <2> HIDE DEF Divides
  <2>2. \A d \in 0 .. n + 1 : d \in 0 .. n \/ d = n + 1
    OBVIOUS
  <2>3. QED
    BY <1>2, <2>1, <2>2
<1>3. Nat \subseteq S
  <2> HIDE DEF S
  <2>1. QED
    BY <1>1, <1>2, Induction
<1>4. b \in S
  BY <1>3
<1>5. Divides(a, b)
  <2>1. b \in 0 .. b
    OBVIOUS
  <2> HIDE DEF Divides
  <2>2. QED
    BY <1>4, <2>1
<1>6. QED
  BY <1>5

\* A common factor comes out.
LEMMA GcdScales ==
  ASSUME NEW a \in Nat, NEW b \in Nat, NEW c \in Nat \ {0}
  PROVE  Gcd[<<c * a, c * b>>] = c * Gcd[<<a, b>>]
<1> DEFINE Scales(x, y) == Gcd[<<c * x, c * y>>] = c * Gcd[<<x, y>>]
           S == {n \in Nat : \A d \in 0 .. n : \A x \in Nat : Scales(x, d)}
<1>1. 0 \in S
  <2>1. ASSUME NEW x \in Nat PROVE Scales(x, 0)
    <3>1. c * x \in Nat /\ c * 0 = 0
      OBVIOUS
    <3>2. Gcd[<<x, 0>>] = x /\ Gcd[<<c * x, 0>>] = c * x
      BY <3>1, GcdStep
    <3>3. QED
      BY <3>1, <3>2
  <2> HIDE DEF Scales
  <2>2. \A d \in 0 .. 0 : d = 0
    OBVIOUS
  <2>3. QED
    BY <2>1, <2>2
<1>2. ASSUME NEW n \in Nat, n \in S PROVE n + 1 \in S
  <2>1. ASSUME NEW x \in Nat PROVE Scales(x, n + 1)
    <3> DEFINE e == n + 1
               r == x % e
               q == x \div e
    <3>1. r \in 0 .. n /\ q \in Nat /\ x = e * q + r /\ e \in Nat \ {0} /\ r < e
      <4>1. e \in Nat \ {0} /\ e - 1 = n
        OBVIOUS
      <4> HIDE DEF e
      <4>2. QED
        BY <4>1, ModBounds, DivBounds
    <3>2. Gcd[<<x, e>>] = Gcd[<<e, r>>]
      BY <3>1, GcdStep
    <3> HIDE DEF r, q, e
    <3>3. /\ c * x \in Nat /\ c * e \in Nat \ {0} /\ c * r \in Nat
          /\ c * x = (c * e) * q + c * r
      BY <3>1
    <3>4. c * r < c * e
      <4>1. PICK d \in Nat \ {0} : e = r + d
        <5>1. e - r \in Nat \ {0} /\ e = r + (e - r)
          BY <3>1
        <5>2. QED
          BY <5>1
      <4>2. c * e = c * r + c * d /\ c * d \in Nat \ {0}
        BY <3>1, <4>1
      <4>3. QED
        BY <3>3, <4>2
    <3>5. (c * x) % (c * e) = c * r
      <4> DEFINE ce == c * e
                 cr == c * r
                 cx == c * x
      <4>1. ce \in Nat \ {0} /\ cr \in Nat /\ cr < ce /\ cx = ce * q + cr
        BY <3>3, <3>4
      <4> HIDE DEF ce, cr, cx
      <4>2. cx % ce = cr
        BY <3>1, <4>1, RemainderOf
      <4>3. QED
        BY <4>2 DEF ce, cr, cx
    <3>6. Gcd[<<c * x, c * e>>] = Gcd[<<c * e, c * r>>]
      BY <3>3, <3>5, GcdStep
    <3>7. Scales(e, r)
      BY <1>2, <3>1
    <3>8. Scales(x, e)
      BY <3>2, <3>6, <3>7
    <3>9. QED
      BY <3>8 DEF e
  <2> HIDE DEF Scales
  <2>2. \A d \in 0 .. n + 1 : d \in 0 .. n \/ d = n + 1
    OBVIOUS
  <2>3. QED
    BY <1>2, <2>1, <2>2
<1>3. Nat \subseteq S
  <2> HIDE DEF S
  <2>1. QED
    BY <1>1, <1>2, Induction
<1>4. b \in S
  BY <1>3
<1>5. Scales(a, b)
  <2>1. b \in 0 .. b
    OBVIOUS
  <2> HIDE DEF Scales
  <2>2. QED
    BY <1>4, <2>1
<1>6. QED
  BY <1>5

\* A factor can be cancelled.
LEMMA Cancel ==
  ASSUME NEW k \in Nat \ {0}, NEW a \in Nat, NEW b \in Nat, k * a = k * b
  PROVE  a = b
<1>1. ASSUME NEW c \in Nat, NEW d \in Nat, c < d PROVE k * c # k * d
  <2>1. k * (c + 1) <= k * d /\ k * (c + 1) = k * c + k /\ k * c \in Nat /\ k * d \in Nat
    BY <1>1, MulMonotone
  <2>2. QED
    BY <2>1
<1>2. QED
  BY <1>1

\* The fraction in its lowest terms.
LEMMA FracLowest ==
  ASSUME NEW a \in Nat, NEW b \in Nat \ {0}
  PROVE  LET g == Gcd[<<a, b>>] IN
         /\ g \in Nat \ {0}
         /\ Frac(a, b)[1] \in Nat /\ Frac(a, b)[2] \in Nat \ {0}
         /\ a = g * Frac(a, b)[1] /\ b = g * Frac(a, b)[2]
         /\ Frac(a, b) = <<Frac(a, b)[1], Frac(a, b)[2]>>
<1> DEFINE g == Gcd[<<a, b>>]
<1>1. g \in Nat \ {0} /\ \E k, l \in Nat : a = g * k /\ b = g * l
  BY GcdDivides
<1>2. Frac(a, b) = <<a \div g, b \div g>>
  BY DEF Frac
<1> HIDE DEF g
<1>3. PICK k \in Nat, l \in Nat : a = g * k /\ b = g * l
  BY <1>1
<1>4. a \div g = k /\ b \div g = l
  BY <1>1, <1>3, Multiple
<1>5. l # 0
  BY <1>1, <1>3
<1>6. QED
  BY <1>1, <1>2, <1>3, <1>4, <1>5 DEF g

\* Fractions are equal when their products across are.
LEMMA FracEqual ==
  ASSUME NEW a \in Nat, NEW b \in Nat \ {0}, NEW c \in Nat, NEW d \in Nat \ {0}
  PROVE  Frac(a, b) = Frac(c, d) <=> a * d = c * b
<1> DEFINE g == Gcd[<<a, b>>]
           h == Gcd[<<c, d>>]
           a1 == Frac(a, b)[1]
           b1 == Frac(a, b)[2]
           c1 == Frac(c, d)[1]
           d1 == Frac(c, d)[2]
<1>1. /\ g \in Nat \ {0} /\ a1 \in Nat /\ b1 \in Nat \ {0} /\ a = g * a1 /\ b = g * b1
      /\ h \in Nat \ {0} /\ c1 \in Nat /\ d1 \in Nat \ {0} /\ c = h * c1 /\ d = h * d1
      /\ Frac(a, b) = <<a1, b1>> /\ Frac(c, d) = <<c1, d1>>
  BY FracLowest
<1>2. Gcd[<<d * a, d * b>>] = d * g /\ Gcd[<<b * c, b * d>>] = b * h
  BY GcdScales
<1> HIDE DEF g, h, a1, b1, c1, d1
<1>3. ASSUME a * d = c * b PROVE a1 = c1 /\ b1 = d1
  <2>1. d * a = b * c /\ d * b = b * d
    BY <1>3
  <2>2. d * g = b * h
    BY <1>2, <2>1
  <2>3. (g * h) * d1 = (g * h) * b1 /\ g * h \in Nat \ {0}
    BY <1>1, <2>2
  <2>4. d1 = b1
    BY <1>1, <2>3, Cancel
  <2>5. (g * h * b1) * a1 = (g * h * b1) * c1 /\ g * h * b1 \in Nat \ {0}
    BY <1>1, <1>3, <2>4
  <2>6. a1 = c1
    BY <1>1, <2>5, Cancel
  <2>7. QED
    BY <2>4, <2>6
<1>4. ASSUME a1 = c1, b1 = d1 PROVE a * d = c * b
  BY <1>1, <1>4
<1>5. QED
  BY <1>1, <1>3, <1>4

\* A fraction is some cancelled form of its numerator and denominator.
LEMMA FracReduced ==
  ASSUME NEW a \in Nat, NEW b \in Nat \ {0}
  PROVE  \E g \in Nat \ {0}, p \in Nat, q \in Nat \ {0} :
           a = g * p /\ b = g * q /\ Frac(a, b) = <<p, q>>
<1> DEFINE g == Gcd[<<a, b>>]
           p == Frac(a, b)[1]
           q == Frac(a, b)[2]
<1>1. /\ g \in Nat \ {0} /\ p \in Nat /\ q \in Nat \ {0}
      /\ a = g * p /\ b = g * q /\ Frac(a, b) = <<p, q>>
  BY FracLowest
<1> HIDE DEF g, p, q
<1>2. QED
  BY <1>1

\* A natural over a positive one is a fraction.
LEMMA FracTyped ==
  ASSUME NEW a \in Nat, NEW b \in Nat \ {0}
  PROVE  Frac(a, b) \in Fractions
<1>1. <<a, b>> \in Nat \X (Nat \ {0}) /\ <<a, b>>[1] = a /\ <<a, b>>[2] = b
  OBVIOUS
<1>2. QED
  BY <1>1 DEF Fractions

\* A fraction is its own numerator over its own denominator.
LEMMA Represented ==
  ASSUME NEW x \in Fractions
  PROVE  x[1] \in Nat /\ x[2] \in Nat \ {0} /\ x = Frac(x[1], x[2])
<1>1. PICK a \in Nat, b \in Nat \ {0} : x = Frac(a, b)
  BY DEF Fractions
<1>2. PICK g \in Nat \ {0} : x[1] \in Nat /\ x[2] \in Nat \ {0} /\ a = g * x[1] /\ b = g * x[2]
  <2>1. PICK g \in Nat \ {0}, p \in Nat, q \in Nat \ {0} :
          a = g * p /\ b = g * q /\ Frac(a, b) = <<p, q>>
    BY FracReduced
  <2>2. x[1] = p /\ x[2] = q
    BY <1>1, <2>1
  <2>3. QED
    BY <2>1, <2>2
<1> DEFINE p == x[1]
           q == x[2]
<1>3. p * b = a * q
  <2>1. p \in Nat /\ q \in Nat \ {0} /\ a = g * p /\ b = g * q
    BY <1>2
  <2> HIDE DEF p, q
  <2>2. QED
    BY <2>1
<1>4. Frac(p, q) = Frac(a, b)
  <2>1. p \in Nat /\ q \in Nat \ {0}
    BY <1>2
  <2> HIDE DEF p, q
  <2>2. QED
    BY <1>3, <2>1, FracEqual
<1>5. QED
  BY <1>1, <1>2, <1>4

\* The operations on any representatives.
LEMMA FracOperations ==
  ASSUME NEW a \in Nat, NEW b \in Nat \ {0}, NEW c \in Nat, NEW d \in Nat \ {0}
  PROVE  /\ Plus(Frac(a, b), Frac(c, d)) = Frac(a * d + c * b, b * d)
         /\ Times(Frac(a, b), Frac(c, d)) = Frac(a * c, b * d)
         /\ c # 0 => Over(Frac(a, b), Frac(c, d)) = Frac(a * d, b * c)
         /\ AtMost(Frac(a, b), Frac(c, d)) <=> a * d <= c * b
         /\ c * b <= a * d => Monus(Frac(a, b), Frac(c, d)) = Frac(a * d - c * b, b * d)
<1>1. PICK g \in Nat \ {0}, p \in Nat, q \in Nat \ {0} :
        a = g * p /\ b = g * q /\ Frac(a, b) = <<p, q>>
  BY FracReduced
<1>2. PICK h \in Nat \ {0}, r \in Nat, t \in Nat \ {0} :
        c = h * r /\ d = h * t /\ Frac(c, d) = <<r, t>>
  BY FracReduced
<1>3. /\ Plus(Frac(a, b), Frac(c, d)) = Frac(p * t + r * q, q * t)
      /\ Times(Frac(a, b), Frac(c, d)) = Frac(p * r, q * t)
      /\ Over(Frac(a, b), Frac(c, d)) = Frac(p * t, q * r)
      /\ AtMost(Frac(a, b), Frac(c, d)) <=> p * t <= r * q
      /\ Monus(Frac(a, b), Frac(c, d)) = IF p * t <= r * q THEN Zero ELSE Frac(p * t - r * q, q * t)
  BY <1>1, <1>2 DEF Plus, Times, Over, AtMost, Monus
<1>4. /\ p * t \in Nat /\ r * q \in Nat /\ q * t \in Nat \ {0} /\ p * r \in Nat
      /\ a * d \in Nat /\ c * b \in Nat /\ b * d \in Nat \ {0} /\ a * c \in Nat
      /\ p * t + r * q \in Nat /\ a * d + c * b \in Nat /\ g * h \in Nat \ {0}
      /\ a * d = (g * h) * (p * t) /\ c * b = (g * h) * (r * q) /\ b * d = (g * h) * (q * t)
      /\ a * c = (g * h) * (p * r)
  BY <1>1, <1>2
<1> DEFINE k == g * h
           u == p * t
           v == r * q
           w == q * t
           z == p * r
           A == a * d
           C == c * b
           B == b * d
           Z == a * c
<1>5. /\ u \in Nat /\ v \in Nat /\ w \in Nat \ {0} /\ z \in Nat /\ k \in Nat \ {0}
      /\ A = k * u /\ C = k * v /\ B = k * w /\ Z = k * z
      /\ A \in Nat /\ C \in Nat /\ B \in Nat \ {0} /\ Z \in Nat
  BY <1>4
<1>6. Frac(u + v, w) = Frac(A + C, B)
  <2> HIDE DEF u, v, w, k, A, B, C
  <2>1. (u + v) * B = (A + C) * w
    BY <1>5
  <2>2. QED
    BY <1>5, <2>1, FracEqual
<1>7. Frac(z, w) = Frac(Z, B)
  <2> HIDE DEF z, w, k, Z, B
  <2>1. z * B = Z * w
    BY <1>5
  <2>2. QED
    BY <1>5, <2>1, FracEqual
<1>8. c # 0 => Frac(u, q * r) = Frac(A, b * c)
  <2>1. SUFFICES ASSUME c # 0 PROVE Frac(u, q * r) = Frac(A, b * c)
    OBVIOUS
  <2>2. r # 0 /\ q * r \in Nat \ {0} /\ b * c \in Nat \ {0} /\ b * c = k * (q * r)
    BY <1>1, <1>2, <2>1
  <2> DEFINE m == q * r
             n == b * c
  <2>3. m \in Nat \ {0} /\ n \in Nat \ {0} /\ n = k * m
    BY <2>2
  <2> HIDE DEF u, A, k, m, n
  <2>4. u * n = A * m
    BY <1>5, <2>3
  <2>5. Frac(u, m) = Frac(A, n)
    BY <1>5, <2>3, <2>4, FracEqual
  <2>6. QED
    BY <2>5 DEF m, n
<1>9. u <= v <=> A <= C
  <2> HIDE DEF u, v, A, C, k
  <2>1. u <= v => k * u <= k * v
    BY <1>5, MulMonotone
  <2>2. v < u => k * (v + 1) <= k * u
    BY <1>5, MulMonotone
  <2>3. k * (v + 1) = k * v + k
    BY <1>5
  <2>4. QED
    BY <1>5, <2>1, <2>2, <2>3
<1>10. C <= A => (IF u <= v THEN Zero ELSE Frac(u - v, w)) = Frac(A - C, B)
  <2>1. SUFFICES ASSUME C <= A
                 PROVE  (IF u <= v THEN Zero ELSE Frac(u - v, w)) = Frac(A - C, B)
    OBVIOUS
  <2> HIDE DEF u, v, w, A, C, B, k
  <2>2. CASE u <= v
    <3>1. A - C = 0
      BY <1>5, <1>9, <2>1, <2>2
    <3>2. Frac(0, B) = Zero
      <4>1. Gcd[<<0, B>>] = Gcd[<<B, 0 % B>>] /\ Gcd[<<B, 0>>] = B
        BY <1>5, GcdStep
      <4>2. 0 % B = 0
        <5>1. (B * 0 + 0) % B = 0
          BY <1>5, RemainderOf
        <5>2. B * 0 + 0 = 0
          BY <1>5
        <5>3. QED
          BY <5>1, <5>2
      <4>3. (B * 0) \div B = 0 /\ (B * 1) \div B = 1
        BY <1>5, Multiple
      <4>4. B * 0 = 0 /\ B * 1 = B
        BY <1>5
      <4>5. 0 \div B = 0 /\ B \div B = 1
        BY <4>3, <4>4
      <4>6. QED
        BY <4>1, <4>2, <4>5 DEF Frac, Zero
    <3>3. QED
      BY <2>2, <3>1, <3>2
  <2>3. CASE ~(u <= v)
    <3>1. u - v \in Nat /\ A - C \in Nat
      BY <1>5, <2>1, <2>3
    <3>2. (u - v) * B = (A - C) * w
      BY <1>5
    <3>3. QED
      BY <1>5, <2>3, <3>1, <3>2, FracEqual
  <2>4. QED
    BY <2>2, <2>3
<1>11. QED
  BY <1>3, <1>6, <1>7, <1>8, <1>9, <1>10

\* A fraction is some natural over a positive one.
LEMMA Representatives ==
  ASSUME NEW x \in Fractions
  PROVE  \E a \in Nat, b \in Nat \ {0} : x = Frac(a, b)
BY Represented

\* Sums and products of fractions are fractions.
LEMMA PlusTimesTyped ==
  ASSUME NEW x \in Fractions, NEW y \in Fractions
  PROVE  Plus(x, y) \in Fractions /\ Times(x, y) \in Fractions
<1>1. PICK a \in Nat, b \in Nat \ {0}, c \in Nat, d \in Nat \ {0} :
        x = Frac(a, b) /\ y = Frac(c, d)
  BY Representatives
<1>2. a * d + c * b \in Nat /\ a * c \in Nat /\ b * d \in Nat \ {0}
  OBVIOUS
<1>3. Plus(x, y) = Frac(a * d + c * b, b * d) /\ Times(x, y) = Frac(a * c, b * d)
  BY <1>1, FracOperations
<1>4. QED
  BY <1>2, <1>3, FracTyped

\* The order of summands does not matter.
LEMMA PlusCommutes ==
  ASSUME NEW x \in Fractions, NEW y \in Fractions
  PROVE  Plus(x, y) = Plus(y, x)
<1>1. x[1] \in Nat /\ x[2] \in Nat /\ y[1] \in Nat /\ y[2] \in Nat
  BY Represented
<1>2. x[1] * y[2] + y[1] * x[2] = y[1] * x[2] + x[1] * y[2] /\ x[2] * y[2] = y[2] * x[2]
  BY <1>1
<1>3. QED
  BY <1>2 DEF Plus

\* The order of factors does not matter.
LEMMA TimesCommutes ==
  ASSUME NEW x \in Fractions, NEW y \in Fractions
  PROVE  Times(x, y) = Times(y, x)
<1>1. x[1] \in Nat /\ x[2] \in Nat /\ y[1] \in Nat /\ y[2] \in Nat
  BY Represented
<1>2. x[1] * y[1] = y[1] * x[1] /\ x[2] * y[2] = y[2] * x[2]
  BY <1>1
<1>3. QED
  BY <1>2 DEF Times

\* Nor does how summands are grouped.
LEMMA PlusAssociates ==
  ASSUME NEW x \in Fractions, NEW y \in Fractions, NEW z \in Fractions
  PROVE  Plus(Plus(x, y), z) = Plus(x, Plus(y, z))
<1>1. PICK a \in Nat, b \in Nat \ {0}, c \in Nat, d \in Nat \ {0}, e \in Nat, f \in Nat \ {0} :
        x = Frac(a, b) /\ y = Frac(c, d) /\ z = Frac(e, f)
  BY Representatives
<1>2. /\ a * d + c * b \in Nat /\ b * d \in Nat \ {0}
      /\ c * f + e * d \in Nat /\ d * f \in Nat \ {0}
  OBVIOUS
<1>3. /\ Plus(x, y) = Frac(a * d + c * b, b * d)
      /\ Plus(y, z) = Frac(c * f + e * d, d * f)
  BY <1>1, FracOperations
<1>4. /\ Plus(Plus(x, y), z) = Frac((a * d + c * b) * f + e * (b * d), (b * d) * f)
      /\ Plus(x, Plus(y, z)) = Frac(a * (d * f) + (c * f + e * d) * b, b * (d * f))
  <2> DEFINE s == a * d + c * b
             bd == b * d
             t == c * f + e * d
             df == d * f
  <2>1. /\ s \in Nat /\ bd \in Nat \ {0} /\ Plus(x, y) = Frac(s, bd)
        /\ t \in Nat /\ df \in Nat \ {0} /\ Plus(y, z) = Frac(t, df)
    BY <1>2, <1>3
  <2> HIDE DEF s, bd, t, df
  <2>2. Plus(Plus(x, y), z) = Frac(s * f + e * bd, bd * f)
    BY <1>1, <2>1, FracOperations
  <2>3. Plus(x, Plus(y, z)) = Frac(a * df + t * b, b * df)
    BY <1>1, <2>1, FracOperations
  <2>4. QED
    BY <2>2, <2>3 DEF s, bd, t, df
<1>5. /\ (a * d + c * b) * f + e * (b * d) = a * (d * f) + (c * f + e * d) * b
      /\ (b * d) * f = b * (d * f)
  OBVIOUS
<1>6. QED
  BY <1>4, <1>5

\* Nor does how factors are grouped.
LEMMA TimesAssociates ==
  ASSUME NEW x \in Fractions, NEW y \in Fractions, NEW z \in Fractions
  PROVE  Times(Times(x, y), z) = Times(x, Times(y, z))
<1>1. PICK a \in Nat, b \in Nat \ {0}, c \in Nat, d \in Nat \ {0}, e \in Nat, f \in Nat \ {0} :
        x = Frac(a, b) /\ y = Frac(c, d) /\ z = Frac(e, f)
  BY Representatives
<1>2. /\ a * c \in Nat /\ b * d \in Nat \ {0}
      /\ c * e \in Nat /\ d * f \in Nat \ {0}
  OBVIOUS
<1>3. Times(x, y) = Frac(a * c, b * d) /\ Times(y, z) = Frac(c * e, d * f)
  BY <1>1, FracOperations
<1>4. /\ Times(Times(x, y), z) = Frac((a * c) * e, (b * d) * f)
      /\ Times(x, Times(y, z)) = Frac(a * (c * e), b * (d * f))
  <2> DEFINE ac == a * c
             bd == b * d
             ce == c * e
             df == d * f
  <2>1. /\ ac \in Nat /\ bd \in Nat \ {0} /\ Times(x, y) = Frac(ac, bd)
        /\ ce \in Nat /\ df \in Nat \ {0} /\ Times(y, z) = Frac(ce, df)
    BY <1>2, <1>3
  <2> HIDE DEF ac, bd, ce, df
  <2>2. Times(Times(x, y), z) = Frac(ac * e, bd * f)
    BY <1>1, <2>1, FracOperations
  <2>3. Times(x, Times(y, z)) = Frac(a * ce, b * df)
    BY <1>1, <2>1, FracOperations
  <2>4. QED
    BY <2>2, <2>3 DEF ac, bd, ce, df
<1>5. (a * c) * e = a * (c * e) /\ (b * d) * f = b * (d * f)
  OBVIOUS
<1>6. QED
  BY <1>4, <1>5

\* A factor distributes over a sum.
LEMMA TimesDistributes ==
  ASSUME NEW x \in Fractions, NEW y \in Fractions, NEW z \in Fractions
  PROVE  Times(z, Plus(x, y)) = Plus(Times(z, x), Times(z, y))
<1>1. PICK a \in Nat, b \in Nat \ {0}, c \in Nat, d \in Nat \ {0}, e \in Nat, f \in Nat \ {0} :
        x = Frac(a, b) /\ y = Frac(c, d) /\ z = Frac(e, f)
  BY Representatives
<1> DEFINE s == a * d + c * b
           bd == b * d
           ea == e * a
           fb == f * b
           ec == e * c
           fd == f * d
<1>2. /\ s \in Nat /\ bd \in Nat \ {0} /\ ea \in Nat /\ fb \in Nat \ {0}
      /\ ec \in Nat /\ fd \in Nat \ {0}
      /\ e * s \in Nat /\ f * bd \in Nat \ {0}
      /\ ea * fd + ec * fb \in Nat /\ fb * fd \in Nat \ {0}
  OBVIOUS
<1>3. Plus(x, y) = Frac(s, bd) /\ Times(z, x) = Frac(ea, fb) /\ Times(z, y) = Frac(ec, fd)
  BY <1>1, FracOperations
<1>4. (e * s) * (fb * fd) = (ea * fd + ec * fb) * (f * bd)
  OBVIOUS
<1> HIDE DEF s, bd, ea, fb, ec, fd
<1>5. Times(z, Plus(x, y)) = Frac(e * s, f * bd)
  BY <1>1, <1>2, <1>3, FracOperations
<1>5a. Plus(Times(z, x), Times(z, y)) = Frac(ea * fd + ec * fb, fb * fd)
  BY <1>2, <1>3, FracOperations
<1>6. QED
  BY <1>2, <1>4, <1>5, <1>5a, FracEqual

\* Zero and one are different fractions.
LEMMA ZeroOne ==
  /\ Zero \in Fractions /\ One \in Fractions /\ Zero # One
  /\ Zero = Frac(0, 1) /\ One = Frac(1, 1)
<1>1. PICK g \in Nat \ {0}, p \in Nat, q \in Nat \ {0} :
        0 = g * p /\ 1 = g * q /\ Frac(0, 1) = <<p, q>>
  <2>1. 0 \in Nat /\ 1 \in Nat \ {0}
    OBVIOUS
  <2>2. QED
    BY ONLY <2>1, FracReduced
<1>2. ~(g > 1)
  <2>1. g > 1 => g * q >= q * 2
    <3>1. g > 1 => q * 2 <= q * g
      BY MulMonotone
    <3>2. QED
      BY <3>1
  <2>2. QED
    BY <1>1, <2>1
<1>3. g = 1 /\ q = 1 /\ p = 0
  BY <1>1, <1>2
<1>4. PICK h \in Nat \ {0}, r \in Nat, t \in Nat \ {0} :
        1 = h * r /\ 1 = h * t /\ Frac(1, 1) = <<r, t>>
  <2>1. PICK n \in Nat \ {0} : n = 1
    OBVIOUS
  <2>2. \E g1 \in Nat \ {0}, p1 \in Nat, q1 \in Nat \ {0} :
          n = g1 * p1 /\ n = g1 * q1 /\ Frac(n, n) = <<p1, q1>>
    BY FracReduced
  <2>3. QED
    BY <2>1, <2>2
<1>5. ~(h > 1)
  <2>1. h > 1 => h * t >= t * 2
    <3>1. h > 1 => t * 2 <= t * h
      BY MulMonotone
    <3>2. QED
      BY <3>1
  <2>2. QED
    BY <1>4, <2>1
<1>6. h = 1 /\ r = 1 /\ t = 1
  BY <1>4, <1>5
<1>7. Zero = Frac(0, 1) /\ One = Frac(1, 1)
  BY <1>1, <1>3, <1>4, <1>6 DEF Zero, One
<1>8. Frac(0, 1) \in Fractions /\ Frac(1, 1) \in Fractions
  BY FracTyped
<1>9. QED
  BY <1>7, <1>8 DEF Zero, One

\* Zero adds nothing, one multiplies nothing, and zero times anything is zero.
LEMMA Units ==
  ASSUME NEW x \in Fractions
  PROVE  /\ Plus(x, Zero) = x /\ Plus(Zero, x) = x
         /\ Times(x, One) = x /\ Times(One, x) = x
         /\ Times(x, Zero) = Zero /\ Times(Zero, x) = Zero
<1>1. PICK a \in Nat, b \in Nat \ {0} : x = Frac(a, b)
  BY Representatives
<1>2. /\ Plus(x, Zero) = Frac(a * 1 + 0 * b, b * 1)
      /\ Times(x, One) = Frac(a * 1, b * 1)
      /\ Times(x, Zero) = Frac(a * 0, b * 1)
  BY <1>1, ZeroOne, FracOperations
<1>3. a * 1 + 0 * b = a /\ b * 1 = b /\ a * 1 = a /\ a * 0 = 0 /\ 0 * 1 = 0 * b
  OBVIOUS
<1>4. Frac(0, b) = Frac(0, 1)
  BY <1>3, FracEqual
<1>5. Plus(x, Zero) = x /\ Times(x, One) = x /\ Times(x, Zero) = Zero
  BY <1>1, <1>2, <1>3, <1>4, ZeroOne
<1>6. QED
  BY <1>5, ZeroOne, PlusCommutes, TimesCommutes

\* A fraction is zero exactly when its numerator is.
LEMMA FracZero ==
  ASSUME NEW a \in Nat, NEW b \in Nat \ {0}
  PROVE  Frac(a, b) = Zero <=> a = 0
<1>1. Frac(a, b) = Frac(0, 1) <=> a * 1 = 0 * b
  BY FracEqual
<1>2. a * 1 = a /\ 0 * b = 0
  OBVIOUS
<1>3. QED
  BY <1>1, <1>2, ZeroOne

\* A summand can be cancelled.
LEMMA PlusCancels ==
  ASSUME NEW x \in Fractions, NEW y \in Fractions, NEW z \in Fractions,
         Plus(x, z) = Plus(y, z)
  PROVE  x = y
<1>1. PICK a \in Nat, b \in Nat \ {0}, c \in Nat, d \in Nat \ {0}, e \in Nat, f \in Nat \ {0} :
        x = Frac(a, b) /\ y = Frac(c, d) /\ z = Frac(e, f)
  BY Representatives
<1> DEFINE s == a * f + e * b
           bf == b * f
           t == c * f + e * d
           df == d * f
<1>2. s \in Nat /\ bf \in Nat \ {0} /\ t \in Nat /\ df \in Nat \ {0}
  OBVIOUS
<1>3. Plus(x, z) = Frac(s, bf) /\ Plus(y, z) = Frac(t, df)
  BY <1>1, FracOperations
<1>4. s * df = t * bf
  <2> HIDE DEF s, t, bf, df
  <2>1. Frac(s, bf) = Frac(t, df)
    BY <1>3
  <2>2. QED
    BY <1>2, <2>1, FracEqual
<1>5. (f * f) * (a * d) = (f * f) * (c * b)
  BY <1>4
<1>6. f * f \in Nat \ {0} /\ a * d \in Nat /\ c * b \in Nat
  OBVIOUS
<1>7. a * d = c * b
  BY <1>5, <1>6, Cancel
<1>8. QED
  BY <1>1, <1>7, FracEqual

\* A sum is zero only when both summands are, a product only when a factor is.
LEMMA ZeroFrom ==
  ASSUME NEW x \in Fractions, NEW y \in Fractions
  PROVE  /\ Plus(x, y) = Zero => x = Zero /\ y = Zero
         /\ Times(x, y) = Zero => x = Zero \/ y = Zero
<1>1. PICK a \in Nat, b \in Nat \ {0}, c \in Nat, d \in Nat \ {0} :
        x = Frac(a, b) /\ y = Frac(c, d)
  BY Representatives
<1>2. /\ a * d + c * b \in Nat /\ a * c \in Nat /\ b * d \in Nat \ {0}
      /\ a * d \in Nat /\ c * b \in Nat
      /\ (a * d = 0 => a = 0) /\ (c * b = 0 => c = 0) /\ (a * c = 0 => a = 0 \/ c = 0)
  OBVIOUS
<1>3. Plus(x, y) = Frac(a * d + c * b, b * d) /\ Times(x, y) = Frac(a * c, b * d)
  BY <1>1, FracOperations
<1>4. /\ Frac(a * d + c * b, b * d) = Zero => a * d + c * b = 0
      /\ Frac(a * c, b * d) = Zero => a * c = 0
  BY <1>2, FracZero
<1>5. (a = 0 => x = Zero) /\ (c = 0 => y = Zero)
  BY <1>1, FracZero
<1>6. QED
  BY <1>2, <1>3, <1>4, <1>5

\* Division by what is not zero is undone by multiplication.
LEMMA OverTimes ==
  ASSUME NEW x \in Fractions, NEW y \in Fractions, y # Zero
  PROVE  Over(x, y) \in Fractions /\ Times(Over(x, y), y) = x
<1>1. PICK a \in Nat, b \in Nat \ {0}, c \in Nat, d \in Nat \ {0} :
        x = Frac(a, b) /\ y = Frac(c, d)
  BY Representatives
<1>2. c # 0
  BY <1>1, FracZero
<1> DEFINE ad == a * d
           bc == b * c
<1>3. ad \in Nat /\ bc \in Nat \ {0} /\ Over(x, y) = Frac(ad, bc)
  BY <1>1, <1>2, FracOperations
<1>4. /\ ad * c \in Nat /\ bc * d \in Nat \ {0} /\ (ad * c) * b = a * (bc * d)
  BY <1>2
<1> HIDE DEF ad, bc
<1>5. Times(Over(x, y), y) = Frac(ad * c, bc * d)
  BY <1>1, <1>3, FracOperations
<1>6. Frac(ad * c, bc * d) = Frac(a, b)
  BY <1>4, FracEqual
<1>7. QED
  BY <1>1, <1>3, <1>5, <1>6, FracTyped

\* max(x - y, 0) + min(x, y) = x
LEMMA MonusLeast ==
  ASSUME NEW x \in Fractions, NEW y \in Fractions
  PROVE  /\ Monus(x, y) \in Fractions /\ Least(x, y) \in Fractions
         /\ Plus(Monus(x, y), Least(x, y)) = x
<1>1. PICK a \in Nat, b \in Nat \ {0}, c \in Nat, d \in Nat \ {0} :
        x = Frac(a, b) /\ y = Frac(c, d)
  BY Representatives
<1>2. CASE AtMost(x, y)
  <2>1. Monus(x, y) = Zero /\ Least(x, y) = x
    BY <1>2 DEF Monus, Least
  <2>2. QED
    BY <2>1, Units, ZeroOne
<1>3. CASE ~AtMost(x, y)
  <2> DEFINE m == a * d - c * b
             bd == b * d
  <2>1. /\ a * d \in Nat /\ c * b \in Nat /\ bd \in Nat \ {0} /\ ~(a * d <= c * b)
    BY <1>1, <1>3, FracOperations
  <2>2. m \in Nat /\ m = a * d - c * b /\ c * b <= a * d
    BY <2>1
  <2>3. Monus(x, y) = Frac(m, bd) /\ Least(x, y) = y
    BY <1>1, <1>3, <2>2, FracOperations DEF Least
  <2>4. (m * d + c * bd) * b = a * (bd * d)
    BY <2>1
  <2>5. m * d + c * bd \in Nat /\ bd * d \in Nat \ {0}
    BY <2>1, <2>2
  <2> HIDE DEF m, bd
  <2>6. Plus(Frac(m, bd), y) = Frac(m * d + c * bd, bd * d)
    BY <1>1, <2>1, <2>2, FracOperations
  <2>7. Frac(m * d + c * bd, bd * d) = Frac(a, b)
    BY <2>4, <2>5, FracEqual
  <2>8. QED
    BY <1>1, <2>1, <2>2, <2>3, <2>6, <2>7, FracTyped
<1>4. QED
  BY <1>2, <1>3

\* The smaller of two does not depend on their order.
LEMMA LeastCommutes ==
  ASSUME NEW x \in Fractions, NEW y \in Fractions
  PROVE  Least(x, y) = Least(y, x)
<1>1. PICK a \in Nat, b \in Nat \ {0}, c \in Nat, d \in Nat \ {0} :
        x = Frac(a, b) /\ y = Frac(c, d)
  BY Representatives
<1>2. a * d \in Nat /\ c * b \in Nat
  OBVIOUS
<1>3. (AtMost(x, y) <=> a * d <= c * b) /\ (AtMost(y, x) <=> c * b <= a * d)
  BY <1>1, FracOperations
<1>4. a * d = c * b => x = y
  BY <1>1, FracEqual
<1>5. QED
  BY <1>2, <1>3, <1>4 DEF Least

\* A factor distributes over the smaller of two.
LEMMA LeastTimes ==
  ASSUME NEW x \in Fractions, NEW y \in Fractions, NEW z \in Fractions
  PROVE  Times(z, Least(x, y)) = Least(Times(z, x), Times(z, y))
<1>1. PICK a \in Nat, b \in Nat \ {0}, c \in Nat, d \in Nat \ {0}, e \in Nat, f \in Nat \ {0} :
        x = Frac(a, b) /\ y = Frac(c, d) /\ z = Frac(e, f)
  BY Representatives
<1>2. CASE z = Zero
  BY <1>2, Units, MonusLeast, PlusTimesTyped DEF Least
<1>3. CASE z # Zero
  <2>1. e # 0
    BY <1>1, <1>3, FracZero
  <2> DEFINE ea == e * a
             fb == f * b
             ec == e * c
             fd == f * d
             k == e * f
             u == a * d
             v == c * b
  <2>2. /\ ea \in Nat /\ fb \in Nat \ {0} /\ ec \in Nat /\ fd \in Nat \ {0}
        /\ k \in Nat \ {0} /\ u \in Nat /\ v \in Nat
        /\ ea * fd = k * u /\ ec * fb = k * v
    BY <2>1
  <2>3. Times(z, x) = Frac(ea, fb) /\ Times(z, y) = Frac(ec, fd)
    BY <1>1, FracOperations
  <2>4. AtMost(x, y) <=> u <= v
    BY <1>1, FracOperations
  <2> HIDE DEF ea, fb, ec, fd, k, u, v
  <2>5. AtMost(Times(z, x), Times(z, y)) <=> k * u <= k * v
    <3>1. AtMost(Frac(ea, fb), Frac(ec, fd)) <=> ea * fd <= ec * fb
      BY <2>2, FracOperations
    <3>2. QED
      BY <2>2, <2>3, <3>1
  <2>6. u <= v => k * u <= k * v
    BY <2>2, MulMonotone
  <2>7. v < u => k * (v + 1) <= k * u
    BY <2>2, MulMonotone
  <2>8. k * (v + 1) = k * v + k
    BY <2>2
  <2>9. AtMost(x, y) <=> AtMost(Times(z, x), Times(z, y))
    BY <2>2, <2>4, <2>5, <2>6, <2>7, <2>8
  <2>10. QED
    BY <2>9 DEF Least
<1>4. QED
  BY <1>2, <1>3

\* What is at most one, and its complement.
LEMMA Complement ==
  ASSUME NEW x \in Fractions, Least(x, One) = x
  PROVE  Monus(One, x) \in Fractions /\ Plus(Monus(One, x), x) = One
BY ZeroOne, MonusLeast, LeastCommutes

\* Taking the smaller of two again changes nothing.
LEMMA LeastOnce ==
  ASSUME NEW x \in Fractions, NEW y \in Fractions
  PROVE  Least(Least(x, y), y) = Least(x, y)
<1>1. PICK a \in Nat, b \in Nat \ {0}, c \in Nat, d \in Nat \ {0} :
        x = Frac(a, b) /\ y = Frac(c, d)
  BY Representatives
<1>2. QED
  BY DEF Least

\* A part is at most the whole.
LEMMA PartOfWhole ==
  ASSUME NEW x \in Fractions, NEW y \in Fractions, Plus(x, y) # Zero
  PROVE  Least(Over(x, Plus(x, y)), One) = Over(x, Plus(x, y))
<1>1. PICK a \in Nat, b \in Nat \ {0}, c \in Nat, d \in Nat \ {0} :
        x = Frac(a, b) /\ y = Frac(c, d)
  BY Representatives
<1>2. PICK p \in Nat, q \in Nat \ {0} : p = a * d + c * b /\ q = b * d
  OBVIOUS
<1>3. Plus(x, y) = Frac(p, q)
  BY <1>1, <1>2, FracOperations
<1>4. p # 0
  BY <1>3, FracZero
<1>5. Over(x, Plus(x, y)) = Frac(a * q, b * p)
  BY <1>1, <1>3, <1>4, FracOperations
<1>6. PICK u \in Nat, v \in Nat \ {0} : u = a * q /\ v = b * p
  BY <1>4
<1>7. u * 1 <= 1 * v
  <2>1. v = u + b * (c * b) /\ b * (c * b) \in Nat
    BY <1>2, <1>6
  <2>2. QED
    BY <2>1
<1>8. AtMost(Frac(u, v), One)
  BY <1>7, ZeroOne, FracOperations
<1>9. QED
  BY <1>5, <1>6, <1>8 DEF Least

-----------------------------------------------------------------------------
(* Sums and products of fractions.                                         *)

\* A sequence of fractions, given by the first and by each from the one before.
LEMMA FractionRecursion ==
  \A n \in Nat : \A c \in Fractions : \A F \in [(1 .. n) \X Fractions -> Fractions] :
     \E h \in [0 .. n -> Fractions] : h[0] = c /\ \A i \in 1 .. n : h[i] = F[<<i, h[i - 1]>>]
<1>1. SUFFICES ASSUME NEW n \in Nat, NEW c \in Fractions, NEW F \in [(1 .. n) \X Fractions -> Fractions]
               PROVE  \E h \in [0 .. n -> Fractions] : h[0] = c /\ \A i \in 1 .. n : h[i] = F[<<i, h[i - 1]>>]
  OBVIOUS
<1>2. QED
  BY ONLY n \in Nat, c \in Fractions, F \in [(1 .. n) \X Fractions -> Fractions], Recursion

\* h are the partial sums of f.
Sums(h, f, n) ==
  /\ h \in [0 .. n -> Fractions]
  /\ h[0] = Zero /\ \A i \in 1 .. n : h[i] = Plus(h[i - 1], f[i])

\* Any fractions have partial sums.
LEMMA SumsExist ==
  ASSUME NEW n \in Nat, NEW f, \A i \in 1 .. n : f[i] \in Fractions
  PROVE  \E h : Sums(h, f, n)
<1> DEFINE F == [s \in (1 .. n) \X Fractions |-> Plus(s[2], f[s[1]])]
<1>1. \A i \in 1 .. n : \A v \in Fractions : Plus(v, f[i]) \in Fractions
  BY PlusTimesTyped
<1>2. F \in [(1 .. n) \X Fractions -> Fractions]
  BY <1>1
<1>3. \A i \in 1 .. n : \A v \in Fractions : F[<<i, v>>] = Plus(v, f[i])
  OBVIOUS
<1> HIDE DEF F
<1>4. PICK h \in [0 .. n -> Fractions] : h[0] = Zero /\ \A i \in 1 .. n : h[i] = F[<<i, h[i - 1]>>]
  BY <1>2, ZeroOne, FractionRecursion
<1>5. ASSUME NEW i \in 1 .. n PROVE h[i] = Plus(h[i - 1], f[i])
  <2>1. i - 1 \in 0 .. n
    OBVIOUS
  <2>2. QED
    BY <1>3, <1>4, <2>1
<1>6. QED
  BY <1>4, <1>5 DEF Sums

\* The total is the last of the partial sums.
LEMMA TotalIs ==
  ASSUME NEW n \in Nat, NEW f, NEW h, Sums(h, f, n)
  PROVE  Total(f, n) = h[n]
<1> DEFINE Eq(g) == g = [i \in 0 .. n |-> IF i = 0 THEN Zero ELSE Plus(g[i - 1], f[i])]
           sum == CHOOSE g : Eq(g)
<1>1. Eq(h)
  <2>1. h = [i \in 0 .. n |-> h[i]]
    BY DEF Sums
  <2>2. ASSUME NEW i \in 0 .. n PROVE h[i] = IF i = 0 THEN Zero ELSE Plus(h[i - 1], f[i])
    BY DEF Sums
  <2>3. [i \in 0 .. n |-> h[i]] = [i \in 0 .. n |-> IF i = 0 THEN Zero ELSE Plus(h[i - 1], f[i])]
    BY <2>2
  <2>4. QED
    BY <2>1, <2>3
<1>2. Eq(sum)
  <2> HIDE DEF Eq
  <2>1. QED
    BY Zenon, <1>1
<1>3. Total(f, n) = sum[n]
  BY Zenon DEF Total
<1> HIDE DEF sum
<1> DEFINE S == {i \in Nat : i <= n => sum[i] = h[i]}
<1>4. 0 \in S
  BY <1>2 DEF Sums
<1>5. ASSUME NEW i \in Nat, i \in S PROVE i + 1 \in S
  <2>1. SUFFICES ASSUME i + 1 <= n PROVE sum[i + 1] = h[i + 1]
    OBVIOUS
  <2>2. sum[i] = h[i] /\ i + 1 \in 1 .. n /\ (i + 1) - 1 = i /\ i + 1 \in 0 .. n /\ i + 1 # 0
    BY <1>5, <2>1
  <2>3. sum[i + 1] = Plus(sum[i], f[i + 1])
    BY <1>2, <2>2
  <2>4. h[i + 1] = Plus(h[i], f[i + 1])
    BY <2>2 DEF Sums
  <2>5. QED
    BY <2>2, <2>3, <2>4
<1>6. Nat \subseteq S
  <2> HIDE DEF S, Eq
  <2>1. QED
    BY <1>4, <1>5, Induction
<1>7. n \in S
  BY <1>6
<1>8. QED
  BY <1>3, <1>7

\* A sum is the sum of all but the last, and the last.
LEMMA TotalStep ==
  ASSUME NEW n \in Nat, NEW f, \A i \in 1 .. n : f[i] \in Fractions
  PROVE  /\ Total(f, 0) = Zero
         /\ Total(f, n) \in Fractions
         /\ \A i \in 1 .. n : Total(f, i) = Plus(Total(f, i - 1), f[i])
<1>1. PICK h : Sums(h, f, n)
  BY SumsExist
<1>2. ASSUME NEW i \in 0 .. n PROVE Total(f, i) = h[i] /\ h[i] \in Fractions
  <2> DEFINE g == [j \in 0 .. i |-> h[j]]
  <2>1. Sums(g, f, i)
    <3>1. \A j \in 0 .. i : g[j] = h[j] /\ h[j] \in Fractions
      BY <1>1 DEF Sums
    <3>2. g \in [0 .. i -> Fractions] /\ g[0] = Zero
      BY <1>1, <3>1 DEF Sums
    <3>3. ASSUME NEW j \in 1 .. i PROVE g[j] = Plus(g[j - 1], f[j])
      <4>1. j \in 1 .. n /\ j \in 0 .. i /\ j - 1 \in 0 .. i
        OBVIOUS
      <4> HIDE DEF g
      <4>2. QED
        BY <1>1, <3>1, <4>1 DEF Sums
    <3> HIDE DEF g
    <3>4. QED
      BY <3>2, <3>3 DEF Sums
  <2>2. g[i] = h[i] /\ h[i] \in Fractions
    BY <1>1 DEF Sums
  <2> HIDE DEF g
  <2>3. i \in Nat
    OBVIOUS
  <2>4. QED
    BY <2>1, <2>2, <2>3, TotalIs
<1>3. ASSUME NEW i \in 1 .. n PROVE Total(f, i) = Plus(Total(f, i - 1), f[i])
  <2>1. i \in 0 .. n /\ i - 1 \in 0 .. n
    OBVIOUS
  <2>2. h[i] = Plus(h[i - 1], f[i])
    BY <1>1 DEF Sums
  <2>3. QED
    BY <1>2, <2>1, <2>2
<1>4. 0 \in 0 .. n /\ n \in 0 .. n /\ h[0] = Zero
  BY <1>1 DEF Sums
<1>5. QED
  BY <1>2, <1>3, <1>4

\* Totals of the same entries are the same.
LEMMA TotalSame ==
  ASSUME NEW n \in Nat, NEW f, NEW g,
         \A i \in 1 .. n : f[i] \in Fractions /\ f[i] = g[i]
  PROVE  Total(f, n) = Total(g, n)
<1>1. PICK h : Sums(h, f, n)
  BY SumsExist
<1>2. Sums(h, g, n)
  BY <1>1 DEF Sums
<1>3. QED
  BY <1>1, <1>2, TotalIs

\* The total of sums is the sum of the totals.
LEMMA TotalPlus ==
  ASSUME NEW n \in Nat, NEW f, NEW g, NEW h,
         \A i \in 1 .. n : f[i] \in Fractions /\ g[i] \in Fractions /\ h[i] = Plus(f[i], g[i])
  PROVE  Total(h, n) = Plus(Total(f, n), Total(g, n))
<1> DEFINE S == {i \in Nat : i <= n => Total(h, i) = Plus(Total(f, i), Total(g, i))}
<1>0. \A i \in 1 .. n : h[i] \in Fractions
  BY PlusTimesTyped
<1>1. 0 \in S
  <2>1. Total(f, 0) = Zero /\ Total(g, 0) = Zero /\ Total(h, 0) = Zero
    BY <1>0, TotalStep
  <2>2. QED
    BY <2>1, ZeroOne, Units
<1>2. ASSUME NEW i \in Nat, i \in S PROVE i + 1 \in S
  <2>1. SUFFICES ASSUME i + 1 <= n PROVE Total(h, i + 1) = Plus(Total(f, i + 1), Total(g, i + 1))
    OBVIOUS
  <2>2. i + 1 \in 1 .. n /\ (i + 1) - 1 = i /\ Total(h, i) = Plus(Total(f, i), Total(g, i))
    BY <1>2, <2>1
  <2> DEFINE a == Total(f, i)
             b == Total(g, i)
             c == f[i + 1]
             d == g[i + 1]
  <2>3. a \in Fractions /\ b \in Fractions /\ c \in Fractions /\ d \in Fractions
    <3>1. \A j \in 1 .. i : j \in 1 .. n
      BY <2>1
    <3>2. QED
      BY <2>2, <3>1, TotalStep
  <2>4. /\ Total(f, i + 1) = Plus(a, c) /\ Total(g, i + 1) = Plus(b, d)
        /\ Total(h, i + 1) = Plus(Plus(a, b), Plus(c, d))
    BY <1>0, <2>2, TotalStep
  <2> HIDE DEF a, b, c, d
  <2>5. Plus(Plus(a, b), Plus(c, d)) = Plus(a, Plus(b, Plus(c, d)))
    BY <2>3, PlusAssociates, PlusTimesTyped
  <2>6. Plus(b, Plus(c, d)) = Plus(c, Plus(b, d))
    BY <2>3, PlusAssociates, PlusCommutes
  <2>7. Plus(a, Plus(c, Plus(b, d))) = Plus(Plus(a, c), Plus(b, d))
    BY <2>3, PlusAssociates, PlusTimesTyped
  <2>8. QED
    BY <2>4, <2>5, <2>6, <2>7
<1>3. Nat \subseteq S
  <2> HIDE DEF S
  <2>1. QED
    BY <1>1, <1>2, Induction
<1>4. n \in S
  BY <1>3
<1>5. QED
  BY <1>4

\* A common factor comes out of a total.
LEMMA TotalTimes ==
  ASSUME NEW n \in Nat, NEW c \in Fractions, NEW f, NEW g,
         \A i \in 1 .. n : f[i] \in Fractions /\ g[i] = Times(c, f[i])
  PROVE  Total(g, n) = Times(c, Total(f, n))
<1> DEFINE S == {i \in Nat : i <= n => Total(g, i) = Times(c, Total(f, i))}
<1>0. \A i \in 1 .. n : g[i] \in Fractions
  BY PlusTimesTyped
<1>1. 0 \in S
  <2>1. Total(f, 0) = Zero /\ Total(g, 0) = Zero
    BY <1>0, TotalStep
  <2>2. QED
    BY <2>1, Units
<1>2. ASSUME NEW i \in Nat, i \in S PROVE i + 1 \in S
  <2>1. SUFFICES ASSUME i + 1 <= n PROVE Total(g, i + 1) = Times(c, Total(f, i + 1))
    OBVIOUS
  <2>2. i + 1 \in 1 .. n /\ (i + 1) - 1 = i /\ Total(g, i) = Times(c, Total(f, i))
    BY <1>2, <2>1
  <2>3. Total(f, i) \in Fractions
    <3>1. \A j \in 1 .. i : j \in 1 .. n
      BY <2>1
    <3>2. QED
      BY <3>1, TotalStep
  <2>4. Total(f, i + 1) = Plus(Total(f, i), f[i + 1]) /\ Total(g, i + 1) = Plus(Total(g, i), g[i + 1])
    BY <1>0, <2>2, TotalStep
  <2>5. QED
    BY <2>2, <2>3, <2>4, TimesDistributes
<1>3. Nat \subseteq S
  <2> HIDE DEF S
  <2>1. QED
    BY <1>1, <1>2, Induction
<1>4. n \in S
  BY <1>3
<1>5. QED
  BY <1>4

\* A sum of which at most one entry is not zero.
LEMMA TotalSingle ==
  ASSUME NEW n \in Nat, NEW k \in 1 .. n, NEW f,
         f[k] \in Fractions, \A i \in 1 .. n : i # k => f[i] = Zero
  PROVE  Total(f, n) = f[k]
<1> DEFINE S == {i \in Nat : i <= n => Total(f, i) = IF i < k THEN Zero ELSE f[k]}
<1>0. \A i \in 1 .. n : f[i] \in Fractions
  BY ZeroOne
<1>1. 0 \in S
  <2>1. Total(f, 0) = Zero
    BY <1>0, TotalStep
  <2>2. QED
    BY <2>1
<1>2. ASSUME NEW i \in Nat, i \in S PROVE i + 1 \in S
  <2>1. SUFFICES ASSUME i + 1 <= n PROVE Total(f, i + 1) = IF i + 1 < k THEN Zero ELSE f[k]
    OBVIOUS
  <2>2. i + 1 \in 1 .. n /\ (i + 1) - 1 = i /\ Total(f, i) = IF i < k THEN Zero ELSE f[k]
    BY <1>2, <2>1
  <2>3. Total(f, i + 1) = Plus(Total(f, i), f[i + 1])
    BY <1>0, <2>2, TotalStep
  <2>4. CASE i + 1 = k
    <3>1. Total(f, i) = Zero
      BY <2>2, <2>4
    <3>2. QED
      BY <2>3, <2>4, <3>1, Units
  <2>5. CASE i + 1 # k
    <3>1. f[i + 1] = Zero
      BY <2>2, <2>5
    <3>2. Total(f, i + 1) = Total(f, i)
      BY <2>2, <2>3, <3>1, Units, ZeroOne
    <3>3. QED
      BY <2>2, <2>5, <3>2
  <2>6. QED
    BY <2>4, <2>5
<1>3. Nat \subseteq S
  <2> HIDE DEF S
  <2>1. QED
    BY <1>1, <1>2, Induction
<1>4. n \in S
  BY <1>3
<1>5. QED
  BY <1>4

\* A sum is zero exactly when every entry is.
LEMMA TotalZero ==
  ASSUME NEW n \in Nat, NEW f, \A i \in 1 .. n : f[i] \in Fractions
  PROVE  Total(f, n) = Zero <=> \A i \in 1 .. n : f[i] = Zero
<1> DEFINE S == {i \in Nat : i <= n => (Total(f, i) = Zero <=> \A j \in 1 .. i : f[j] = Zero)}
<1>1. 0 \in S
  BY TotalStep
<1>2. ASSUME NEW i \in Nat, i \in S PROVE i + 1 \in S
  <2>1. SUFFICES ASSUME i + 1 <= n
                 PROVE  Total(f, i + 1) = Zero <=> \A j \in 1 .. i + 1 : f[j] = Zero
    OBVIOUS
  <2>2. /\ i + 1 \in 1 .. n /\ (i + 1) - 1 = i
        /\ Total(f, i) = Zero <=> \A j \in 1 .. i : f[j] = Zero
    BY <1>2, <2>1
  <2>3. Total(f, i) \in Fractions
    <3>1. \A j \in 1 .. i : j \in 1 .. n
      BY <2>1
    <3>2. QED
      BY <3>1, TotalStep
  <2>4. Total(f, i + 1) = Plus(Total(f, i), f[i + 1])
    BY <2>2, TotalStep
  <2>5. Total(f, i + 1) = Zero <=> Total(f, i) = Zero /\ f[i + 1] = Zero
    BY <2>2, <2>3, <2>4, ZeroFrom, Units, ZeroOne
  <2>6. (\A j \in 1 .. i + 1 : f[j] = Zero) <=> (\A j \in 1 .. i : f[j] = Zero) /\ f[i + 1] = Zero
    <3>1. \A j \in 1 .. i + 1 : j \in 1 .. i \/ j = i + 1
      OBVIOUS
    <3>2. \A j \in 1 .. i : j \in 1 .. i + 1
      OBVIOUS
    <3>3. i + 1 \in 1 .. i + 1
      OBVIOUS
    <3>4. QED
      BY <3>1, <3>2, <3>3
  <2>7. QED
    BY <2>2, <2>5, <2>6
<1>3. Nat \subseteq S
  <2> HIDE DEF S
  <2>1. QED
    BY <1>1, <1>2, Induction
<1>4. n \in S
  BY <1>3
<1>5. QED
  BY <1>4

\* The product from b down to a, as it is defined.
Products(h, f, a, b) ==
  /\ h \in [a .. b + 1 -> Fractions]
  /\ h[b + 1] = One /\ \A i \in a .. b : h[i] = Times(f[i], h[i + 1])

\* Any fractions have products from each place on.
LEMMA ProductsExist ==
  ASSUME NEW a \in Nat, NEW b \in Nat, a <= b + 1, NEW f, \A i \in a .. b : f[i] \in Fractions
  PROVE  \E h : Products(h, f, a, b)
<1>0. PICK n \in Nat : n = b + 1 - a
  OBVIOUS
<1> DEFINE F == [s \in (1 .. n) \X Fractions |-> Times(f[b + 1 - s[1]], s[2])]
<1>1. \A i \in 1 .. n : b + 1 - i \in a .. b
  BY <1>0
<1>2. \A i \in 1 .. n : \A v \in Fractions : Times(f[b + 1 - i], v) \in Fractions
  BY <1>1, PlusTimesTyped
<1>3. F \in [(1 .. n) \X Fractions -> Fractions]
  BY <1>2
<1>4. \A i \in 1 .. n : \A v \in Fractions : F[<<i, v>>] = Times(f[b + 1 - i], v)
  OBVIOUS
<1> HIDE DEF F
<1>5. PICK g \in [0 .. n -> Fractions] : g[0] = One /\ \A i \in 1 .. n : g[i] = F[<<i, g[i - 1]>>]
  <2>1. PICK c \in Fractions : c = One
    BY ZeroOne
  <2>2. \E g \in [0 .. n -> Fractions] : g[0] = c /\ \A i \in 1 .. n : g[i] = F[<<i, g[i - 1]>>]
    BY <1>3, FractionRecursion
  <2>3. QED
    BY <2>1, <2>2
<1> DEFINE h == [i \in a .. b + 1 |-> g[b + 1 - i]]
<1>6. \A i \in a .. b + 1 : b + 1 - i \in 0 .. n
  BY <1>0
<1>7. h \in [a .. b + 1 -> Fractions] /\ h[b + 1] = One
  <2>1. h[b + 1] = g[0]
    OBVIOUS
  <2>2. QED
    BY <1>5, <1>6, <2>1
<1>8. ASSUME NEW i \in a .. b PROVE h[i] = Times(f[i], h[i + 1])
  <2> DEFINE j == b + 1 - i
  <2>1. j \in 1 .. n /\ b + 1 - j = i /\ j - 1 \in 0 .. n /\ j - 1 = b + 1 - (i + 1)
    BY <1>0
  <2>2. h[i] = g[j] /\ h[i + 1] = g[j - 1]
    BY <2>1
  <2> HIDE DEF j, h
  <2>3. g[j] = Times(f[b + 1 - j], g[j - 1])
    BY <1>4, <1>5, <2>1
  <2>4. QED
    BY <2>1, <2>2, <2>3
<1> HIDE DEF h
<1>9. QED
  BY <1>7, <1>8 DEF Products

\* The product is the one from the first place on.
LEMMA ProductIs ==
  ASSUME NEW a \in Nat, NEW b \in Nat, a <= b + 1, NEW f, NEW h, Products(h, f, a, b)
  PROVE  Product(f, a, b) = h[a]
<1> DEFINE Eq(g) == g = [i \in a .. b + 1 |-> IF i = b + 1 THEN One ELSE Times(f[i], g[i + 1])]
           product == CHOOSE g : Eq(g)
<1>1. Eq(h)
  <2>1. h = [i \in a .. b + 1 |-> h[i]]
    BY DEF Products
  <2>2. ASSUME NEW i \in a .. b + 1 PROVE h[i] = IF i = b + 1 THEN One ELSE Times(f[i], h[i + 1])
    BY DEF Products
  <2>3. [i \in a .. b + 1 |-> h[i]] = [i \in a .. b + 1 |-> IF i = b + 1 THEN One ELSE Times(f[i], h[i + 1])]
    BY <2>2
  <2>4. QED
    BY <2>1, <2>3
<1>2. Eq(product)
  <2> HIDE DEF Eq
  <2>1. QED
    BY Zenon, <1>1
<1>3. Product(f, a, b) = product[a]
  BY Zenon DEF Product
<1> HIDE DEF product
<1> DEFINE S == {k \in Nat : b + 1 - k >= a => product[b + 1 - k] = h[b + 1 - k]}
<1>4. 0 \in S
  <2>1. b + 1 \in a .. b + 1 /\ b + 1 - 0 = b + 1
    OBVIOUS
  <2>2. product[b + 1] = h[b + 1]
    BY <1>2, <2>1 DEF Products
  <2>3. QED
    BY <2>1, <2>2
<1>5. ASSUME NEW k \in Nat, k \in S PROVE k + 1 \in S
  <2> DEFINE i == b + 1 - (k + 1)
  <2>1. SUFFICES ASSUME i >= a PROVE product[i] = h[i]
    OBVIOUS
  <2>2. product[i + 1] = h[i + 1] /\ i \in a .. b /\ i \in a .. b + 1 /\ i # b + 1
    <3>1. i + 1 = b + 1 - k
      OBVIOUS
    <3>2. QED
      BY <1>5, <2>1, <3>1
  <2> HIDE DEF i
  <2>3. product[i] = Times(f[i], product[i + 1])
    BY <1>2, <2>2
  <2>4. h[i] = Times(f[i], h[i + 1])
    BY <2>2 DEF Products
  <2>5. QED
    BY <2>2, <2>3, <2>4
<1>6. Nat \subseteq S
  <2> HIDE DEF S, Eq
  <2>1. QED
    BY <1>4, <1>5, Induction
<1>7. b + 1 - a \in S /\ b + 1 - (b + 1 - a) = a
  BY <1>6
<1>8. QED
  BY <1>3, <1>7

\* A product is one when empty, and otherwise its first factor and the rest.
LEMMA ProductStep ==
  ASSUME NEW a \in Nat, NEW b \in Nat, a <= b + 1, NEW f, \A i \in a .. b : f[i] \in Fractions
  PROVE  /\ Product(f, b + 1, b) = One
         /\ Product(f, a, b) \in Fractions
         /\ \A i \in a .. b : Product(f, i, b) = Times(f[i], Product(f, i + 1, b))
<1>1. PICK h : Products(h, f, a, b)
  BY ProductsExist
<1>2. ASSUME NEW k \in a .. b + 1 PROVE Product(f, k, b) = h[k] /\ h[k] \in Fractions
  <2> DEFINE g == [j \in k .. b + 1 |-> h[j]]
  <2>1. Products(g, f, k, b)
    <3>1. \A j \in k .. b + 1 : g[j] = h[j] /\ h[j] \in Fractions
      BY <1>1 DEF Products
    <3>2. g \in [k .. b + 1 -> Fractions] /\ g[b + 1] = One
      BY <1>1, <3>1 DEF Products
    <3>3. ASSUME NEW j \in k .. b PROVE g[j] = Times(f[j], g[j + 1])
      <4>1. j \in a .. b /\ j \in k .. b + 1 /\ j + 1 \in k .. b + 1
        OBVIOUS
      <4> HIDE DEF g
      <4>2. QED
        BY <1>1, <3>1, <4>1 DEF Products
    <3> HIDE DEF g
    <3>4. QED
      BY <3>2, <3>3 DEF Products
  <2>2. g[k] = h[k] /\ h[k] \in Fractions
    BY <1>1 DEF Products
  <2> HIDE DEF g
  <2>3. k \in Nat /\ k <= b + 1
    OBVIOUS
  <2>4. QED
    BY <2>1, <2>2, <2>3, ProductIs
<1>3. ASSUME NEW i \in a .. b PROVE Product(f, i, b) = Times(f[i], Product(f, i + 1, b))
  <2>1. i \in a .. b + 1 /\ i + 1 \in a .. b + 1
    OBVIOUS
  <2>2. h[i] = Times(f[i], h[i + 1])
    BY <1>1 DEF Products
  <2>3. QED
    BY <1>2, <2>1, <2>2
<1>4. a \in a .. b + 1 /\ b + 1 \in a .. b + 1 /\ h[b + 1] = One
  BY <1>1 DEF Products
<1>5. QED
  BY <1>2, <1>3, <1>4

\* Products of the same entries are the same.
LEMMA ProductSame ==
  ASSUME NEW a \in Nat, NEW b \in Nat, a <= b + 1, NEW f, NEW g,
         \A i \in a .. b : f[i] \in Fractions /\ f[i] = g[i]
  PROVE  Product(f, a, b) = Product(g, a, b)
<1>1. PICK h : Products(h, f, a, b)
  BY ProductsExist
<1>2. Products(h, g, a, b)
  BY <1>1 DEF Products
<1>3. QED
  BY <1>1, <1>2, ProductIs

\* A product of fractions is zero exactly when one of them is.
LEMMA ProductZero ==
  ASSUME NEW a \in Nat, NEW b \in Nat, a <= b + 1, NEW f, \A i \in a .. b : f[i] \in Fractions
  PROVE  Product(f, a, b) = Zero <=> \E i \in a .. b : f[i] = Zero
<1> DEFINE P(k) == Product(f, k, b) = Zero <=> \E i \in k .. b : f[i] = Zero
           S == {k \in Nat : b + 1 - k >= a => P(b + 1 - k)}
<1>1. 0 \in S
  <2>1. Product(f, b + 1, b) = One /\ b + 1 - 0 = b + 1
    BY ProductStep
  <2>2. ~ \E i \in b + 1 .. b : f[i] = Zero
    OBVIOUS
  <2>3. P(b + 1)
    BY <2>1, <2>2, ZeroOne
  <2> HIDE DEF P
  <2>4. QED
    BY <2>1, <2>3
<1>2. ASSUME NEW k \in Nat, k \in S PROVE k + 1 \in S
  <2> DEFINE j == b + 1 - (k + 1)
  <2>1. SUFFICES ASSUME j >= a PROVE P(j)
    OBVIOUS
  <2>2. j + 1 = b + 1 - k /\ j \in a .. b
    BY <2>1
  <2>3. P(j + 1)
    <3> HIDE DEF P, j
    <3>1. QED
      BY <1>2, <2>1, <2>2
  <2> HIDE DEF j
  <2>4. Product(f, j, b) = Times(f[j], Product(f, j + 1, b)) /\ Product(f, j + 1, b) \in Fractions
    <3>1. j + 1 \in Nat /\ j + 1 <= b + 1 /\ \A i \in j + 1 .. b : f[i] \in Fractions
      BY <2>2
    <3>2. QED
      BY <2>2, <3>1, ProductStep
  <2>5. Product(f, j, b) = Zero <=> f[j] = Zero \/ Product(f, j + 1, b) = Zero
    BY <2>2, <2>4, ZeroFrom, Units, ZeroOne
  <2>6. (\E i \in j .. b : f[i] = Zero) <=> f[j] = Zero \/ \E i \in j + 1 .. b : f[i] = Zero
    <3>1. \A i \in j .. b : i = j \/ i \in j + 1 .. b
      BY <2>2
    <3>2. j \in j .. b /\ \A i \in j + 1 .. b : i \in j .. b
      BY <2>2
    <3>3. QED
      BY <3>1, <3>2
  <2>7. QED
    BY <2>3, <2>5, <2>6
<1>3. Nat \subseteq S
  <2> HIDE DEF S
  <2>1. QED
    BY <1>1, <1>2, Induction
<1>4. b + 1 - a \in S /\ b + 1 - (b + 1 - a) = a
  BY <1>3
<1>5. QED
  BY <1>4

\* A product up to m, and from there on.
LEMMA ProductSplit ==
  ASSUME NEW a \in Nat, NEW m \in Nat, NEW b \in Nat, a <= m + 1, m <= b, NEW f,
         \A i \in a .. b : f[i] \in Fractions
  PROVE  Product(f, a, b) = Times(Product(f, a, m), Product(f, m + 1, b))
<1> DEFINE P(k) == Product(f, k, b) = Times(Product(f, k, m), Product(f, m + 1, b))
           S == {k \in Nat : m + 1 - k >= a => P(m + 1 - k)}
<1>0. /\ \A i \in a .. m : f[i] \in Fractions
      /\ \A i \in m + 1 .. b : f[i] \in Fractions
      /\ m + 1 \in Nat /\ m + 1 <= b + 1
  OBVIOUS
<1>1. 0 \in S
  <2>1. Product(f, m + 1, m) = One /\ m + 1 - 0 = m + 1
    BY <1>0, ProductStep
  <2>2. Product(f, m + 1, b) \in Fractions
    BY <1>0, ProductStep
  <2>3. P(m + 1)
    BY <2>1, <2>2, Units
  <2> HIDE DEF P
  <2>4. QED
    BY <2>1, <2>3
<1>2. ASSUME NEW k \in Nat, k \in S PROVE k + 1 \in S
  <2> DEFINE j == m + 1 - (k + 1)
  <2>1. SUFFICES ASSUME j >= a PROVE P(j)
    OBVIOUS
  <2>2. j + 1 = m + 1 - k /\ j \in a .. m /\ j \in a .. b
    BY <2>1
  <2>3. P(j + 1)
    <3> HIDE DEF P, j
    <3>1. QED
      BY <1>2, <2>1, <2>2
  <2> HIDE DEF j
  <2>4. /\ Product(f, j, b) = Times(f[j], Product(f, j + 1, b))
        /\ Product(f, j, m) = Times(f[j], Product(f, j + 1, m))
        /\ f[j] \in Fractions
    <3>1. a <= b + 1
      OBVIOUS
    <3>2. QED
      BY <1>0, <2>2, <3>1, ProductStep
  <2>5. Product(f, m + 1, b) \in Fractions /\ Product(f, j + 1, m) \in Fractions
    <3>1. j + 1 \in Nat /\ j + 1 <= m + 1 /\ \A i \in j + 1 .. m : f[i] \in Fractions
      BY <2>2
    <3>2. QED
      BY <1>0, <3>1, ProductStep
  <2>6. QED
    BY <2>3, <2>4, <2>5, TimesAssociates
<1>3. Nat \subseteq S
  <2> HIDE DEF S
  <2>1. QED
    BY <1>1, <1>2, Induction
<1>4. m + 1 - a \in Nat /\ m + 1 - (m + 1 - a) = a
  OBVIOUS
<1>5. m + 1 - a \in S
  BY <1>3, <1>4
<1>6. QED
  BY <1>4, <1>5

-----------------------------------------------------------------------------
(* Drafts, their prefixes and sums over them.                              *)

\* Drafts up to a length, their prefixes, and one more token.
LEMMA DraftTyped ==
  ASSUME NEW n \in Nat, NEW z
  PROVE  /\ z \in DraftsUpTo(n) => Len(z) \in 0 .. n /\ z \in [1 .. Len(z) -> Tokens]
         /\ \A m \in 0 .. n : z \in [1 .. m -> Tokens] => z \in DraftsUpTo(n) /\ Len(z) = m
<1>1. ASSUME NEW m \in 0 .. n, z \in [1 .. m -> Tokens]
      PROVE  z \in DraftsUpTo(n) /\ Len(z) = m
  <2>1. z \in Seq(Tokens) /\ DOMAIN z = 1 .. m /\ m \in Nat
    BY <1>1
  <2>2. Len(z) = m
    BY <2>1, LenProperties
  <2>3. QED
    BY <1>1, <2>2 DEF DraftsUpTo
<1>2. ASSUME z \in DraftsUpTo(n) PROVE Len(z) \in 0 .. n /\ z \in [1 .. Len(z) -> Tokens]
  <2>1. PICK m \in 0 .. n : z \in [1 .. m -> Tokens]
    BY <1>2 DEF DraftsUpTo
  <2>2. QED
    BY <1>1, <2>1
<1>3. QED
  BY <1>1, <1>2

\* A draft with one more token is that token after the same ones.
LEMMA DraftAppend ==
  ASSUME NEW m \in Nat, NEW z \in [1 .. m -> Tokens], NEW t \in Tokens
  PROVE  /\ Append(z, t) \in [1 .. m + 1 -> Tokens]
         /\ Append(z, t)[m + 1] = t
         /\ \A i \in 1 .. m : Append(z, t)[i] = z[i]
<1>1. z \in Seq(Tokens) /\ DOMAIN z = 1 .. m
  OBVIOUS
<1>2. Len(z) = m
  BY <1>1, LenProperties
<1>3. /\ Append(z, t) \in Seq(Tokens) /\ Len(Append(z, t)) = m + 1
      /\ \A i \in 1 .. m : Append(z, t)[i] = z[i]
      /\ Append(z, t)[m + 1] = t
  BY <1>1, <1>2, AppendProperties
<1>4. Append(z, t) \in [1 .. m + 1 -> Tokens]
  BY <1>3, LenProperties
<1>5. QED
  BY <1>3, <1>4

\* A prefix has the first tokens.
LEMMA PrefixTyped ==
  ASSUME NEW m \in Nat, NEW z \in [1 .. m -> Tokens], NEW n \in 0 .. m
  PROVE  /\ Prefix(z, n) \in [1 .. n -> Tokens]
         /\ \A i \in 1 .. n : Prefix(z, n)[i] = z[i]
         /\ Prefix(z, m) = z
<1>1. z \in Seq(Tokens)
  OBVIOUS
<1>2. Len(z) = m
  BY <1>1, LenProperties
<1>3. ASSUME NEW k \in 0 .. m PROVE Prefix(z, k) = [i \in 1 .. k |-> z[i]]
  BY <1>1, <1>2, SubSeqProperties DEF Prefix
<1>4. Prefix(z, m) = z
  BY <1>3
<1>5. QED
  BY <1>3, <1>4

\* Two sequences of the same tokens up to n have the same prefixes up to n.
LEMMA PrefixSame ==
  ASSUME NEW m \in Nat, NEW z \in [1 .. m -> Tokens], NEW k \in Nat, NEW x \in [1 .. k -> Tokens],
         NEW n \in Nat, n <= m, n <= k
  PROVE  /\ (\A i \in 1 .. n : z[i] = x[i]) <=> Prefix(z, n) = Prefix(x, n)
         /\ Prefix(z, n) = Prefix(x, n) =>
              /\ \A i \in 0 .. n : Prefix(z, i) = Prefix(x, i)
              /\ \A i \in 1 .. n : z[i] = x[i]
<1>1. ASSUME NEW i \in 0 .. n
      PROVE  /\ Prefix(z, i) \in [1 .. i -> Tokens] /\ Prefix(x, i) \in [1 .. i -> Tokens]
             /\ \A j \in 1 .. i : Prefix(z, i)[j] = z[j] /\ Prefix(x, i)[j] = x[j]
  BY PrefixTyped
<1>2. ASSUME \A i \in 1 .. n : z[i] = x[i], NEW i \in 0 .. n
      PROVE  Prefix(z, i) = Prefix(x, i)
  <2>1. \A j \in 1 .. i : Prefix(z, i)[j] = Prefix(x, i)[j]
    BY <1>1, <1>2
  <2>2. QED
    BY <1>1, <2>1
<1>3. ASSUME Prefix(z, n) = Prefix(x, n), NEW i \in 1 .. n PROVE z[i] = x[i]
  BY <1>1, <1>3
<1>4. n \in 0 .. n
  OBVIOUS
<1>5. QED
  BY <1>2, <1>3, <1>4

\* A prefix with the next token is the prefix one longer.
LEMMA PrefixStep ==
  ASSUME NEW m \in Nat, NEW z \in [1 .. m -> Tokens], NEW n \in 0 .. m - 1
  PROVE  Prefix(z, n + 1) = Append(Prefix(z, n), z[n + 1])
<1>1. Prefix(z, n) \in [1 .. n -> Tokens] /\ \A i \in 1 .. n : Prefix(z, n)[i] = z[i]
  BY PrefixTyped
<1>2. n + 1 \in 0 .. m /\ z[n + 1] \in Tokens /\ n \in Nat
  OBVIOUS
<1>3. Prefix(z, n + 1) \in [1 .. n + 1 -> Tokens] /\ \A i \in 1 .. n + 1 : Prefix(z, n + 1)[i] = z[i]
  BY <1>2, PrefixTyped
<1> DEFINE x == Append(Prefix(z, n), z[n + 1])
<1>4. /\ x \in [1 .. n + 1 -> Tokens] /\ x[n + 1] = z[n + 1]
      /\ \A i \in 1 .. n : x[i] = Prefix(z, n)[i]
  BY <1>1, <1>2, DraftAppend
<1> HIDE DEF x
<1>5. ASSUME NEW i \in 1 .. n + 1 PROVE x[i] = Prefix(z, n + 1)[i]
  <2>1. i \in 1 .. n \/ i = n + 1
    OBVIOUS
  <2>2. QED
    BY <1>1, <1>3, <1>4, <2>1
<1>6. x = Prefix(z, n + 1)
  BY <1>3, <1>4, <1>5
<1>7. QED
  BY <1>6 DEF x

\* The drafts that begin with z.
Under(z) == {x \in Drafted : Prefix(x, Len(z)) = z}

\* sum is what OverDrafts adds up: at each prefix, what the drafts under it count.
SumTree(sum, f) ==
  sum = [z \in DraftsUpTo(Gamma) |->
           IF Len(z) = Gamma THEN f[z]
           ELSE Total([t \in Tokens |-> sum[Append(z, t)]], Vocab)]

\* The drafts under a prefix with one more token are those with that token there.
LEMMA UnderAppend ==
  ASSUME NEW z \in DraftsUpTo(Gamma), Len(z) # Gamma, NEW t \in Tokens
  PROVE  /\ Append(z, t) \in DraftsUpTo(Gamma) /\ Len(Append(z, t)) = Len(z) + 1
         /\ Prefix(Append(z, t), Len(z)) = z /\ Append(z, t)[Len(z) + 1] = t
         /\ Under(Append(z, t)) = {x \in Under(z) : x[Len(z) + 1] = t}
<1>0. Gamma \in Nat
  BY VerifyAssumption
<1>1. PICK m \in 0 .. Gamma - 1 : m = Len(z) /\ z \in [1 .. m -> Tokens]
  BY <1>0, DraftTyped
<1>2. m \in Nat /\ m + 1 <= Gamma
  BY ONLY m \in 0 .. Gamma - 1, <1>0
<1> DEFINE u == Append(z, t)
<1>3. u \in [1 .. m + 1 -> Tokens] /\ u[m + 1] = t /\ \A i \in 1 .. m : u[i] = z[i]
  BY <1>1, DraftAppend
<1> HIDE DEF u
<1>4. u \in DraftsUpTo(Gamma) /\ Len(u) = m + 1
  <2>1. m + 1 \in 0 .. Gamma
    BY ONLY <1>0, <1>2
  <2>2. QED
    BY <1>0, <1>3, <2>1, DraftTyped
<1>5. m \in Nat /\ m + 1 \in Nat /\ m <= m + 1 /\ m <= m /\ m \in 0 .. m /\ m + 1 <= m + 1
  BY ONLY <1>2
<1>6. Prefix(z, m) = z /\ Prefix(u, m) = z /\ Prefix(u, m + 1) = u
  <2>1. Prefix(z, m) = z
    BY <1>1, <1>5, PrefixTyped
  <2>2. Prefix(u, m) = Prefix(z, m)
    BY <1>1, <1>3, <1>5, PrefixSame
  <2>3. m + 1 \in 0 .. m + 1
    BY <1>5
  <2>4. Prefix(u, m + 1) = u
    BY <1>3, <1>5, <2>3, PrefixTyped
  <2>5. QED
    BY <2>1, <2>2, <2>4
<1>7. ASSUME NEW x \in Drafted
      PROVE  Prefix(x, m + 1) = u <=> Prefix(x, m) = z /\ x[m + 1] = t
  <2>1. x \in [1 .. Gamma -> Tokens] /\ m + 1 <= Gamma /\ m <= Gamma
    BY ONLY x \in Drafted, <1>0, <1>2 DEF Drafted
  <2>2. (\A i \in 1 .. m + 1 : x[i] = u[i]) <=> Prefix(x, m + 1) = Prefix(u, m + 1)
    BY <1>0, <1>3, <1>5, <2>1, PrefixSame
  <2>3. (\A i \in 1 .. m : x[i] = z[i]) <=> Prefix(x, m) = Prefix(z, m)
    <3>1. z \in [1 .. m -> Tokens]
      BY <1>1
    <3>2. QED
      BY ONLY <1>0, <1>5, <2>1, <3>1, PrefixSame
  <2>4. (\A i \in 1 .. m + 1 : x[i] = u[i]) <=> (\A i \in 1 .. m : x[i] = z[i]) /\ x[m + 1] = t
    <3>1. \A i \in 1 .. m + 1 : i \in 1 .. m \/ i = m + 1
      BY <1>5
    <3>2. m + 1 \in 1 .. m + 1 /\ \A i \in 1 .. m : i \in 1 .. m + 1
      BY <1>5
    <3>3. QED
      BY <1>3, <3>1, <3>2
  <2>5. QED
    BY <1>6, <2>2, <2>3, <2>4
<1>8. Under(u) = {x \in Under(z) : x[m + 1] = t}
  BY <1>1, <1>4, <1>7 DEF Under
<1>9. QED
  BY <1>1, <1>3, <1>4, <1>6, <1>8 DEF u

\* A draft of full length is the only one under itself.
LEMMA UnderFull ==
  /\ \A x \in Drafted : x \in DraftsUpTo(Gamma) /\ Len(x) = Gamma /\ Under(x) = {x}
  /\ \A z \in DraftsUpTo(Gamma) : Len(z) = Gamma => z \in Drafted
  /\ <<>> \in DraftsUpTo(Gamma) /\ Len(<<>>) = 0 /\ Under(<<>>) = Drafted
<1>0. Gamma \in Nat /\ 0 \in 0 .. Gamma /\ Gamma \in 0 .. Gamma
  BY VerifyAssumption
<1>1. ASSUME NEW x \in Drafted PROVE x \in DraftsUpTo(Gamma) /\ Len(x) = Gamma /\ Prefix(x, Gamma) = x
  <2>1. x \in [1 .. Gamma -> Tokens]
    BY DEF Drafted
  <2>2. QED
    BY <1>0, <2>1, DraftTyped, PrefixTyped
<1>2. ASSUME NEW x \in Drafted PROVE Under(x) = {x}
  BY <1>1 DEF Under
<1>3. ASSUME NEW z \in DraftsUpTo(Gamma), Len(z) = Gamma PROVE z \in Drafted
  BY <1>0, <1>3, DraftTyped DEF Drafted
<1>4. <<>> \in DraftsUpTo(Gamma) /\ Len(<<>>) = 0
  <2>1. <<>> \in [1 .. 0 -> Tokens]
    OBVIOUS
  <2>2. QED
    BY <1>0, <2>1, DraftTyped
<1>5. ASSUME NEW x \in Drafted PROVE Prefix(x, 0) = <<>>
  <2>1. x \in [1 .. Gamma -> Tokens]
    BY DEF Drafted
  <2>2. Prefix(x, 0) \in [1 .. 0 -> Tokens]
    BY <1>0, <2>1, PrefixTyped
  <2>3. QED
    BY <2>2
<1>6. Under(<<>>) = Drafted
  BY <1>4, <1>5 DEF Under
<1>7. QED
  BY <1>1, <1>2, <1>3, <1>4, <1>6

\* Whatever the drafts count, there are sums over the prefixes.
LEMMA TreeExists ==
  ASSUME NEW f
  PROVE  \E sum : SumTree(sum, f)
<1> DEFINE Step(g, z) == IF Len(z) = Gamma THEN f[z]
                         ELSE Total([t \in Tokens |-> g[Append(z, t)]], Vocab)
           Level(g, k) == \A z \in DraftsUpTo(Gamma) : Len(z) + k >= Gamma => g[z] = Step(g, z)
           S == {k \in Nat : \E g : Level(g, k)}
<1>0. Gamma \in Nat /\ \A z \in DraftsUpTo(Gamma) : Len(z) \in 0 .. Gamma
  BY VerifyAssumption, DraftTyped
<1>1. 0 \in S
  <2> DEFINE g == [z \in DraftsUpTo(Gamma) |-> f[z]]
  <2>1. ASSUME NEW z \in DraftsUpTo(Gamma), Len(z) + 0 >= Gamma PROVE g[z] = Step(g, z)
    BY <1>0, <2>1
  <2>2. Level(g, 0)
    BY <2>1
  <2>3. QED
    BY <2>2
<1>2. ASSUME NEW k \in Nat, k \in S PROVE k + 1 \in S
  <2>1. PICK g : Level(g, k)
    BY <1>2
  <2> DEFINE h == [z \in DraftsUpTo(Gamma) |-> IF Len(z) + k >= Gamma THEN g[z] ELSE Step(g, z)]
  <2>2. ASSUME NEW z \in DraftsUpTo(Gamma), Len(z) + (k + 1) >= Gamma PROVE h[z] = Step(h, z)
    <3>1. h[z] = Step(g, z)
      BY <2>1
    <3>2. CASE Len(z) = Gamma
      BY <3>1, <3>2
    <3>3. CASE Len(z) # Gamma
      <4>1. ASSUME NEW t \in Tokens PROVE h[Append(z, t)] = g[Append(z, t)]
        <5>1. Append(z, t) \in DraftsUpTo(Gamma) /\ Len(Append(z, t)) = Len(z) + 1
          BY <3>3, UnderAppend
        <5>2. Len(Append(z, t)) + k >= Gamma
          BY <1>0, <2>2, <5>1
        <5>3. QED
          BY <5>1, <5>2
      <4>2. [t \in Tokens |-> h[Append(z, t)]] = [t \in Tokens |-> g[Append(z, t)]]
        BY <4>1
      <4> HIDE DEF h
      <4>3. Step(h, z) = Step(g, z)
        BY <3>3, <4>2
      <4>4. QED
        BY <3>1, <4>3
    <3>4. QED
      BY <3>2, <3>3
  <2> HIDE DEF h, Step
  <2>3. Level(h, k + 1)
    BY <2>2
  <2>4. QED
    BY <2>3
<1>3. Nat \subseteq S
  <2> HIDE DEF S
  <2>1. QED
    BY <1>1, <1>2, Induction
<1>4. PICK g : Level(g, Gamma)
  <2>1. Gamma \in S
    BY <1>0, <1>3
  <2> HIDE DEF Level
  <2>2. QED
    BY <2>1
<1> DEFINE sum == [z \in DraftsUpTo(Gamma) |-> g[z]]
<1>5. ASSUME NEW z \in DraftsUpTo(Gamma) PROVE sum[z] = Step(sum, z)
  <2>1. sum[z] = Step(g, z)
    <3>1. Len(z) + Gamma >= Gamma
      BY <1>0
    <3>2. g[z] = Step(g, z)
      BY <1>4, <3>1
    <3> HIDE DEF Step
    <3>3. QED
      BY <3>2
  <2>2. CASE Len(z) = Gamma
    BY <2>1, <2>2
  <2>3. CASE Len(z) # Gamma
    <3>1. \A t \in Tokens : sum[Append(z, t)] = g[Append(z, t)]
      BY <2>3, UnderAppend
    <3>2. [t \in Tokens |-> sum[Append(z, t)]] = [t \in Tokens |-> g[Append(z, t)]]
      BY <3>1
    <3> HIDE DEF sum
    <3>3. QED
      BY <2>1, <2>3, <3>2
  <2>4. QED
    BY <2>2, <2>3
<1>6. SumTree(sum, f)
  <2>1. sum = [z \in DraftsUpTo(Gamma) |-> sum[z]]
    OBVIOUS
  <2> HIDE DEF sum
  <2>2. [z \in DraftsUpTo(Gamma) |-> sum[z]] = [z \in DraftsUpTo(Gamma) |-> Step(sum, z)]
    BY <1>5
  <2>3. QED
    BY <2>1, <2>2 DEF SumTree
<1>7. QED
  BY <1>6

\* The sum over all drafts is the one at the empty prefix.
LEMMA OverDraftsIs ==
  ASSUME NEW f
  PROVE  \E sum : SumTree(sum, f) /\ OverDrafts(f) = sum[<<>>]
<1> DEFINE Eq(g) == g = [z \in DraftsUpTo(Gamma) |->
                          IF Len(z) = Gamma THEN f[z]
                          ELSE Total([t \in Tokens |-> g[Append(z, t)]], Vocab)]
           sum == CHOOSE g : Eq(g)
<1>1. \E g : Eq(g)
  BY TreeExists DEF SumTree
<1>2. Eq(sum)
  <2> HIDE DEF Eq
  <2>1. QED
    BY Zenon, <1>1
<1>3. OverDrafts(f) = sum[<<>>]
  BY Zenon DEF OverDrafts
<1> HIDE DEF sum
<1>4. SumTree(sum, f)
  BY <1>2 DEF SumTree
<1>5. QED
  BY <1>3, <1>4

\* At a draft it is what the draft counts, at a prefix the total over the next token.
LEMMA TreeStep ==
  ASSUME NEW sum, NEW f, SumTree(sum, f)
  PROVE  /\ \A z \in Drafted : sum[z] = f[z]
         /\ \A z \in DraftsUpTo(Gamma) : Len(z) # Gamma =>
              sum[z] = Total([t \in Tokens |-> sum[Append(z, t)]], Vocab)
<1>1. \A z \in DraftsUpTo(Gamma) :
        sum[z] = IF Len(z) = Gamma THEN f[z]
                 ELSE Total([t \in Tokens |-> sum[Append(z, t)]], Vocab)
  BY DEF SumTree
<1>2. QED
  BY <1>1, UnderFull

\* It is a fraction where the drafts under the prefix count fractions.
LEMMA TreeTyped ==
  ASSUME NEW sum, NEW f, SumTree(sum, f), NEW z \in DraftsUpTo(Gamma),
         \A x \in Under(z) : f[x] \in Fractions
  PROVE  sum[z] \in Fractions
<1> DEFINE P(u) == (\A x \in Under(u) : f[x] \in Fractions) => sum[u] \in Fractions
           S == {k \in Nat : \A u \in DraftsUpTo(Gamma) : Len(u) + k = Gamma => P(u)}
<1>0. Gamma \in Nat /\ Vocab \in Nat /\ \A u \in DraftsUpTo(Gamma) : Len(u) \in 0 .. Gamma
  BY VerifyAssumption, DraftTyped
<1>1. 0 \in S
  <2>1. ASSUME NEW u \in DraftsUpTo(Gamma), Len(u) + 0 = Gamma PROVE P(u)
    <3>1. u \in Drafted /\ Under(u) = {u}
      BY <1>0, <2>1, UnderFull
    <3>2. QED
      BY <3>1, TreeStep
  <2> HIDE DEF P
  <2>2. QED
    BY <2>1
<1>2. ASSUME NEW k \in Nat, k \in S PROVE k + 1 \in S
  <2>1. ASSUME NEW u \in DraftsUpTo(Gamma), Len(u) + (k + 1) = Gamma,
               \A x \in Under(u) : f[x] \in Fractions
        PROVE  sum[u] \in Fractions
    <3>0. Len(u) # Gamma
      BY <1>0, <2>1
    <3> DEFINE s == [t \in Tokens |-> sum[Append(u, t)]]
    <3>1. ASSUME NEW t \in Tokens PROVE s[t] \in Fractions
      <4>1. Append(u, t) \in DraftsUpTo(Gamma) /\ Len(Append(u, t)) + k = Gamma
        BY <1>0, <2>1, <3>0, UnderAppend
      <4>2. \A x \in Under(Append(u, t)) : f[x] \in Fractions
        BY <2>1, <3>0, UnderAppend
      <4>3. P(Append(u, t))
        <5> HIDE DEF P
        <5>1. QED
          BY <1>2, <4>1
      <4>4. QED
        BY <4>2, <4>3
    <3>2. sum[u] = Total(s, Vocab)
      BY <3>0, TreeStep
    <3> HIDE DEF s
    <3>3. QED
      BY <1>0, <3>1, <3>2, TotalStep DEF Tokens
  <2>2. \A u \in DraftsUpTo(Gamma) : Len(u) + (k + 1) = Gamma => P(u)
    BY <2>1
  <2> HIDE DEF P
  <2>3. QED
    BY <2>2
<1>3. Nat \subseteq S
  <2> HIDE DEF S
  <2>1. QED
    BY <1>1, <1>2, Induction
<1>4. PICK k \in Nat : Len(z) + k = Gamma
  <2>1. Gamma - Len(z) \in Nat /\ Len(z) + (Gamma - Len(z)) = Gamma
    BY <1>0
  <2>2. QED
    BY <2>1
<1>5. P(z)
  <2> HIDE DEF P
  <2>1. k \in S
    BY <1>3
  <2>2. QED
    BY <1>4, <2>1
<1>6. QED
  BY <1>5

\* What each draft counts may be scaled before the sum or after it.
LEMMA TreeScales ==
  ASSUME NEW sum, NEW f, SumTree(sum, f), NEW other, NEW g, SumTree(other, g),
         NEW c \in Fractions, NEW z \in DraftsUpTo(Gamma),
         \A x \in Under(z) : g[x] \in Fractions /\ f[x] = Times(c, g[x])
  PROVE  sum[z] = Times(c, other[z])
<1> DEFINE H(u) == \A x \in Under(u) : g[x] \in Fractions /\ f[x] = Times(c, g[x])
           P(u) == H(u) => sum[u] = Times(c, other[u])
           S == {k \in Nat : \A u \in DraftsUpTo(Gamma) : Len(u) + k = Gamma => P(u)}
<1>0. Gamma \in Nat /\ Vocab \in Nat /\ \A u \in DraftsUpTo(Gamma) : Len(u) \in 0 .. Gamma
  BY VerifyAssumption, DraftTyped
<1>1. 0 \in S
  <2>1. ASSUME NEW u \in DraftsUpTo(Gamma), Len(u) + 0 = Gamma PROVE P(u)
    <3>1. u \in Drafted /\ Under(u) = {u}
      BY <1>0, <2>1, UnderFull
    <3>2. sum[u] = f[u] /\ other[u] = g[u]
      BY <3>1, TreeStep
    <3>3. QED
      BY <3>1, <3>2
  <2> HIDE DEF P
  <2>2. QED
    BY <2>1
<1>2. ASSUME NEW k \in Nat, k \in S PROVE k + 1 \in S
  <2>1. ASSUME NEW u \in DraftsUpTo(Gamma), Len(u) + (k + 1) = Gamma, H(u)
        PROVE  sum[u] = Times(c, other[u])
    <3>0. Len(u) # Gamma
      BY <1>0, <2>1
    <3> DEFINE s == [t \in Tokens |-> sum[Append(u, t)]]
               o == [t \in Tokens |-> other[Append(u, t)]]
    <3>1. ASSUME NEW t \in Tokens PROVE o[t] \in Fractions /\ s[t] = Times(c, o[t])
      <4>1. Append(u, t) \in DraftsUpTo(Gamma) /\ Len(Append(u, t)) + k = Gamma
        BY <1>0, <2>1, <3>0, UnderAppend
      <4>2. H(Append(u, t))
        BY <2>1, <3>0, UnderAppend
      <4>3. P(Append(u, t))
        <5> HIDE DEF P
        <5>1. QED
          BY <1>2, <4>1
      <4>4. \A x \in Under(Append(u, t)) : g[x] \in Fractions
        BY <4>2
      <4>5. other[Append(u, t)] \in Fractions
        BY <4>1, <4>4, TreeTyped
      <4>6. QED
        BY <4>2, <4>3, <4>5
    <3>2. sum[u] = Total(s, Vocab) /\ other[u] = Total(o, Vocab)
      BY <3>0, TreeStep
    <3> HIDE DEF s, o
    <3>3. Total(s, Vocab) = Times(c, Total(o, Vocab))
      BY <1>0, <3>1, TotalTimes DEF Tokens
    <3>4. QED
      BY <3>2, <3>3
  <2>2. \A u \in DraftsUpTo(Gamma) : Len(u) + (k + 1) = Gamma => P(u)
    BY <2>1
  <2> HIDE DEF P
  <2>3. QED
    BY <2>2
<1>3. Nat \subseteq S
  <2> HIDE DEF S
  <2>1. QED
    BY <1>1, <1>2, Induction
<1>4. PICK k \in Nat : Len(z) + k = Gamma
  <2>1. Gamma - Len(z) \in Nat /\ Len(z) + (Gamma - Len(z)) = Gamma
    BY <1>0
  <2>2. QED
    BY <2>1
<1>5. P(z)
  <2> HIDE DEF P
  <2>1. k \in S
    BY <1>3
  <2>2. QED
    BY <1>4, <2>1
<1>6. QED
  BY <1>5

\* It is zero where they count nothing.
LEMMA TreeZero ==
  ASSUME NEW sum, NEW f, SumTree(sum, f), NEW z \in DraftsUpTo(Gamma),
         \A x \in Under(z) : f[x] = Zero
  PROVE  sum[z] = Zero
<1>1. Zero \in Fractions /\ \A x \in Under(z) : f[x] \in Fractions /\ f[x] = Times(Zero, f[x])
  BY ZeroOne, Units
<1>2. sum[z] \in Fractions
  BY <1>1, TreeTyped
<1>3. sum[z] = Times(Zero, sum[z])
  BY <1>1, TreeScales
<1>4. QED
  BY <1>2, <1>3, Units

\* Where only the drafts that begin with z count, they are the sum.
LEMMA TreeUnder ==
  ASSUME NEW sum, NEW f, SumTree(sum, f), NEW z \in DraftsUpTo(Gamma),
         \A x \in Drafted : f[x] \in Fractions,
         \A x \in Drafted \ Under(z) : f[x] = Zero
  PROVE  sum[<<>>] = sum[z]
<1> DEFINE S == {k \in Nat : k <= Len(z) => sum[<<>>] = sum[Prefix(z, k)]}
<1>0. /\ Gamma \in Nat /\ Vocab \in Nat /\ Len(z) \in 0 .. Gamma
      /\ z \in [1 .. Len(z) -> Tokens] /\ Len(z) \in Nat
  BY VerifyAssumption, DraftTyped
<1>1. 0 \in S
  <2>1. 0 \in 0 .. Len(z) /\ Len(z) \in Nat
    BY <1>0
  <2>2. Prefix(z, 0) \in [1 .. 0 -> Tokens]
    BY <1>0, <2>1, PrefixTyped
  <2>3. Prefix(z, 0) = <<>>
    BY <2>2
  <2>4. QED
    BY <2>3
<1>2. ASSUME NEW k \in Nat, k \in S PROVE k + 1 \in S
  <2>1. SUFFICES ASSUME k + 1 <= Len(z) PROVE sum[<<>>] = sum[Prefix(z, k + 1)]
    OBVIOUS
  <2>3. sum[<<>>] = sum[Prefix(z, k)]
    BY <1>0, <1>2, <2>1
  <2> DEFINE u == Prefix(z, k)
             e == z[k + 1]
  <2>4. /\ u \in [1 .. k -> Tokens] /\ e \in Tokens /\ Prefix(z, k + 1) = Append(u, e)
        /\ k \in 0 .. Gamma /\ k # Gamma
    <3>1. k \in 0 .. Len(z) /\ k \in 0 .. Len(z) - 1 /\ k + 1 \in 1 .. Len(z)
      BY <1>0, <2>1
    <3>2. u \in [1 .. k -> Tokens]
      BY <1>0, <3>1, PrefixTyped
    <3>3. Prefix(z, k + 1) = Append(u, e)
      BY <1>0, <3>1, PrefixStep
    <3>4. e \in Tokens
      BY <1>0, <3>1
    <3>5. k \in 0 .. Gamma /\ k # Gamma
      BY <1>0, <2>1
    <3>6. QED
      BY <3>2, <3>3, <3>4, <3>5
  <2>5. u \in DraftsUpTo(Gamma) /\ Len(u) = k
    <3> HIDE DEF u
    <3>1. QED
      BY <1>0, <2>4, DraftTyped
  <2>6. \A x \in Under(z) : x[k + 1] = e
    <3>1. ASSUME NEW x \in Under(z) PROVE x[k + 1] = e
      <4>1. x \in [1 .. Gamma -> Tokens] /\ Prefix(x, Len(z)) = z
        BY DEF Under, Drafted
      <4>2. Prefix(z, Len(z)) = z
        BY <1>0, PrefixTyped
      <4>3. \A i \in 1 .. Len(z) : x[i] = z[i]
        <5>1. Len(z) <= Gamma /\ Len(z) <= Len(z)
          BY <1>0
        <5>2. QED
          BY <1>0, <4>1, <4>2, <5>1, PrefixSame
      <4>4. QED
        BY <1>0, <2>1, <4>3
    <3>2. QED
      BY <3>1
  <2> HIDE DEF u, e
  <2> DEFINE s == [t \in Tokens |-> sum[Append(u, t)]]
  <2>7. ASSUME NEW t \in Tokens PROVE s[t] \in Fractions /\ (t # e => s[t] = Zero)
    <3>1. /\ Append(u, t) \in DraftsUpTo(Gamma)
          /\ Under(Append(u, t)) = {x \in Under(u) : x[k + 1] = t}
      BY <2>4, <2>5, UnderAppend
    <3>2. Under(Append(u, t)) \subseteq Drafted
      BY DEF Under
    <3>3. sum[Append(u, t)] \in Fractions
      BY <3>1, <3>2, TreeTyped
    <3>4. ASSUME t # e PROVE sum[Append(u, t)] = Zero
      <4>1. \A x \in Under(Append(u, t)) : f[x] = Zero
        BY <2>6, <3>1, <3>2, <3>4
      <4>2. QED
        BY <3>1, <4>1, TreeZero
    <3>5. QED
      BY <3>3, <3>4
  <2>8. sum[u] = Total(s, Vocab)
    BY <2>4, <2>5, TreeStep
  <2>9. s[e] = sum[Append(u, e)]
    BY <2>4
  <2> HIDE DEF s
  <2>10. Total(s, Vocab) = s[e]
    BY <1>0, <2>4, <2>7, TotalSingle DEF Tokens
  <2>11. QED
    BY <2>3, <2>4, <2>8, <2>9, <2>10 DEF u
<1>3. Nat \subseteq S
  <2> HIDE DEF S
  <2>1. QED
    BY <1>1, <1>2, Induction
<1>4. Len(z) \in S /\ Prefix(z, Len(z)) = z
  <2>1. Prefix(z, Len(z)) = z
    BY <1>0, PrefixTyped
  <2> HIDE DEF S
  <2>2. QED
    BY <1>0, <1>3, <2>1
<1>5. QED
  BY <1>0, <1>4

-----------------------------------------------------------------------------
(* Block verification (module BlockVerify): weights, residuals and draws.  *)

\* The input of block verification: a model has a distribution after each prefix.
VerifyTyped ==
  /\ input.live \in 0 .. Gamma
  /\ input.p \in [DraftsUpTo(Gamma) -> Distributions]
  /\ input.q \in [DraftsUpTo(Gamma - 1) -> Distributions]

\* A draft that begins with z.
Full(z) == [i \in 1 .. Gamma |-> IF i <= Len(z) THEN z[i] ELSE 1]

\* What block verification computes after z, which it does not look beyond.
WeightAt(z) == Weights(input.p, input.q, Full(z), input.live)[Len(z)]
ResidualAt(z) == Residual(input.p, input.q, Full(z), Len(z), input.live)
AcceptAt(z) == Accept(input.p, input.q, Full(z), Len(z), input.live)
CorrectionAt(z) == Correction(input.p, input.q, Full(z), Len(z), input.live)
PassAt(z) == IF Alive(Len(z), input.live) THEN AcceptAt(z) ELSE Zero
FailAt(z) == Monus(One, PassAt(z))

\* The draft model can draw z.
Possible(z) == \A i \in 1 .. Len(z) : input.q[Prefix(z, i - 1)][z[i]] # Zero

\* A distribution gives fractions, one in total.
LEMMA DistributionTyped ==
  ASSUME NEW d \in Distributions
  PROVE  (\A t \in Tokens : d[t] \in Fractions) /\ Total(d, Vocab) = One
<1>1. \A n \in 0 .. Unit : Frac(n, Unit) \in Fractions
  BY FracTyped, RulesAssumption
<1>2. QED
  BY <1>1 DEF Distributions

\* So do the target and, before the last draft, the draft model.
LEMMA ModelsTyped ==
  ASSUME VerifyTyped, NEW z \in DraftsUpTo(Gamma)
  PROVE  /\ \A t \in Tokens : input.p[z][t] \in Fractions
         /\ Total(input.p[z], Vocab) = One
         /\ Len(z) # Gamma => /\ \A t \in Tokens : input.q[z][t] \in Fractions
                              /\ Total(input.q[z], Vocab) = One
<1>0. Gamma \in Nat /\ Gamma - 1 \in Nat
  BY VerifyAssumption
<1>1. input.p[z] \in Distributions
  BY DEF VerifyTyped
<1>2. ASSUME Len(z) # Gamma PROVE input.q[z] \in Distributions
  <2>1. PICK m \in 0 .. Gamma : m = Len(z) /\ z \in [1 .. m -> Tokens]
    BY <1>0, DraftTyped
  <2>2. m # Gamma
    BY <1>2, <2>1
  <2>3. z \in DraftsUpTo(Gamma - 1)
    <3>1. m \in 0 .. Gamma - 1
      BY ONLY <1>0, m \in 0 .. Gamma, <2>2
    <3>2. QED
      BY <1>0, <2>1, <3>1, DraftTyped
  <2>4. QED
    BY <2>3 DEF VerifyTyped
<1>3. QED
  BY <1>1, <1>2, DistributionTyped

\* A prefix filled up is a draft under it.
LEMMA FullUnder ==
  ASSUME NEW z \in DraftsUpTo(Gamma)
  PROVE  Full(z) \in Drafted /\ Prefix(Full(z), Len(z)) = z
<1>0. Gamma \in Nat /\ 1 \in Tokens
  BY VerifyAssumption DEF Tokens
<1>1. PICK m \in Nat : m = Len(z) /\ m <= Gamma /\ z \in [1 .. m -> Tokens]
  BY <1>0, DraftTyped
<1>2. Full(z) \in [1 .. Gamma -> Tokens] /\ \A i \in 1 .. m : Full(z)[i] = z[i]
  BY <1>0, <1>1 DEF Full
<1>3. m \in 0 .. m /\ m \in 0 .. Gamma
  BY <1>0, <1>1
<1>4. Prefix(z, m) = z
  BY <1>1, <1>3, PrefixTyped
<1>5. Prefix(Full(z), m) = Prefix(z, m)
  <2>1. m <= m
    OBVIOUS
  <2>2. QED
    BY <1>0, <1>1, <1>2, <2>1, PrefixSame
<1>6. QED
  BY <1>1, <1>2, <1>4, <1>5 DEF Drafted

\* The weights are what their recursion says.
LEMMA WeightsStep ==
  ASSUME NEW p, NEW q, NEW x, NEW live
  PROVE  LET w == Weights(p, q, x, live)
         IN  /\ w[0] = One
             /\ \A i \in 1 .. Gamma : w[i] = Least(Times(w[i - 1], Ratio(p, q, x, i, live)), One)
<1>0. Gamma \in Nat
  BY VerifyAssumption
<1> DEFINE Capped(v, i) == Least(Times(v, Ratio(p, q, x, i, live)), One)
           Eq(h) == h = [i \in 0 .. Gamma |-> IF i = 0 THEN One ELSE Capped(h[i - 1], i)]
           Good(h, k) == h[0] = One /\ \A i \in 1 .. k : h[i] = Capped(h[i - 1], i)
           S == {k \in Nat : \E h : Good(h, k)}
           w == CHOOSE h : Eq(h)
<1> HIDE DEF Capped
<1>1. 0 \in S
  <2>1. Good([i \in 0 .. 0 |-> One], 0)
    OBVIOUS
  <2>2. QED
    BY <2>1
<1>2. ASSUME NEW k \in Nat, k \in S PROVE k + 1 \in S
  <2>1. PICK h : Good(h, k)
    BY <1>2
  <2> DEFINE g == [i \in 0 .. k + 1 |-> IF i = k + 1 THEN Capped(h[k], i) ELSE h[i]]
  <2>2. g[0] = One
    BY <2>1
  <2>3. ASSUME NEW i \in 1 .. k + 1 PROVE g[i] = Capped(g[i - 1], i)
    <3>1. i - 1 \in 0 .. k + 1 /\ i - 1 # k + 1 /\ g[i - 1] = h[i - 1]
      OBVIOUS
    <3>2. CASE i = k + 1
      <4>1. g[i] = Capped(h[k], i) /\ i - 1 = k
        BY <3>2
      <4>2. QED
        BY <3>1, <4>1
    <3>3. CASE i # k + 1
      <4>1. g[i] = h[i] /\ i \in 1 .. k
        BY <3>3
      <4>2. QED
        BY <2>1, <3>1, <4>1
    <3>4. QED
      BY <3>2, <3>3
  <2> HIDE DEF g
  <2>4. QED
    BY <2>2, <2>3
<1>3. PICK h : Good(h, Gamma)
  <2>1. Nat \subseteq S
    <3> HIDE DEF S
    <3>1. QED
      BY <1>1, <1>2, Induction
  <2> HIDE DEF Good
  <2>2. QED
    BY <1>0, <2>1
<1> DEFINE g == [i \in 0 .. Gamma |-> h[i]]
<1>4. Eq(g)
  <2>1. ASSUME NEW i \in 0 .. Gamma PROVE g[i] = IF i = 0 THEN One ELSE Capped(g[i - 1], i)
    <3>1. CASE i = 0
      BY <1>3, <3>1
    <3>2. CASE i # 0
      <4>1. i \in 1 .. Gamma /\ i - 1 \in 0 .. Gamma
        BY <1>0, <3>2
      <4>2. g[i] = h[i] /\ g[i - 1] = h[i - 1] /\ h[i] = Capped(h[i - 1], i)
        BY <1>3, <4>1
      <4> HIDE DEF g
      <4>3. QED
        BY <3>2, <4>2
    <3>3. QED
      BY <3>1, <3>2
  <2>2. g = [i \in 0 .. Gamma |-> g[i]]
    OBVIOUS
  <2> HIDE DEF g
  <2>3. [i \in 0 .. Gamma |-> g[i]] = [i \in 0 .. Gamma |-> IF i = 0 THEN One ELSE Capped(g[i - 1], i)]
    BY <2>1
  <2>4. QED
    BY <2>2, <2>3
<1>5. Eq(w)
  <2> HIDE DEF Eq
  <2>1. QED
    BY Zenon, <1>4
<1>6. Weights(p, q, x, live) = w
  BY Zenon DEF Weights, Capped
<1> HIDE DEF w
<1>7. w[0] = One
  BY <1>0, <1>5
<1>8. ASSUME NEW i \in 1 .. Gamma PROVE w[i] = Capped(w[i - 1], i)
  <2>1. i \in 0 .. Gamma /\ i # 0
    OBVIOUS
  <2>2. QED
    BY <1>5, <2>1
<1>9. QED
  BY <1>6, <1>7, <1>8 DEF Capped

\* What is computed after n drafts depends on them alone.
LEMMA PrefixOnly ==
  ASSUME NEW p, NEW q, NEW live, NEW x \in Drafted, NEW u \in Drafted, NEW n \in 0 .. Gamma,
         Prefix(x, n) = Prefix(u, n)
  PROVE  /\ Weights(p, q, x, live)[n] = Weights(p, q, u, live)[n]
         /\ Residual(p, q, x, n, live) = Residual(p, q, u, n, live)
         /\ Accept(p, q, x, n, live) = Accept(p, q, u, n, live)
         /\ Correction(p, q, x, n, live) = Correction(p, q, u, n, live)
<1>0. Gamma \in Nat /\ n \in Nat /\ n <= Gamma
  BY VerifyAssumption
<1>1. x \in [1 .. Gamma -> Tokens] /\ u \in [1 .. Gamma -> Tokens]
  BY DEF Drafted
<1>2. /\ \A i \in 0 .. n : Prefix(x, i) = Prefix(u, i)
      /\ \A i \in 1 .. n : x[i] = u[i]
  <2>1. PICK g \in Nat : g = Gamma
    BY <1>0
  <2>2. x \in [1 .. g -> Tokens] /\ u \in [1 .. g -> Tokens] /\ n <= g
    BY <1>0, <1>1, <2>1
  <2>3. Prefix(x, n) = Prefix(u, n) =>
          (\A i \in 0 .. n : Prefix(x, i) = Prefix(u, i)) /\ (\A i \in 1 .. n : x[i] = u[i])
    BY ONLY <1>0, <2>2, g \in Nat, PrefixSame
  <2>4. QED
    BY <2>3
<1> DEFINE w == Weights(p, q, x, live)
           v == Weights(p, q, u, live)
           S == {i \in Nat : i <= n => w[i] = v[i]}
<1>3. 0 \in S
  BY WeightsStep
<1>4. ASSUME NEW i \in Nat, i \in S PROVE i + 1 \in S
  <2>1. SUFFICES ASSUME i + 1 <= n PROVE w[i + 1] = v[i + 1]
    OBVIOUS
  <2>2. i + 1 \in 1 .. Gamma /\ i + 1 - 1 = i /\ w[i] = v[i] /\ i \in 0 .. n /\ i + 1 \in 1 .. n
    BY <1>0, <1>4, <2>1
  <2>3. Ratio(p, q, x, i + 1, live) = Ratio(p, q, u, i + 1, live)
    BY <1>2, <2>2 DEF Ratio
  <2>4. /\ w[i + 1] = Least(Times(w[i], Ratio(p, q, x, i + 1, live)), One)
        /\ v[i + 1] = Least(Times(v[i], Ratio(p, q, u, i + 1, live)), One)
    BY <2>2, WeightsStep
  <2> HIDE DEF w, v
  <2>5. QED
    BY <2>2, <2>3, <2>4
<1>5. Nat \subseteq S
  <2> HIDE DEF S
  <2>1. QED
    BY <1>3, <1>4, Induction
<1>6. w[n] = v[n]
  BY <1>0, <1>5
<1>7. Residual(p, q, x, n, live) = Residual(p, q, u, n, live)
  <2>1. Draft(q, x, n, live) = Draft(q, u, n, live)
    BY DEF Draft
  <2>2. QED
    BY <1>6, <2>1 DEF Residual
<1>8. QED
  BY <1>6, <1>7 DEF Accept, Correction

\* Of any draft, what verification computes after n tokens is what it computes at that prefix.
LEMMA AtPrefix ==
  ASSUME NEW x \in Drafted, NEW n \in 0 .. Gamma
  PROVE  LET z == Prefix(x, n)
         IN  /\ z \in DraftsUpTo(Gamma) /\ Len(z) = n
             /\ Weights(input.p, input.q, x, input.live)[n] = WeightAt(z)
             /\ Residual(input.p, input.q, x, n, input.live) = ResidualAt(z)
             /\ Accept(input.p, input.q, x, n, input.live) = AcceptAt(z)
             /\ Correction(input.p, input.q, x, n, input.live) = CorrectionAt(z)
<1>0. Gamma \in Nat
  BY VerifyAssumption
<1>1. PICK z : z = Prefix(x, n)
  OBVIOUS
<1>2. z \in [1 .. n -> Tokens]
  <2>1. x \in [1 .. Gamma -> Tokens]
    BY DEF Drafted
  <2>2. QED
    BY <1>0, <1>1, <2>1, PrefixTyped
<1>3. z \in DraftsUpTo(Gamma) /\ Len(z) = n
  BY <1>0, <1>2, DraftTyped
<1>4. Full(z) \in Drafted /\ Prefix(Full(z), n) = Prefix(x, n)
  BY <1>1, <1>3, FullUnder
<1>5. /\ Weights(input.p, input.q, x, input.live)[n] = Weights(input.p, input.q, Full(z), input.live)[n]
      /\ Residual(input.p, input.q, x, n, input.live) = Residual(input.p, input.q, Full(z), n, input.live)
      /\ Accept(input.p, input.q, x, n, input.live) = Accept(input.p, input.q, Full(z), n, input.live)
      /\ Correction(input.p, input.q, x, n, input.live) = Correction(input.p, input.q, Full(z), n, input.live)
  BY <1>4, PrefixOnly
<1>6. QED
  BY <1>1, <1>3, <1>5 DEF WeightAt, ResidualAt, AcceptAt, CorrectionAt

\* One more token can be drawn when what precedes it can and it has a chance.
LEMMA PossibleAppend ==
  ASSUME NEW z \in DraftsUpTo(Gamma), Len(z) # Gamma, NEW t \in Tokens
  PROVE  Possible(Append(z, t)) <=> Possible(z) /\ input.q[z][t] # Zero
<1>0. Gamma \in Nat
  BY VerifyAssumption
<1>1. PICK m \in 0 .. Gamma : m = Len(z) /\ z \in [1 .. m -> Tokens]
  BY <1>0, DraftTyped
<1>2. PICK u : u = Append(z, t)
  OBVIOUS
<1>3. /\ u \in [1 .. m + 1 -> Tokens] /\ Len(u) = m + 1 /\ u[m + 1] = t
      /\ \A i \in 1 .. m : u[i] = z[i]
      /\ Prefix(u, m) = z
  <2>1. /\ u \in [1 .. m + 1 -> Tokens] /\ u[m + 1] = t
        /\ \A i \in 1 .. m : u[i] = z[i]
    BY <1>0, <1>1, <1>2, DraftAppend
  <2>2. Len(u) = m + 1 /\ Prefix(u, m) = z
    BY <1>1, <1>2, UnderAppend
  <2>3. QED
    BY <2>1, <2>2
<1>4. m \in Nat /\ m + 1 \in Nat /\ m <= m /\ m <= m + 1
  BY ONLY <1>0, m \in 0 .. Gamma
<1>5. \A i \in 0 .. m : Prefix(z, i) = Prefix(u, i)
  <2>1. z \in [1 .. m -> Tokens] /\ Prefix(z, m) = Prefix(u, m)
    <3>1. m \in 0 .. m
      BY <1>4
    <3>2. QED
      BY <1>1, <1>3, <1>4, <3>1, PrefixTyped
  <2>2. QED
    BY ONLY <1>3, <1>4, <2>1, PrefixSame
<1>6. ASSUME NEW i \in 1 .. m PROVE Prefix(u, i - 1) = Prefix(z, i - 1) /\ u[i] = z[i]
  <2>1. i - 1 \in 0 .. m
    BY <1>4
  <2>2. QED
    BY <1>3, <1>5, <2>1
<1>7. Possible(u) <=> \A i \in 1 .. m + 1 : input.q[Prefix(u, i - 1)][u[i]] # Zero
  BY <1>3 DEF Possible
<1>8. Possible(z) <=> \A i \in 1 .. m : input.q[Prefix(u, i - 1)][u[i]] # Zero
  BY <1>1, <1>6 DEF Possible
<1>9. input.q[Prefix(u, m + 1 - 1)][u[m + 1]] = input.q[z][t]
  BY <1>3, <1>4
<1>10. /\ \A i \in 1 .. m + 1 : i \in 1 .. m \/ i = m + 1
       /\ m + 1 \in 1 .. m + 1 /\ \A i \in 1 .. m : i \in 1 .. m + 1
  BY <1>4
<1> DEFINE R(i) == input.q[Prefix(u, i - 1)][u[i]] # Zero
<1>11. (\A i \in 1 .. m + 1 : R(i)) <=> (\A i \in 1 .. m : R(i)) /\ R(m + 1)
  <2> HIDE DEF R
  <2>1. QED
    BY <1>10
<1>12. /\ Possible(u) <=> \A i \in 1 .. m + 1 : R(i)
       /\ Possible(z) <=> \A i \in 1 .. m : R(i)
       /\ R(m + 1) <=> input.q[z][t] # Zero
  BY <1>7, <1>8, <1>9
<1> HIDE DEF R
<1>13. QED
  BY <1>2, <1>11, <1>12

\* A draft that is not empty is one token after another draft.
LEMMA LastToken ==
  ASSUME NEW z \in DraftsUpTo(Gamma), Len(z) # 0
  PROVE  \E u \in DraftsUpTo(Gamma), t \in Tokens : Len(u) = Len(z) - 1 /\ Len(u) # Gamma /\ z = Append(u, t)
<1>0. Gamma \in Nat
  BY VerifyAssumption
<1>1. PICK m \in 0 .. Gamma : m = Len(z) /\ z \in [1 .. m -> Tokens]
  BY <1>0, DraftTyped
<1>2. PICK k \in Nat : k + 1 = m /\ k \in 0 .. m - 1 /\ k \in 0 .. m /\ k \in 0 .. Gamma /\ k # Gamma
  <2>1. m # 0 /\ m - 1 \in Nat
    BY <1>0, <1>1
  <2>2. m - 1 + 1 = m /\ m - 1 \in 0 .. m - 1 /\ m - 1 \in 0 .. m /\ m - 1 \in 0 .. Gamma /\ m - 1 # Gamma
    BY ONLY <1>0, m \in 0 .. Gamma, <2>1
  <2>3. QED
    BY <2>1, <2>2
<1>3. m \in Nat /\ m \in 0 .. m
  BY <1>0
<1>4. Prefix(z, k) \in [1 .. k -> Tokens] /\ Prefix(z, m) = z
  BY <1>1, <1>2, <1>3, PrefixTyped
<1>5. Prefix(z, k) \in DraftsUpTo(Gamma) /\ Len(Prefix(z, k)) = k
  BY <1>0, <1>2, <1>4, DraftTyped
<1>6. z[m] \in Tokens
  BY <1>1, <1>2
<1>7. Prefix(z, m) = Append(Prefix(z, k), z[m])
  BY <1>1, <1>2, <1>3, PrefixStep
<1>8. k = Len(z) - 1
  <2>1. k = m - 1
    BY ONLY <1>2, <1>3, k \in Nat
  <2>2. QED
    BY <1>1, <2>1
<1>9. QED
  BY <1>2, <1>4, <1>5, <1>6, <1>7, <1>8

\* The weight at a prefix: one at first, then by the ratio of the next token, at most one.
LEMMA WeightStep ==
  /\ WeightAt(<<>>) = One
  /\ \A z \in DraftsUpTo(Gamma) : \A t \in Tokens : Len(z) # Gamma =>
       WeightAt(Append(z, t)) =
         Least(Times(WeightAt(z), IF Alive(Len(z) + 1, input.live)
                                  THEN Over(input.p[z][t], input.q[z][t]) ELSE Zero), One)
<1>0. Gamma \in Nat
  BY VerifyAssumption
<1>1. WeightAt(<<>>) = One
  BY UnderFull, WeightsStep DEF WeightAt
<1>2. ASSUME NEW z \in DraftsUpTo(Gamma), NEW t \in Tokens, Len(z) # Gamma
      PROVE  WeightAt(Append(z, t)) =
               Least(Times(WeightAt(z), IF Alive(Len(z) + 1, input.live)
                                        THEN Over(input.p[z][t], input.q[z][t]) ELSE Zero), One)
  <2>1. PICK m \in 0 .. Gamma : m = Len(z) /\ z \in [1 .. m -> Tokens]
    BY <1>0, DraftTyped
  <2>2. m + 1 \in 1 .. Gamma /\ m + 1 \in 0 .. Gamma /\ m + 1 - 1 = m /\ m \in Nat
    <3>1. m # Gamma
      BY <1>2, <2>1
    <3>2. QED
      BY ONLY <1>0, <3>1, m \in 0 .. Gamma
  <2>3. PICK u : u = Append(z, t)
    OBVIOUS
  <2>4. /\ u \in DraftsUpTo(Gamma) /\ Len(u) = m + 1 /\ u[m + 1] = t /\ Prefix(u, m) = z
    BY <1>2, <2>1, <2>3, UnderAppend
  <2>5. PICK x : x = Full(u)
    OBVIOUS
  <2>6. x \in Drafted /\ Prefix(x, m + 1) = u
    BY <2>4, <2>5, FullUnder
  <2>7. Prefix(x, m) = z /\ x[m + 1] = t
    <3>1. PICK k \in Nat : k = m + 1
      BY <2>2
    <3>2. x \in [1 .. Gamma -> Tokens] /\ k \in 0 .. Gamma
      BY <2>2, <2>6, <3>1 DEF Drafted
    <3>3. u \in [1 .. k -> Tokens]
      BY <1>0, <2>4, <3>1, DraftTyped
    <3>4. k \in 0 .. k /\ k <= Gamma /\ k <= k
      BY <1>0, <3>2
    <3>5. Prefix(u, k) = u
      BY <3>3, <3>4, PrefixTyped
    <3>6. Prefix(u, k) = Prefix(x, k)
      BY <2>6, <3>1, <3>5
    <3>7. (\A i \in 0 .. k : Prefix(u, i) = Prefix(x, i)) /\ \A i \in 1 .. k : u[i] = x[i]
      BY ONLY <1>0, k \in Nat, <3>2, <3>3, <3>4, <3>6, PrefixSame
    <3>8. m \in 0 .. k /\ k \in 1 .. k
      BY <2>2, <3>1
    <3>9. QED
      BY <2>4, <3>1, <3>7, <3>8
  <2>8. WeightAt(u) = Weights(input.p, input.q, x, input.live)[m + 1]
    BY <2>4, <2>5 DEF WeightAt
  <2>9. WeightAt(z) = Weights(input.p, input.q, x, input.live)[m]
    BY <2>6, <2>7, AtPrefix
  <2>10. Weights(input.p, input.q, x, input.live)[m + 1] =
           Least(Times(WeightAt(z), Ratio(input.p, input.q, x, m + 1, input.live)), One)
    BY <2>2, <2>9, WeightsStep
  <2>11. Ratio(input.p, input.q, x, m + 1, input.live) =
           IF Alive(m + 1, input.live) THEN Over(input.p[z][t], input.q[z][t]) ELSE Zero
    BY <2>2, <2>7 DEF Ratio
  <2>12. QED
    BY <2>1, <2>3, <2>8, <2>10, <2>11
<1>3. QED
  BY <1>1, <1>2

\* A weight is a probability, and nothing after the verified drafts.
LEMMA WeightTyped ==
  ASSUME VerifyTyped, NEW z \in DraftsUpTo(Gamma), Possible(z)
  PROVE  /\ WeightAt(z) \in Fractions /\ Least(WeightAt(z), One) = WeightAt(z)
         /\ ~Alive(Len(z), input.live) => WeightAt(z) = Zero
<1> DEFINE P(u) == /\ WeightAt(u) \in Fractions /\ Least(WeightAt(u), One) = WeightAt(u)
                   /\ ~Alive(Len(u), input.live) => WeightAt(u) = Zero
           S == {k \in Nat : \A u \in DraftsUpTo(Gamma) : Len(u) = k /\ Possible(u) => P(u)}
<1>0. Gamma \in Nat
  BY VerifyAssumption
<1>1. 0 \in S
  <2>1. ASSUME NEW u \in DraftsUpTo(Gamma), Len(u) = 0 PROVE P(u)
    <3>1. u = <<>>
      <4>1. u \in [1 .. 0 -> Tokens]
        BY <1>0, <2>1, DraftTyped
      <4>2. QED
        BY <4>1
    <3>2. Least(One, One) = One
      BY DEF Least
    <3>3. Alive(0, input.live)
      BY <1>0 DEF Alive, VerifyTyped
    <3>4. QED
      BY <2>1, <3>1, <3>2, <3>3, WeightStep, ZeroOne
  <2> HIDE DEF P
  <2>2. QED
    BY <2>1
<1>2. ASSUME NEW k \in Nat, k \in S PROVE k + 1 \in S
  <2>1. ASSUME NEW u \in DraftsUpTo(Gamma), Len(u) = k + 1, Possible(u) PROVE P(u)
    <3>1. PICK v \in DraftsUpTo(Gamma), t \in Tokens :
            Len(v) = k /\ Len(v) # Gamma /\ u = Append(v, t)
      <4>1. Len(u) # 0 /\ Len(u) - 1 = k
        BY <2>1
      <4>2. QED
        BY <4>1, LastToken
    <3>2. Possible(v) /\ input.q[v][t] # Zero
      BY <2>1, <3>1, PossibleAppend
    <3>3. P(v)
      <4> HIDE DEF P
      <4>1. QED
        BY <1>2, <3>1, <3>2
    <3> DEFINE r == IF Alive(k + 1, input.live) THEN Over(input.p[v][t], input.q[v][t]) ELSE Zero
    <3>4. r \in Fractions
      BY <3>1, <3>2, ModelsTyped, OverTimes, ZeroOne
    <3>5. WeightAt(u) = Least(Times(WeightAt(v), r), One)
      BY <3>1, WeightStep
    <3>6. ~Alive(k + 1, input.live) => r = Zero
      OBVIOUS
    <3> HIDE DEF r
    <3>7. Times(WeightAt(v), r) \in Fractions
      BY <3>3, <3>4, PlusTimesTyped
    <3>8. WeightAt(u) \in Fractions /\ Least(WeightAt(u), One) = WeightAt(u)
      BY <3>5, <3>7, ZeroOne, MonusLeast, LeastOnce
    <3>9. ASSUME ~Alive(k + 1, input.live) PROVE WeightAt(u) = Zero
      <4>1. Times(WeightAt(v), r) = Zero
        BY <3>3, <3>6, <3>9, Units
      <4>2. Least(Zero, One) = Zero
        BY DEF Least, AtMost, Zero, One
      <4>3. QED
        BY <3>5, <4>1, <4>2
    <3>10. QED
      BY <2>1, <3>8, <3>9
  <2> HIDE DEF P
  <2>2. QED
    BY <2>1
<1>3. Nat \subseteq S
  <2> HIDE DEF S
  <2>1. QED
    BY <1>1, <1>2, Induction
<1>4. Len(z) \in Nat
  BY <1>0, DraftTyped
<1>5. P(z)
  <2> HIDE DEF P
  <2>1. QED
    BY <1>3, <1>4
<1>6. QED
  BY <1>5

\* Nothing is smaller than zero.
LEMMA LeastZero ==
  ASSUME NEW x \in Fractions
  PROVE  Least(x, Zero) = Zero /\ Least(Zero, x) = Zero
<1>1. Least(Zero, x) = Zero
  <2>1. x[1] \in Nat /\ x[2] \in Nat
    BY Represented
  <2>2. QED
    BY <2>1 DEF Least, AtMost, Zero
<1>2. QED
  BY <1>1, LeastCommutes, ZeroOne

\* What is left of the weight at z.
MassAt(z) == Total(ResidualAt(z), Vocab)

\* How likely the draft model's next token is drawn and its weight kept.
KeptAt(z) ==
  [t \in Tokens |-> IF input.q[z][t] = Zero THEN Zero
                    ELSE Times(input.q[z][t], WeightAt(Append(z, t)))]
RestAt(z) == IF Len(z) = Gamma THEN Zero ELSE Total(KeptAt(z), Vocab)

\* The residual is what the weighted target has above the draft model.
LEMMA ResidualIs ==
  ASSUME VerifyTyped, NEW z \in DraftsUpTo(Gamma), Possible(z)
  PROVE  \A t \in Tokens :
           /\ ResidualAt(z)[t] \in Fractions
           /\ ResidualAt(z)[t] =
                Monus(Times(WeightAt(z), input.p[z][t]),
                      IF Len(z) # Gamma /\ Alive(Len(z) + 1, input.live) THEN input.q[z][t] ELSE Zero)
<1>0. Gamma \in Nat /\ Len(z) \in 0 .. Gamma
  BY VerifyAssumption, DraftTyped
<1>1. Len(z) < Gamma <=> Len(z) # Gamma
  BY <1>0
<1>2. Prefix(Full(z), Len(z)) = z
  BY FullUnder
<1>3. ASSUME NEW t \in Tokens
      PROVE  Draft(input.q, Full(z), Len(z), input.live)[t] =
               IF Len(z) # Gamma /\ Alive(Len(z) + 1, input.live) THEN input.q[z][t] ELSE Zero
  BY <1>1, <1>2 DEF Draft, Nothing
<1>4. ASSUME NEW t \in Tokens
      PROVE  ResidualAt(z)[t] =
                Monus(Times(WeightAt(z), input.p[z][t]),
                      IF Len(z) # Gamma /\ Alive(Len(z) + 1, input.live) THEN input.q[z][t] ELSE Zero)
  BY <1>2, <1>3 DEF ResidualAt, Residual, WeightAt
<1>5. ASSUME NEW t \in Tokens PROVE ResidualAt(z)[t] \in Fractions
  <2> DEFINE d == IF Len(z) # Gamma /\ Alive(Len(z) + 1, input.live) THEN input.q[z][t] ELSE Zero
  <2>1. d \in Fractions
    BY ModelsTyped, ZeroOne
  <2>2. Times(WeightAt(z), input.p[z][t]) \in Fractions
    BY WeightTyped, ModelsTyped, PlusTimesTyped
  <2>3. ResidualAt(z)[t] = Monus(Times(WeightAt(z), input.p[z][t]), d)
    BY <1>4
  <2> HIDE DEF d
  <2>4. QED
    BY <2>1, <2>2, <2>3, MonusLeast
<1>6. QED
  BY <1>4, <1>5

\* Of a token, what is left of the weight and what is kept make the target's share.
LEMMA TokenBalance ==
  ASSUME VerifyTyped, NEW z \in DraftsUpTo(Gamma), Possible(z), Len(z) # Gamma, NEW t \in Tokens
  PROVE  /\ KeptAt(z)[t] \in Fractions
         /\ Plus(ResidualAt(z)[t], KeptAt(z)[t]) = Times(WeightAt(z), input.p[z][t])
<1> DEFINE w == WeightAt(z)
           a == input.p[z][t]
           b == input.q[z][t]
           r == IF Alive(Len(z) + 1, input.live) THEN Over(a, b) ELSE Zero
<1>1. w \in Fractions /\ a \in Fractions /\ b \in Fractions
  BY WeightTyped, ModelsTyped
<1>2. PICK d : d = IF Alive(Len(z) + 1, input.live) THEN b ELSE Zero
  OBVIOUS
<1>3. ResidualAt(z)[t] = Monus(Times(w, a), d)
  BY <1>2, ResidualIs
<1>4. WeightAt(Append(z, t)) = Least(Times(w, r), One)
  BY WeightStep
<1>5. KeptAt(z)[t] = IF b = Zero THEN Zero ELSE Times(b, Least(Times(w, r), One))
  BY <1>4 DEF KeptAt
<1>6. Alive(Len(z) + 1, input.live) => r = Over(a, b)
  OBVIOUS
<1>7. ~Alive(Len(z) + 1, input.live) => r = Zero
  OBVIOUS
<1> HIDE DEF w, a, b, r
<1>8. Times(w, a) \in Fractions /\ d \in Fractions
  BY <1>1, <1>2, PlusTimesTyped, ZeroOne
<1>9. \A x \in Fractions : Least(x, Zero) = Zero
  BY LeastZero
<1>10. KeptAt(z)[t] = Least(Times(w, a), d)
  <2>1. CASE b = Zero
    <3>1. d = Zero
      BY <1>2, <2>1
    <3>2. QED
      BY <1>5, <1>8, <1>9, <2>1, <3>1
  <2>2. CASE b # Zero /\ Alive(Len(z) + 1, input.live)
    <3>1. r \in Fractions /\ Times(r, b) = a
      BY <1>1, <1>6, <2>2, OverTimes
    <3>2. Times(w, r) \in Fractions
      BY <1>1, <3>1, PlusTimesTyped
    <3>3. Times(b, Least(Times(w, r), One)) = Least(Times(b, Times(w, r)), Times(b, One))
      BY <1>1, <3>2, ZeroOne, LeastTimes
    <3>4. Times(b, One) = b /\ Times(b, Times(w, r)) = Times(Times(w, r), b)
      BY <1>1, <3>2, Units, TimesCommutes
    <3>5. Times(Times(w, r), b) = Times(w, a)
      BY <1>1, <3>1, TimesAssociates
    <3>6. d = b
      BY <1>2, <2>2
    <3>7. QED
      BY <1>5, <2>2, <3>3, <3>4, <3>5, <3>6
  <2>3. CASE b # Zero /\ ~Alive(Len(z) + 1, input.live)
    <3>1. r = Zero /\ d = Zero
      BY <1>2, <1>7, <2>3
    <3>2. Times(w, r) = Zero
      BY <1>1, <3>1, Units
    <3>3. Least(Zero, One) = Zero
      BY <1>9, LeastCommutes, ZeroOne
    <3>4. Times(b, Zero) = Zero
      BY <1>1, Units
    <3>5. QED
      BY <1>5, <1>8, <1>9, <2>3, <3>1, <3>2, <3>3, <3>4
  <2>4. QED
    BY <2>1, <2>2, <2>3
<1>11. QED
  BY <1>3, <1>8, <1>10, MonusLeast DEF w, a

\* After the last draft all of the weight is left.
LEMMA LastBalance ==
  ASSUME VerifyTyped, NEW z \in DraftsUpTo(Gamma), Possible(z), Len(z) = Gamma, NEW t \in Tokens
  PROVE  ResidualAt(z)[t] = Times(WeightAt(z), input.p[z][t])
<1>1. PICK x \in Fractions : x = Times(WeightAt(z), input.p[z][t])
  BY WeightTyped, ModelsTyped, PlusTimesTyped
<1>2. ResidualAt(z)[t] = Monus(x, Zero)
  BY <1>1, ResidualIs
<1>3. /\ Plus(Monus(x, Zero), Least(x, Zero)) = x
      /\ Monus(x, Zero) \in Fractions
  BY ZeroOne, MonusLeast
<1>4. Least(x, Zero) = Zero
  BY LeastZero
<1>5. QED
  BY <1>1, <1>2, <1>3, <1>4, Units

\* The weight at a prefix is what is left there and what its next tokens keep.
LEMMA MassBalance ==
  ASSUME VerifyTyped, NEW z \in DraftsUpTo(Gamma), Possible(z)
  PROVE  /\ MassAt(z) \in Fractions /\ RestAt(z) \in Fractions
         /\ Plus(MassAt(z), RestAt(z)) = WeightAt(z)
<1>0. Vocab \in Nat /\ Tokens = 1 .. Vocab
  BY VerifyAssumption DEF Tokens
<1>1. WeightAt(z) \in Fractions
  BY WeightTyped
<1> DEFINE share == [t \in Tokens |-> Times(WeightAt(z), input.p[z][t])]
<1>2. \A t \in Tokens : input.p[z][t] \in Fractions /\ share[t] = Times(WeightAt(z), input.p[z][t])
  BY ModelsTyped
<1> HIDE DEF share
<1>3. Total(share, Vocab) = WeightAt(z)
  <2>1. Total(share, Vocab) = Times(WeightAt(z), Total(input.p[z], Vocab))
    BY <1>0, <1>1, <1>2, TotalTimes
  <2>2. Total(input.p[z], Vocab) = One
    BY ModelsTyped
  <2>3. QED
    BY <1>1, <2>1, <2>2, Units
<1>4. \A t \in Tokens : ResidualAt(z)[t] \in Fractions
  BY ResidualIs
<1>5. MassAt(z) \in Fractions
  BY <1>0, <1>4, TotalStep DEF MassAt
<1>6. CASE Len(z) = Gamma
  <2>1. ASSUME NEW t \in Tokens PROVE share[t] = ResidualAt(z)[t]
    BY <1>2, <1>6, LastBalance
  <2>2. MassAt(z) = Total(share, Vocab)
    BY <1>0, <1>4, <2>1, TotalSame DEF MassAt
  <2>3. RestAt(z) = Zero
    BY <1>6 DEF RestAt
  <2>4. QED
    BY <1>1, <1>3, <1>5, <2>2, <2>3, Units, ZeroOne
<1>7. CASE Len(z) # Gamma
  <2>1. \A t \in Tokens : KeptAt(z)[t] \in Fractions /\ share[t] = Plus(ResidualAt(z)[t], KeptAt(z)[t])
    BY <1>2, <1>7, TokenBalance
  <2>2. Total(share, Vocab) = Plus(Total(ResidualAt(z), Vocab), Total(KeptAt(z), Vocab))
    BY <1>0, <1>4, <2>1, TotalPlus
  <2>3. RestAt(z) = Total(KeptAt(z), Vocab) /\ RestAt(z) \in Fractions
    BY <1>0, <1>7, <2>1, TotalStep DEF RestAt
  <2>4. QED
    BY <1>3, <1>5, <2>2, <2>3 DEF MassAt
<1>8. QED
  BY <1>6, <1>7

\* What the corrected token takes of the left weight is its residual.
LEMMA CorrectionShare ==
  ASSUME VerifyTyped, NEW z \in DraftsUpTo(Gamma), Possible(z), NEW t \in Tokens
  PROVE  /\ CorrectionAt(z)[t] \in Fractions
         /\ Times(MassAt(z), CorrectionAt(z)[t]) = ResidualAt(z)[t]
<1>0. Vocab \in Nat /\ Tokens = 1 .. Vocab
  BY VerifyAssumption DEF Tokens
<1>1. Prefix(Full(z), Len(z)) = z
  BY FullUnder
<1>2. CorrectionAt(z)[t] = IF MassAt(z) = Zero THEN input.p[z][t] ELSE Over(ResidualAt(z)[t], MassAt(z))
  BY <1>1 DEF CorrectionAt, Correction, MassAt, ResidualAt
<1>3. \A s \in Tokens : ResidualAt(z)[s] \in Fractions
  BY ResidualIs
<1>4. MassAt(z) \in Fractions
  BY MassBalance
<1>5. CASE MassAt(z) = Zero
  <2>1. ResidualAt(z)[t] = Zero
    BY <1>0, <1>3, <1>5, TotalZero DEF MassAt
  <2>2. input.p[z][t] \in Fractions
    BY ModelsTyped
  <2>3. QED
    BY <1>2, <1>5, <2>1, <2>2, Units
<1>6. CASE MassAt(z) # Zero
  <2>1. /\ Over(ResidualAt(z)[t], MassAt(z)) \in Fractions
        /\ Times(Over(ResidualAt(z)[t], MassAt(z)), MassAt(z)) = ResidualAt(z)[t]
    BY <1>3, <1>4, <1>6, OverTimes
  <2>2. QED
    BY <1>2, <1>4, <1>6, <2>1, TimesCommutes
<1>7. QED
  BY <1>5, <1>6

\* If the draws after z all fail with what is left besides what is kept, then so they
\* do with z's own.
LEMMA DrawBalance ==
  ASSUME VerifyTyped, NEW z \in DraftsUpTo(Gamma), Possible(z), Len(z) # 0,
         NEW n \in Fractions, Plus(n, RestAt(z)) = One
  PROVE  /\ PassAt(z) \in Fractions /\ FailAt(z) \in Fractions
         /\ Plus(Times(FailAt(z), n), WeightAt(z)) = One
         /\ Times(PassAt(z), n) = MassAt(z)
<1> DEFINE w == WeightAt(z)
           s == MassAt(z)
           o == RestAt(z)
           m == Monus(One, w)
           room == Plus(s, m)
           h == PassAt(z)
<1>1. w \in Fractions /\ s \in Fractions /\ o \in Fractions /\ Plus(s, o) = w
      /\ Plus(n, o) = One /\ Least(w, One) = w
  BY WeightTyped, MassBalance
<1>2. h = IF ~Alive(Len(z), input.live) THEN Zero
          ELSE IF Len(z) = Gamma THEN w ELSE IF room = Zero THEN Zero ELSE Over(s, room)
  BY DEF PassAt, AcceptAt, Accept, WeightAt, MassAt, ResidualAt
<1>3. ~Alive(Len(z), input.live) => w = Zero
  BY WeightTyped
<1>4. Len(z) = Gamma => o = Zero
  BY DEF RestAt
<1>5. FailAt(z) = Monus(One, h)
  BY DEF FailAt
<1> HIDE DEF w, s, o, h, m
<1>6. m \in Fractions /\ Plus(m, w) = One
  BY <1>1, Complement DEF m
<1>7. n = room
  <2>1. Plus(room, o) = Plus(s, Plus(m, o))
    BY <1>1, <1>6, PlusAssociates
  <2>2. Plus(s, Plus(m, o)) = Plus(s, Plus(o, m))
    BY <1>1, <1>6, PlusCommutes
  <2>3. Plus(s, Plus(o, m)) = Plus(w, m)
    BY <1>1, <1>6, PlusAssociates
  <2>4. Plus(w, m) = One
    BY <1>1, <1>6, PlusCommutes
  <2>5. Plus(room, o) = Plus(n, o)
    BY <1>1, <2>1, <2>2, <2>3, <2>4
  <2>6. room \in Fractions
    BY <1>1, <1>6, PlusTimesTyped
  <2>7. QED
    BY <1>1, <2>5, <2>6, PlusCancels
<1>8. h \in Fractions /\ Least(h, One) = h /\ Times(h, n) = s
  <2>0. Least(Zero, One) = Zero
    BY DEF Least, AtMost, Zero, One
  <2>1. CASE ~Alive(Len(z), input.live)
    <3>1. h = Zero /\ s = Zero
      BY <1>1, <1>2, <1>3, <2>1, ZeroFrom
    <3>2. QED
      BY <2>0, <3>1, Units, ZeroOne
  <2>2. CASE Alive(Len(z), input.live) /\ Len(z) = Gamma
    <3>1. h = w /\ o = Zero
      BY <1>2, <1>4, <2>2
    <3>2. n = One /\ s = w
      BY <1>1, <3>1, Units
    <3>3. QED
      BY <1>1, <3>1, <3>2, Units
  <2>3. CASE Alive(Len(z), input.live) /\ Len(z) # Gamma /\ room = Zero
    <3>1. h = Zero /\ s = Zero
      BY <1>1, <1>2, <1>6, <2>3, ZeroFrom
    <3>2. QED
      BY <2>0, <3>1, Units, ZeroOne
  <2>4. CASE Alive(Len(z), input.live) /\ Len(z) # Gamma /\ room # Zero
    <3>1. h = Over(s, room)
      BY <1>2, <2>4
    <3>2. room \in Fractions
      BY <1>1, <1>6, PlusTimesTyped
    <3>3. h \in Fractions /\ Times(h, room) = s
      BY <1>1, <2>4, <3>1, <3>2, OverTimes
    <3>4. Least(Over(s, Plus(s, m)), One) = Over(s, Plus(s, m))
      BY <1>1, <1>6, <2>4, PartOfWhole
    <3>5. QED
      BY <1>7, <3>1, <3>3, <3>4
  <2>5. QED
    BY <2>1, <2>2, <2>3, <2>4
<1>9. FailAt(z) \in Fractions /\ Plus(FailAt(z), h) = One
  BY <1>5, <1>8, Complement
<1>10. Plus(Times(FailAt(z), n), s) = n
  <2>1. Times(n, Plus(FailAt(z), h)) = Plus(Times(n, FailAt(z)), Times(n, h))
    BY <1>8, <1>9, TimesDistributes
  <2>2. Times(n, FailAt(z)) = Times(FailAt(z), n) /\ Times(n, h) = Times(h, n)
    BY <1>8, <1>9, TimesCommutes
  <2>3. Times(n, One) = n
    BY Units
  <2>4. QED
    BY <1>8, <1>9, <2>1, <2>2, <2>3
<1>11. Plus(Times(FailAt(z), n), w) = One
  <2> DEFINE x == Times(FailAt(z), n)
  <2>1. x \in Fractions
    BY <1>9, PlusTimesTyped
  <2>2. Plus(x, s) = Plus(s, m)
    BY <1>7, <1>10
  <2> HIDE DEF x
  <2>3. x = m
    <3>1. Plus(s, m) = Plus(m, s)
      BY <1>1, <1>6, PlusCommutes
    <3>2. QED
      BY <1>1, <1>6, <2>1, <2>2, <3>1, PlusCancels
  <2>4. QED
    BY <1>6, <2>3 DEF x
<1>12. QED
  BY <1>8, <1>9, <1>11 DEF h, w, s

-----------------------------------------------------------------------------
(* Chances of drafts and continuations.                                    *)

\* The chance of a continuation: of none, and of its first token and the rest.
LEMMA ChanceStep ==
  ASSUME NEW d, NEW y, NEW k \in Nat, \A i \in 1 .. k : d[Prefix(y, i - 1)][y[i]] \in Fractions,
         NEW n \in 0 .. k
  PROVE  /\ Chance(d, y, n, k) \in Fractions
         /\ Chance(d, y, k, k) = One
         /\ n # k => Chance(d, y, n, k) = Times(d[Prefix(y, n)][y[n + 1]], Chance(d, y, n + 1, k))
<1> DEFINE f == [i \in 1 .. k |-> d[Prefix(y, i - 1)][y[i]]]
<1>0. n \in Nat /\ n <= k /\ n + 1 \in Nat /\ n + 1 <= k + 1
  OBVIOUS
<1>1. \A i \in 1 .. k : f[i] \in Fractions /\ f[i] = d[Prefix(y, i - 1)][y[i]]
  OBVIOUS
<1>2. \A m : Chance(d, y, m, k) = Product(f, m + 1, k)
  BY DEF Chance
<1> HIDE DEF f
<1>3. \A i \in n + 1 .. k : f[i] \in Fractions
  BY <1>0, <1>1
<1>4. /\ Product(f, k + 1, k) = One /\ Product(f, n + 1, k) \in Fractions
      /\ \A i \in n + 1 .. k : Product(f, i, k) = Times(f[i], Product(f, i + 1, k))
  BY <1>0, <1>3, ProductStep
<1>5. ASSUME n # k PROVE Chance(d, y, n, k) = Times(d[Prefix(y, n)][y[n + 1]], Chance(d, y, n + 1, k))
  <2>1. n + 1 \in n + 1 .. k /\ n + 1 \in 1 .. k /\ n + 1 - 1 = n
    BY <1>0, <1>5
  <2>2. f[n + 1] = d[Prefix(y, n)][y[n + 1]]
    BY <1>1, <2>1
  <2>3. QED
    BY <1>2, <1>4, <2>1, <2>2
<1>6. QED
  BY <1>2, <1>4, <1>5

\* A continuation has a chance exactly when every token of it has.
LEMMA ChanceZero ==
  ASSUME NEW d, NEW y, NEW k \in Nat, \A i \in 1 .. k : d[Prefix(y, i - 1)][y[i]] \in Fractions,
         NEW n \in 0 .. k
  PROVE  Chance(d, y, n, k) # Zero <=> \A i \in 1 .. k : n < i => d[Prefix(y, i - 1)][y[i]] # Zero
<1> DEFINE g == [i \in 1 .. k |-> d[Prefix(y, i - 1)][y[i]]]
<1>1. \A i \in 1 .. k : g[i] \in Fractions /\ g[i] = d[Prefix(y, i - 1)][y[i]]
  OBVIOUS
<1>2. Chance(d, y, n, k) = Product(g, n + 1, k)
  BY DEF Chance
<1> HIDE DEF g
<1>3. PICK a \in Nat : a = n + 1 /\ a <= k + 1
  OBVIOUS
<1>4. \A i : i \in a .. k <=> i \in 1 .. k /\ n < i
  BY <1>3
<1>5. Product(g, a, k) = Zero <=> \E i \in a .. k : g[i] = Zero
  <2>1. \A i \in a .. k : g[i] \in Fractions
    BY <1>1, <1>4
  <2>2. QED
    BY ONLY <1>3, <2>1, a \in Nat, k \in Nat, ProductZero
<1>6. (\E i \in a .. k : g[i] = Zero) <=> \E i \in 1 .. k : n < i /\ g[i] = Zero
  BY <1>4
<1>7. Chance(d, y, n, k) = Zero <=> \E i \in 1 .. k : n < i /\ g[i] = Zero
  BY <1>2, <1>3, <1>5, <1>6
<1>8. QED
  BY <1>1, <1>7

\* The chance of a continuation is that of its beginning times that of the rest.
LEMMA ChanceSplit ==
  ASSUME NEW d, NEW y, NEW k \in Nat, \A i \in 1 .. k : d[Prefix(y, i - 1)][y[i]] \in Fractions,
         NEW n \in 0 .. k
  PROVE  /\ Chance(d, y, 0, n) \in Fractions
         /\ Chance(d, y, 0, k) = Times(Chance(d, y, 0, n), Chance(d, y, n, k))
<1> DEFINE f == [i \in 1 .. k |-> d[Prefix(y, i - 1)][y[i]]]
           g == [i \in 1 .. n |-> d[Prefix(y, i - 1)][y[i]]]
<1>1. \A i \in 1 .. k : f[i] \in Fractions
  OBVIOUS
<1>2. \A i \in 1 .. n : i \in 1 .. k
  OBVIOUS
<1>3. \A i \in 1 .. n : g[i] \in Fractions /\ g[i] = f[i]
  BY <1>2
<1>4. PICK a \in Nat : a = 0 + 1
  OBVIOUS
<1>5. /\ Chance(d, y, 0, k) = Product(f, a, k) /\ Chance(d, y, 0, n) = Product(g, a, n)
      /\ Chance(d, y, n, k) = Product(f, n + 1, k)
  BY <1>4 DEF Chance
<1> HIDE DEF f, g
<1>6. n \in Nat /\ n <= k /\ a <= n + 1
  BY <1>4
<1>7. \A i \in a .. n : g[i] \in Fractions /\ g[i] = f[i]
  BY <1>3, <1>4
<1>8. \A i \in a .. k : f[i] \in Fractions
  BY <1>1, <1>4
<1>9. Product(g, a, n) = Product(f, a, n)
  BY <1>6, <1>7, ProductSame
<1>10. Product(g, a, n) \in Fractions
  BY <1>6, <1>7, ProductStep
<1>11. Product(f, a, k) = Times(Product(f, a, n), Product(f, n + 1, k))
  BY <1>6, <1>8, ProductSplit
<1>12. QED
  BY <1>5, <1>9, <1>10, <1>11

\* Drafts the draft model can draw are those it gives a chance.
LEMMA DraftChance ==
  ASSUME VerifyTyped, NEW x \in Drafted
  PROVE  /\ \A i \in 1 .. Gamma : input.q[Prefix(x, i - 1)][x[i]] \in Fractions
         /\ Possible(x) <=> Chance(input.q, x, 0, Gamma) # Zero
         /\ \A n \in 0 .. Gamma :
              /\ Possible(Prefix(x, n)) => (Possible(x) <=> Chance(input.q, x, n, Gamma) # Zero)
              /\ Possible(x) => Possible(Prefix(x, n))
              /\ Possible(Prefix(x, n)) => Chance(input.q, x, 0, n) # Zero
<1>0. Gamma \in Nat
  BY VerifyAssumption
<1>1. x \in [1 .. Gamma -> Tokens] /\ Len(x) = Gamma
  BY UnderFull DEF Drafted
<1> DEFINE d == [i \in 1 .. Gamma |-> input.q[Prefix(x, i - 1)][x[i]]]
<1>2. ASSUME NEW i \in 1 .. Gamma PROVE d[i] \in Fractions
  <2>1. i - 1 \in 0 .. Gamma /\ i - 1 # Gamma /\ x[i] \in Tokens
    BY <1>0, <1>1
  <2>2. Prefix(x, i - 1) \in DraftsUpTo(Gamma) /\ Len(Prefix(x, i - 1)) # Gamma
    BY <2>1, AtPrefix
  <2>3. QED
    BY <2>1, <2>2, ModelsTyped
<1>3. \A i \in 1 .. Gamma : d[i] \in Fractions /\ d[i] = input.q[Prefix(x, i - 1)][x[i]]
  BY <1>2
<1> HIDE DEF d
<1>4. Possible(x) <=> \A i \in 1 .. Gamma : d[i] # Zero
  BY <1>1, <1>3 DEF Possible
<1>5. ASSUME NEW n \in 0 .. Gamma
      PROVE  /\ Possible(Prefix(x, n)) <=> \A i \in 1 .. n : d[i] # Zero
             /\ Chance(input.q, x, n, Gamma) # Zero <=> \A i \in 1 .. Gamma : n < i => d[i] # Zero
             /\ Chance(input.q, x, 0, n) # Zero <=> \A i \in 1 .. n : d[i] # Zero
  <2>0. n \in Nat /\ 0 \in 0 .. n /\ 0 + 1 = 1 /\ \A i \in 1 .. n : i \in 1 .. Gamma
    BY <1>0
  <2>1. PICK u : u = Prefix(x, n)
    OBVIOUS
  <2>2. u \in [1 .. n -> Tokens] /\ \A i \in 1 .. n : u[i] = x[i]
    BY <1>0, <1>1, <2>1, PrefixTyped
  <2>3. Len(u) = n
    BY <2>1, AtPrefix
  <2>4. \A i \in 0 .. n : Prefix(u, i) = Prefix(x, i)
    <3>1. n \in 0 .. n /\ n <= n /\ n <= Gamma
      BY <1>0, <2>0
    <3>2. Prefix(u, n) = u
      BY <2>0, <2>2, <3>1, PrefixTyped
    <3>3. QED
      BY ONLY <1>0, <1>1, <2>0, <2>1, <2>2, <3>1, <3>2, PrefixSame
  <2>5. \A i \in 1 .. n : i - 1 \in 0 .. n
    BY <2>0
  <2>6. Possible(u) <=> \A i \in 1 .. n : d[i] # Zero
    BY <2>2, <2>3, <2>0, <2>4, <2>5, <1>3 DEF Possible
  <2>7. Chance(input.q, x, n, Gamma) # Zero <=> \A i \in 1 .. Gamma : n < i => d[i] # Zero
    <3>1. \A i \in 1 .. Gamma : input.q[Prefix(x, i - 1)][x[i]] \in Fractions
      BY <1>3
    <3>2. Chance(input.q, x, n, Gamma) # Zero
            <=> \A i \in 1 .. Gamma : n < i => input.q[Prefix(x, i - 1)][x[i]] # Zero
      BY ONLY <1>0, n \in 0 .. Gamma, <3>1, ChanceZero
    <3>3. QED
      BY <1>3, <3>2
  <2>8. Chance(input.q, x, 0, n) # Zero <=> \A i \in 1 .. n : d[i] # Zero
    <3>1. \A i \in 1 .. n : input.q[Prefix(x, i - 1)][x[i]] \in Fractions
      BY <1>3, <2>0
    <3>2. Chance(input.q, x, 0, n) # Zero
            <=> \A i \in 1 .. n : 0 < i => input.q[Prefix(x, i - 1)][x[i]] # Zero
      BY ONLY <2>0, <3>1, ChanceZero
    <3>3. \A i \in 1 .. n : 0 < i
      OBVIOUS
    <3>4. QED
      BY <1>3, <2>0, <3>2, <3>3
  <2>9. QED
    BY <2>1, <2>6, <2>7, <2>8
<1>6. ASSUME NEW n \in 0 .. Gamma
      PROVE  /\ \A i \in 1 .. Gamma : i \in 1 .. n \/ n < i
             /\ \A i \in 1 .. n : i \in 1 .. Gamma
  BY <1>0
<1>7. Possible(x) <=> Chance(input.q, x, 0, Gamma) # Zero
  <2>1. 0 \in 0 .. Gamma /\ \A i \in 1 .. Gamma : 0 < i
    BY <1>0
  <2>2. QED
    BY <1>4, <1>5, <2>1
<1>8. ASSUME NEW n \in 0 .. Gamma
      PROVE  /\ Possible(Prefix(x, n)) => (Possible(x) <=> Chance(input.q, x, n, Gamma) # Zero)
             /\ Possible(x) => Possible(Prefix(x, n))
             /\ Possible(Prefix(x, n)) => Chance(input.q, x, 0, n) # Zero
  BY <1>4, <1>5, <1>6
<1>9. QED
  BY <1>3, <1>7, <1>8

\* How likely every draw after the first n of the drafts x fails.
FailsAfter(x, n) == Product([i \in 1 .. Gamma |-> FailAt(Prefix(x, i))], n + 1, Gamma)

\* How likely the drafts after the first n are x's and their draws fail.
Failing(n) ==
  [x \in Drafted |-> IF Chance(input.q, x, n, Gamma) = Zero THEN Zero
                     ELSE Times(Chance(input.q, x, n, Gamma), FailsAfter(x, n))]

\* Passing and failing at a prefix have probabilities.
LEMMA FailTyped ==
  ASSUME VerifyTyped, NEW z \in DraftsUpTo(Gamma), Possible(z), Len(z) # 0
  PROVE  PassAt(z) \in Fractions /\ FailAt(z) \in Fractions
<1> DEFINE n == Monus(One, RestAt(z))
<1>1. /\ MassAt(z) \in Fractions /\ RestAt(z) \in Fractions /\ WeightAt(z) \in Fractions
      /\ Plus(MassAt(z), RestAt(z)) = WeightAt(z) /\ Least(WeightAt(z), One) = WeightAt(z)
  BY MassBalance, WeightTyped
<1>2. /\ Monus(One, WeightAt(z)) \in Fractions
      /\ Plus(Monus(One, WeightAt(z)), WeightAt(z)) = One
  BY <1>1, Complement
<1>3. PICK m \in Fractions : m = Plus(Monus(One, WeightAt(z)), MassAt(z))
  BY <1>1, <1>2, PlusTimesTyped
<1>4. Plus(m, RestAt(z)) = One
  BY <1>1, <1>2, <1>3, PlusAssociates
<1>5. QED
  BY <1>3, <1>4, DrawBalance

\* Failing after n is failing at n + 1 and after it.
LEMMA FailsAfterStep ==
  ASSUME VerifyTyped, NEW x \in Drafted, Possible(x), NEW n \in 0 .. Gamma
  PROVE  /\ FailsAfter(x, n) \in Fractions
         /\ FailsAfter(x, Gamma) = One
         /\ n # Gamma => FailsAfter(x, n) = Times(FailAt(Prefix(x, n + 1)), FailsAfter(x, n + 1))
<1> DEFINE f == [i \in 1 .. Gamma |-> FailAt(Prefix(x, i))]
<1>0. Gamma \in Nat /\ n \in Nat /\ n + 1 \in Nat /\ n + 1 <= Gamma + 1
  BY VerifyAssumption
<1>1. ASSUME NEW i \in 1 .. Gamma PROVE f[i] \in Fractions /\ f[i] = FailAt(Prefix(x, i))
  <2>1. i \in 0 .. Gamma /\ i # 0
    BY <1>0
  <2>2. Prefix(x, i) \in DraftsUpTo(Gamma) /\ Len(Prefix(x, i)) = i /\ Possible(Prefix(x, i))
    BY <2>1, AtPrefix, DraftChance
  <2>3. QED
    BY <2>1, <2>2, FailTyped
<1>2. \A m : FailsAfter(x, m) = Product(f, m + 1, Gamma)
  BY DEF FailsAfter
<1> HIDE DEF f
<1>3. \A i \in n + 1 .. Gamma : i \in 1 .. Gamma /\ f[i] \in Fractions
  BY <1>0, <1>1
<1>4. /\ Product(f, Gamma + 1, Gamma) = One /\ Product(f, n + 1, Gamma) \in Fractions
      /\ \A i \in n + 1 .. Gamma : Product(f, i, Gamma) = Times(f[i], Product(f, i + 1, Gamma))
  BY <1>0, <1>3, ProductStep
<1>5. n # Gamma => n + 1 \in n + 1 .. Gamma /\ n + 1 \in 1 .. Gamma
  BY <1>0
<1>6. QED
  BY <1>1, <1>2, <1>4, <1>5

\* Of every draft under a prefix, failing has a probability.
LEMMA FailingTyped ==
  ASSUME VerifyTyped, NEW z \in DraftsUpTo(Gamma), Possible(z)
  PROVE  \A x \in Under(z) : Failing(Len(z))[x] \in Fractions
<1>0. Gamma \in Nat /\ Len(z) \in 0 .. Gamma
  BY VerifyAssumption, DraftTyped
<1>1. ASSUME NEW x \in Under(z), Chance(input.q, x, Len(z), Gamma) # Zero
      PROVE  Times(Chance(input.q, x, Len(z), Gamma), FailsAfter(x, Len(z))) \in Fractions
  <2>1. x \in Drafted /\ Prefix(x, Len(z)) = z
    BY DEF Under
  <2>2. Possible(x)
    BY <1>0, <1>1, <2>1, DraftChance
  <2>3. FailsAfter(x, Len(z)) \in Fractions
    BY <1>0, <2>1, <2>2, FailsAfterStep
  <2>4. Chance(input.q, x, Len(z), Gamma) \in Fractions
    <3>1. \A i \in 1 .. Gamma : input.q[Prefix(x, i - 1)][x[i]] \in Fractions
      BY <2>1, DraftChance
    <3>2. QED
      BY ONLY <1>0, <3>1, ChanceStep
  <2>5. QED
    BY <2>3, <2>4, PlusTimesTyped
<1>2. Under(z) \subseteq Drafted
  BY DEF Under
<1>3. QED
  BY <1>1, <1>2, ZeroOne DEF Failing

\* One token further, what fails is scaled by the token's chance and its own draw.
LEMMA FailingStep ==
  ASSUME VerifyTyped, NEW z \in DraftsUpTo(Gamma), Possible(z), Len(z) # Gamma, NEW t \in Tokens,
         NEW x \in Under(Append(z, t))
  PROVE  Failing(Len(z))[x] =
           IF input.q[z][t] = Zero THEN Zero
           ELSE Times(Times(input.q[z][t], FailAt(Append(z, t))), Failing(Len(z) + 1)[x])
<1>0. Gamma \in Nat
  BY VerifyAssumption
<1>1. PICK m \in 0 .. Gamma : m = Len(z)
  BY <1>0, DraftTyped
<1>2. m \in Nat /\ m + 1 \in 0 .. Gamma /\ m # Gamma
  <2>1. m # Gamma
    BY <1>1
  <2>2. QED
    BY ONLY <1>0, <2>1, m \in 0 .. Gamma
<1>3. PICK u : u = Append(z, t)
  OBVIOUS
<1>4. u \in DraftsUpTo(Gamma) /\ Len(u) = m + 1 /\ x \in Under(z) /\ x[m + 1] = t
  BY <1>1, <1>3, UnderAppend
<1>5. x \in Drafted /\ Prefix(x, m) = z /\ Prefix(x, m + 1) = u
  BY <1>1, <1>3, <1>4 DEF Under
<1>6. PICK b : b = input.q[z][t] /\ b \in Fractions
  BY ModelsTyped
<1> DEFINE c == Chance(input.q, x, m, Gamma)
           e == Chance(input.q, x, m + 1, Gamma)
<1>7. c = Times(b, e) /\ e \in Fractions
  <2>1. \A i \in 1 .. Gamma : input.q[Prefix(x, i - 1)][x[i]] \in Fractions
    BY <1>5, DraftChance
  <2>2. c = Times(input.q[Prefix(x, m)][x[m + 1]], e)
    BY ONLY <1>0, <1>2, <2>1, m \in 0 .. Gamma, ChanceStep
  <2>3. e \in Fractions
    BY ONLY <1>0, <1>2, <2>1, ChanceStep
  <2>4. QED
    BY <1>4, <1>5, <1>6, <2>2, <2>3
<1>8. /\ Failing(m)[x] = IF c = Zero THEN Zero ELSE Times(c, FailsAfter(x, m))
      /\ Failing(m + 1)[x] = IF e = Zero THEN Zero ELSE Times(e, FailsAfter(x, m + 1))
  BY <1>5 DEF Failing
<1>9. b # Zero => Possible(u)
  BY <1>3, <1>6, PossibleAppend
<1>10. b # Zero /\ e # Zero => c # Zero /\ Possible(x)
  <2>1. b # Zero /\ e # Zero => Possible(x)
    BY <1>2, <1>5, <1>9, DraftChance
  <2>2. b # Zero /\ e # Zero => c # Zero
    BY <1>6, <1>7, ZeroFrom
  <2>3. QED
    BY <2>1, <2>2
<1>11. b # Zero => FailAt(u) \in Fractions
  <2>1. Len(u) # 0
    BY <1>2, <1>4
  <2>2. QED
    BY <1>4, <1>9, <2>1, FailTyped
<1> HIDE DEF c, e
<1>12. CASE b = Zero
  <2>1. c = Zero
    BY <1>7, <1>12, Units
  <2>2. QED
    BY <1>1, <1>6, <1>8, <1>12, <2>1
<1>13. CASE b # Zero /\ e = Zero
  <2>1. c = Zero
    BY <1>6, <1>7, <1>13, Units
  <2>2. Failing(m)[x] = Zero /\ Failing(m + 1)[x] = Zero
    BY <1>8, <1>13, <2>1
  <2>3. Times(b, FailAt(u)) \in Fractions
    BY <1>6, <1>11, <1>13, PlusTimesTyped
  <2>4. QED
    BY <1>1, <1>3, <1>6, <1>13, <2>2, <2>3, Units
<1>14. CASE b # Zero /\ e # Zero
  <2>1. PICK f \in Fractions : f = FailAt(u)
    BY <1>11, <1>14
  <2>2. PICK g \in Fractions : g = FailsAfter(x, m + 1)
    BY <1>2, <1>5, <1>10, <1>14, FailsAfterStep
  <2>3. FailsAfter(x, m) = Times(f, g)
    BY <1>2, <1>5, <1>10, <1>14, <2>1, <2>2, FailsAfterStep
  <2>4. Failing(m)[x] = Times(Times(b, e), Times(f, g)) /\ Failing(m + 1)[x] = Times(e, g)
    BY <1>7, <1>8, <1>10, <1>14, <2>2, <2>3
  <2>5. Times(Times(b, e), Times(f, g)) = Times(Times(b, f), Times(e, g))
    <3>0. Times(f, g) \in Fractions /\ Times(e, g) \in Fractions
      BY <1>7, PlusTimesTyped
    <3>1. Times(Times(b, e), Times(f, g)) = Times(b, Times(e, Times(f, g)))
      BY <1>6, <1>7, <3>0, TimesAssociates
    <3>2. Times(e, Times(f, g)) = Times(Times(e, f), g) /\ Times(Times(f, e), g) = Times(f, Times(e, g))
      BY <1>7, TimesAssociates
    <3>3. Times(e, f) = Times(f, e)
      BY <1>7, TimesCommutes
    <3>4. Times(Times(b, f), Times(e, g)) = Times(b, Times(f, Times(e, g)))
      BY <1>6, <3>0, TimesAssociates
    <3>5. QED
      BY <3>1, <3>2, <3>3, <3>4
  <2>6. QED
    BY <1>1, <1>3, <1>6, <1>14, <2>1, <2>4, <2>5
<1>15. QED
  BY <1>12, <1>13, <1>14

\* That the draws after z all fail, and that the next token is drawn and its weight
\* kept, are one in sum.
LEMMA FailingBalance ==
  ASSUME VerifyTyped, NEW z \in DraftsUpTo(Gamma), Possible(z),
         NEW sum, SumTree(sum, Failing(Len(z)))
  PROVE  sum[z] \in Fractions /\ Plus(sum[z], RestAt(z)) = One
<1> DEFINE P(u) == Possible(u) =>
                     \A s : SumTree(s, Failing(Len(u))) =>
                       s[u] \in Fractions /\ Plus(s[u], RestAt(u)) = One
           S == {k \in Nat : \A u \in DraftsUpTo(Gamma) : Len(u) + k = Gamma => P(u)}
<1>0. /\ Gamma \in Nat /\ Vocab \in Nat /\ \A u \in DraftsUpTo(Gamma) : Len(u) \in 0 .. Gamma
      /\ Tokens = 1 .. Vocab
  BY VerifyAssumption, DraftTyped DEF Tokens
<1>1. 0 \in S
  <2>1. ASSUME NEW u \in DraftsUpTo(Gamma), Len(u) + 0 = Gamma, Possible(u),
               NEW s, SumTree(s, Failing(Len(u)))
        PROVE  s[u] \in Fractions /\ Plus(s[u], RestAt(u)) = One
    <3>1. u \in Drafted /\ Len(u) = Gamma
      BY <1>0, <2>1, UnderFull
    <3>2. s[u] = Failing(Gamma)[u]
      BY <2>1, <3>1, TreeStep
    <3>3. Gamma \in 0 .. Gamma
      BY <1>0
    <3>4. Chance(input.q, u, Gamma, Gamma) = One
      <4>1. \A i \in 1 .. Gamma : input.q[Prefix(u, i - 1)][u[i]] \in Fractions
        BY <3>1, DraftChance
      <4>2. QED
        BY ONLY <1>0, <3>3, <4>1, ChanceStep
    <3>5. FailsAfter(u, Gamma) = One
      BY <2>1, <3>1, <3>3, FailsAfterStep
    <3>6. s[u] = One
      BY <3>1, <3>2, <3>4, <3>5, ZeroOne, Units DEF Failing
    <3>7. RestAt(u) = Zero
      BY <3>1 DEF RestAt
    <3>8. QED
      BY <3>6, <3>7, ZeroOne, Units
  <2>2. \A u \in DraftsUpTo(Gamma) : Len(u) + 0 = Gamma => P(u)
    BY <2>1
  <2> HIDE DEF P
  <2>3. QED
    BY <2>2
<1>2. ASSUME NEW k \in Nat, k \in S PROVE k + 1 \in S
  <2>1. ASSUME NEW u \in DraftsUpTo(Gamma), Len(u) + (k + 1) = Gamma, Possible(u),
               NEW s, SumTree(s, Failing(Len(u)))
        PROVE  s[u] \in Fractions /\ Plus(s[u], RestAt(u)) = One
    <3>0. Len(u) # Gamma
      BY <1>0, <2>1
    <3>1. PICK r : SumTree(r, Failing(Len(u) + 1))
      BY TreeExists
    <3> DEFINE a == [t \in Tokens |-> s[Append(u, t)]]
               b(t) == input.q[u][t]
    <3>2. ASSUME NEW t \in Tokens
          PROVE  /\ a[t] \in Fractions /\ KeptAt(u)[t] \in Fractions
                 /\ b(t) = Plus(a[t], KeptAt(u)[t])
      <4>1. PICK v : v = Append(u, t)
        OBVIOUS
      <4>2. /\ v \in DraftsUpTo(Gamma) /\ Len(v) = Len(u) + 1 /\ Len(v) + k = Gamma
            /\ Len(v) # 0
        BY <1>0, <2>1, <3>0, <4>1, UnderAppend
      <4>3. \A x \in Under(v) : Failing(Len(u))[x] =
              IF b(t) = Zero THEN Zero
              ELSE Times(Times(b(t), FailAt(v)), Failing(Len(v))[x])
        BY <2>1, <3>0, <4>1, <4>2, FailingStep
      <4>4. KeptAt(u)[t] = IF b(t) = Zero THEN Zero ELSE Times(b(t), WeightAt(v))
        BY <4>1 DEF KeptAt
      <4>5. b(t) \in Fractions /\ a[t] = s[v]
        BY <3>0, <4>1, ModelsTyped
      <4>6. b(t) # Zero => Possible(v)
        BY <2>1, <3>0, <4>1, PossibleAppend
      <4> HIDE DEF a, b
      <4>7. CASE b(t) = Zero
        <5>1. s[v] = Zero
          <6>1. \A x \in Under(v) : Failing(Len(u))[x] = Zero
            BY <4>3, <4>7
          <6>2. QED
            BY <2>1, <4>2, <6>1, TreeZero
        <5>2. QED
          BY <4>4, <4>5, <4>7, <5>1, ZeroOne, Units
      <4>8. CASE b(t) # Zero
        <5>1. Possible(v)
          BY <4>6, <4>8
        <5>2. r[v] \in Fractions /\ Plus(r[v], RestAt(v)) = One
          <6>1. P(v)
            <7> HIDE DEF P
            <7>1. QED
              BY <1>2, <4>2
          <6>2. SumTree(r, Failing(Len(v)))
            BY <3>1, <4>2
          <6>3. QED
            BY <5>1, <6>1, <6>2
        <5>3. /\ FailAt(v) \in Fractions
              /\ Plus(Times(FailAt(v), r[v]), WeightAt(v)) = One
          BY <4>2, <5>1, <5>2, DrawBalance
        <5>4. WeightAt(v) \in Fractions
          BY <4>2, <5>1, WeightTyped
        <5>5. PICK c \in Fractions : c = Times(b(t), FailAt(v))
          BY <4>5, <5>3, PlusTimesTyped
        <5>6. s[v] = Times(c, r[v])
          <6>1. \A x \in Under(v) : /\ Failing(Len(v))[x] \in Fractions
                                    /\ Failing(Len(u))[x] = Times(c, Failing(Len(v))[x])
            BY <4>2, <4>3, <4>8, <5>1, <5>5, FailingTyped
          <6>2. SumTree(r, Failing(Len(v)))
            BY <3>1, <4>2
          <6>3. QED
            BY <2>1, <4>2, <6>1, <6>2, TreeScales
        <5>7. s[v] = Times(b(t), Times(FailAt(v), r[v]))
          BY <4>5, <5>2, <5>3, <5>5, <5>6, TimesAssociates
        <5>8. PICK f \in Fractions : f = Times(FailAt(v), r[v])
          BY <5>2, <5>3, PlusTimesTyped
        <5>9. Plus(Times(b(t), f), Times(b(t), WeightAt(v))) = Times(b(t), Plus(f, WeightAt(v)))
          BY <4>5, <5>4, TimesDistributes
        <5>10. Times(b(t), One) = b(t)
          BY <4>5, Units
        <5>11. KeptAt(u)[t] = Times(b(t), WeightAt(v))
          BY <4>4, <4>8
        <5>12. Plus(a[t], KeptAt(u)[t]) = b(t)
          BY <4>5, <5>3, <5>7, <5>8, <5>9, <5>10, <5>11
        <5>13. a[t] \in Fractions /\ KeptAt(u)[t] \in Fractions
          BY <4>5, <5>4, <5>7, <5>8, <5>11, PlusTimesTyped
        <5>14. QED
          BY <5>12, <5>13
      <4>9. QED
        BY <4>7, <4>8
    <3>3. s[u] = Total(a, Vocab)
      BY <2>1, <3>0, TreeStep
    <3>4. RestAt(u) = Total(KeptAt(u), Vocab)
      BY <3>0 DEF RestAt
    <3>5. Total(input.q[u], Vocab) = One
      BY <3>0, ModelsTyped
    <3> HIDE DEF a
    <3>6. Total(input.q[u], Vocab) = Plus(Total(a, Vocab), Total(KeptAt(u), Vocab))
      BY <1>0, <3>2, TotalPlus
    <3>7. Total(a, Vocab) \in Fractions
      BY <1>0, <3>2, TotalStep
    <3>8. QED
      BY <3>3, <3>4, <3>5, <3>6, <3>7
  <2>2. \A u \in DraftsUpTo(Gamma) : Len(u) + (k + 1) = Gamma => P(u)
    BY <2>1
  <2> HIDE DEF P
  <2>3. QED
    BY <2>2
<1>3. Nat \subseteq S
  <2> HIDE DEF S
  <2>1. QED
    BY <1>1, <1>2, Induction
<1>4. PICK k \in Nat : Len(z) + k = Gamma
  <2>1. Gamma - Len(z) \in Nat /\ Len(z) + (Gamma - Len(z)) = Gamma
    BY <1>0
  <2>2. QED
    BY <2>1
<1>5. P(z)
  <2> HIDE DEF P
  <2>1. k \in S
    BY <1>3
  <2>2. QED
    BY <1>4, <2>1
<1>6. QED
  BY <1>5

-----------------------------------------------------------------------------
(* What block verification gives.                                          *)

\* Drafts x accepted up to n, as Lossless sums them.
AcceptedAt(y, n) ==
  [x \in Drafted |-> IF Chance(input.q, x, 0, Gamma) = Zero THEN Zero ELSE Outcome(x, n, y)]

\* A continuation has the drafts it begins with.
LEMMA ContinuationTyped ==
  ASSUME VerifyTyped, NEW y \in [1 .. Gamma + 1 -> Tokens], NEW n \in 0 .. Gamma
  PROVE  /\ Prefix(y, n) \in DraftsUpTo(Gamma) /\ Len(Prefix(y, n)) = n
         /\ y[n + 1] \in Tokens
         /\ n # Gamma => Prefix(y, n + 1) = Append(Prefix(y, n), y[n + 1])
         /\ Chance(input.q, y, 0, n) \in Fractions
         /\ Chance(input.p, y, n, Gamma + 1) \in Fractions
         /\ Chance(input.p, y, n + 1, Gamma + 1) \in Fractions
         /\ Chance(input.p, y, n, Gamma + 1) =
              Times(input.p[Prefix(y, n)][y[n + 1]], Chance(input.p, y, n + 1, Gamma + 1))
         /\ n # Gamma => Chance(input.q, y, 0, n + 1) =
                           Times(Chance(input.q, y, 0, n), input.q[Prefix(y, n)][y[n + 1]])
<1>0. Gamma \in Nat /\ n \in Nat /\ n <= Gamma
  BY VerifyAssumption
<1>1. PICK k \in Nat : k = Gamma + 1
  BY <1>0
<1>2. y \in [1 .. k -> Tokens]
  BY <1>1
<1>3. ASSUME NEW i \in 0 .. Gamma
      PROVE  Prefix(y, i) \in DraftsUpTo(Gamma) /\ Len(Prefix(y, i)) = i
  <2>1. i \in 0 .. k
    BY <1>0, <1>1
  <2>2. Prefix(y, i) \in [1 .. i -> Tokens]
    BY <1>2, <2>1, PrefixTyped
  <2>3. QED
    BY <1>0, <2>2, DraftTyped
<1>4. ASSUME NEW i \in 1 .. k PROVE input.p[Prefix(y, i - 1)][y[i]] \in Fractions
  <2>1. i - 1 \in 0 .. Gamma /\ y[i] \in Tokens
    BY <1>0, <1>1, <1>2
  <2>2. QED
    BY <1>3, <2>1, ModelsTyped
<1>5. ASSUME NEW i \in 1 .. Gamma PROVE input.q[Prefix(y, i - 1)][y[i]] \in Fractions
  <2>1. i - 1 \in 0 .. Gamma /\ i - 1 # Gamma /\ i \in 1 .. k
    BY <1>0, <1>1
  <2>2. y[i] \in Tokens
    BY <1>2, <2>1
  <2>3. QED
    BY <1>3, <2>1, <2>2, ModelsTyped
<1>6. /\ n + 1 \in 1 .. k /\ n \in 0 .. k /\ n + 1 \in 0 .. k /\ n # k /\ n \in 0 .. k - 1
  BY <1>0, <1>1
<1>7. n # Gamma => Prefix(y, n + 1) = Append(Prefix(y, n), y[n + 1])
  BY <1>2, <1>6, PrefixStep
<1>8. /\ Chance(input.p, y, n, k) \in Fractions
      /\ Chance(input.p, y, n, k) =
           Times(input.p[Prefix(y, n)][y[n + 1]], Chance(input.p, y, n + 1, k))
  BY ONLY k \in Nat, <1>4, <1>6, ChanceStep
<1>9. Chance(input.p, y, n + 1, k) \in Fractions
  BY ONLY k \in Nat, <1>4, <1>6, ChanceStep
<1>10. Chance(input.q, y, 0, n) \in Fractions
  BY ONLY <1>0, n \in 0 .. Gamma, <1>5, ChanceSplit
<1>11. ASSUME n # Gamma
       PROVE  Chance(input.q, y, 0, n + 1) =
                Times(Chance(input.q, y, 0, n), input.q[Prefix(y, n)][y[n + 1]])
  <2>1. PICK m \in Nat : m = n + 1
    BY <1>0
  <2>2. n \in 0 .. m /\ m \in 0 .. m /\ n # m /\ \A i \in 1 .. m : i \in 1 .. Gamma
    BY <1>0, <1>11, <2>1
  <2>3. \A i \in 1 .. m : input.q[Prefix(y, i - 1)][y[i]] \in Fractions
    BY <1>5, <2>2
  <2>4. Chance(input.q, y, 0, m) = Times(Chance(input.q, y, 0, n), Chance(input.q, y, n, m))
    BY ONLY m \in Nat, <2>2, <2>3, ChanceSplit
  <2>5. Chance(input.q, y, n, m) = Times(input.q[Prefix(y, n)][y[n + 1]], Chance(input.q, y, n + 1, m))
    BY ONLY m \in Nat, <2>2, <2>3, ChanceStep
  <2>6. Chance(input.q, y, m, m) = One
    BY ONLY m \in Nat, <2>2, <2>3, ChanceStep
  <2>7. input.q[Prefix(y, n)][y[n + 1]] \in Fractions
    <3>1. m \in 1 .. m /\ m - 1 = n
      BY <1>0, <2>1
    <3>2. QED
      BY <2>1, <2>3, <3>1
  <2>8. QED
    BY <2>1, <2>4, <2>5, <2>6, <2>7, Units
<1>12. QED
  BY <1>1, <1>2, <1>3, <1>6, <1>7, <1>8, <1>9, <1>10, <1>11

\* How likely tau is n depends on the draws at n and after.
LEMMA TauIs ==
  ASSUME NEW x \in Drafted, NEW n \in 0 .. Gamma
  PROVE  Tau(input.p, input.q, x, n, input.live) =
           Times(IF n = 0 THEN One ELSE PassAt(Prefix(x, n)), FailsAfter(x, n))
<1>0. Gamma \in Nat
  BY VerifyAssumption
<1> DEFINE passes == [i \in 1 .. Gamma |->
                        IF Alive(i, input.live) THEN Accept(input.p, input.q, x, i, input.live) ELSE Zero]
           fails == [i \in 1 .. Gamma |-> Monus(One, passes[i])]
<1>1. ASSUME NEW i \in 1 .. Gamma PROVE passes[i] = PassAt(Prefix(x, i))
  <2>1. i \in 0 .. Gamma
    BY <1>0
  <2>2. Len(Prefix(x, i)) = i /\ Accept(input.p, input.q, x, i, input.live) = AcceptAt(Prefix(x, i))
    BY <2>1, AtPrefix
  <2>3. QED
    BY <2>2 DEF PassAt
<1>2. fails = [i \in 1 .. Gamma |-> FailAt(Prefix(x, i))]
  BY <1>1 DEF FailAt
<1>3. Tau(input.p, input.q, x, n, input.live) =
        Times(IF n = 0 THEN One ELSE passes[n], Product(fails, n + 1, Gamma))
  BY DEF Tau
<1> HIDE DEF passes, fails
<1>4. n # 0 => n \in 1 .. Gamma
  BY <1>0
<1>5. QED
  BY <1>1, <1>2, <1>3, <1>4 DEF FailsAfter

\* The chance of y by a draft it begins with: a common factor times the failing of that draft.
LEMMA OutcomeIs ==
  ASSUME VerifyTyped, NEW y \in [1 .. Gamma + 1 -> Tokens], NEW n \in 0 .. Gamma,
         Possible(Prefix(y, n)), NEW x \in Under(Prefix(y, n)), Possible(x)
  PROVE  LET z == Prefix(y, n)
         IN  Outcome(x, n, y) =
               Times(Times(Times(Chance(input.q, y, 0, n), IF n = 0 THEN One ELSE PassAt(z)),
                           Times(CorrectionAt(z)[y[n + 1]], Chance(input.p, y, n + 1, Gamma + 1))),
                     Failing(n)[x])
<1>0. Gamma \in Nat /\ n \in Nat /\ n <= Gamma /\ 0 \in 0 .. Gamma
  BY VerifyAssumption
<1>1. PICK z \in DraftsUpTo(Gamma) : z = Prefix(y, n) /\ Len(z) = n
  BY ContinuationTyped
<1>2. x \in Drafted /\ Prefix(x, n) = z /\ Possible(z)
  BY <1>1 DEF Under
<1>3. PICK a \in Fractions : a = Chance(input.q, x, 0, n) /\ a = Chance(input.q, y, 0, n)
  <2>1. PICK k \in Nat : k = Gamma + 1 /\ n <= k
    BY <1>0
  <2>2. x \in [1 .. Gamma -> Tokens] /\ y \in [1 .. k -> Tokens] /\ Prefix(x, n) = Prefix(y, n)
    BY <1>1, <1>2, <2>1 DEF Drafted
  <2>3. (\A i \in 0 .. n : Prefix(x, i) = Prefix(y, i)) /\ \A i \in 1 .. n : x[i] = y[i]
    BY ONLY <1>0, k \in Nat, <2>1, <2>2, PrefixSame
  <2>4. \A i \in 1 .. n : i - 1 \in 0 .. n
    BY <1>0
  <2>5. [i \in 1 .. n |-> input.q[Prefix(x, i - 1)][x[i]]] = [i \in 1 .. n |-> input.q[Prefix(y, i - 1)][y[i]]]
    BY <2>3, <2>4
  <2>6. Chance(input.q, x, 0, n) = Chance(input.q, y, 0, n)
    BY <2>5 DEF Chance
  <2>7. QED
    BY <2>6, ContinuationTyped
<1>4. \A i \in 1 .. Gamma : input.q[Prefix(x, i - 1)][x[i]] \in Fractions
  BY <1>2, DraftChance
<1>5. PICK b \in Fractions : b = Chance(input.q, x, n, Gamma)
  BY ONLY <1>0, <1>4, n \in 0 .. Gamma, ChanceStep
<1>6. Chance(input.q, x, 0, Gamma) = Times(Chance(input.q, x, 0, n), Chance(input.q, x, n, Gamma))
  BY ONLY <1>0, <1>4, n \in 0 .. Gamma, ChanceSplit
<1>7. b # Zero
  BY <1>2, <1>5, DraftChance
<1>8. PICK c : c = IF n = 0 THEN One ELSE PassAt(z)
  OBVIOUS
<1>9. c \in Fractions
  BY <1>1, <1>2, <1>8, FailTyped, ZeroOne
<1>10. PICK f \in Fractions : f = FailsAfter(x, n)
  BY <1>2, FailsAfterStep
<1>11. PICK r \in Fractions : r = CorrectionAt(z)[y[n + 1]]
  BY <1>1, <1>2, ContinuationTyped, CorrectionShare
<1>12. PICK e \in Fractions : e = Chance(input.p, y, n + 1, Gamma + 1)
  BY ContinuationTyped
<1>13. Failing(n)[x] = Times(b, f)
  BY <1>2, <1>5, <1>7, <1>10 DEF Failing
<1>14. Tau(input.p, input.q, x, n, input.live) = Times(c, f)
  BY <1>2, <1>8, <1>10, TauIs
<1>15. Correction(input.p, input.q, x, n, input.live) = CorrectionAt(z)
  BY <1>2, AtPrefix
<1>16. Outcome(x, n, y) = Times(Times(Times(a, b), Times(c, f)), Times(r, e))
  BY <1>1, <1>2, <1>3, <1>5, <1>6, <1>11, <1>12, <1>14, <1>15 DEF Outcome
<1>17. /\ Times(a, b) \in Fractions /\ Times(a, c) \in Fractions /\ Times(b, f) \in Fractions
       /\ Times(r, e) \in Fractions /\ Times(c, f) \in Fractions
  BY <1>9, PlusTimesTyped
<1>18. Times(Times(a, b), Times(c, f)) = Times(Times(a, c), Times(b, f))
  <2>1. Times(Times(a, b), Times(c, f)) = Times(a, Times(b, Times(c, f)))
    BY <1>17, TimesAssociates
  <2>2. Times(b, Times(c, f)) = Times(Times(b, c), f) /\ Times(Times(c, b), f) = Times(c, Times(b, f))
    BY <1>9, TimesAssociates
  <2>3. Times(b, c) = Times(c, b)
    BY <1>9, TimesCommutes
  <2>4. Times(Times(a, c), Times(b, f)) = Times(a, Times(c, Times(b, f)))
    BY <1>9, <1>17, TimesAssociates
  <2>5. QED
    BY <2>1, <2>2, <2>3, <2>4
<1>19. Times(Times(Times(a, c), Times(b, f)), Times(r, e)) = Times(Times(Times(a, c), Times(r, e)), Times(b, f))
  <2>1. PICK u \in Fractions, v \in Fractions, w \in Fractions :
          u = Times(a, c) /\ v = Times(b, f) /\ w = Times(r, e)
    BY <1>17
  <2>2. Times(Times(u, v), w) = Times(u, Times(v, w)) /\ Times(Times(u, w), v) = Times(u, Times(w, v))
    BY TimesAssociates
  <2>3. Times(v, w) = Times(w, v)
    BY TimesCommutes
  <2>4. QED
    BY <2>1, <2>2, <2>3
<1>20. QED
  BY <1>1, <1>3, <1>8, <1>11, <1>12, <1>13, <1>16, <1>18, <1>19

\* How likely n drafts are accepted and y comes out.
Given(y, n) == OverDrafts(AcceptedAt(y, n))

\* The drafts accepted up to n give y as likely as y's own drafts are drawn, the
\* residual takes the next token and the target the rest.
LEMMA GivenIs ==
  ASSUME VerifyTyped, NEW y \in [1 .. Gamma + 1 -> Tokens], NEW n \in 0 .. Gamma
  PROVE  Given(y, n) =
           IF Possible(Prefix(y, n))
           THEN Times(Times(Chance(input.q, y, 0, n), ResidualAt(Prefix(y, n))[y[n + 1]]),
                      Chance(input.p, y, n + 1, Gamma + 1))
           ELSE Zero
<1>0. Gamma \in Nat /\ n \in Nat /\ n <= Gamma
  BY VerifyAssumption
<1>1. PICK z \in DraftsUpTo(Gamma) : z = Prefix(y, n) /\ Len(z) = n
  BY ContinuationTyped
<1>2. PICK f : f = AcceptedAt(y, n)
  OBVIOUS
<1>3. PICK sum : SumTree(sum, f) /\ Given(y, n) = sum[<<>>]
  BY <1>2, OverDraftsIs DEF Given
<1>4. \A x \in Drafted :
        f[x] = IF Chance(input.q, x, 0, Gamma) = Zero THEN Zero ELSE Outcome(x, n, y)
  BY <1>2 DEF AcceptedAt
<1>5. ASSUME NEW x \in Drafted, ~Possible(x) PROVE f[x] = Zero
  BY <1>4, <1>5, DraftChance
<1>6. ASSUME NEW x \in Drafted \ Under(z) PROVE f[x] = Zero
  <2>1. Prefix(x, n) # Prefix(y, n)
    BY <1>1 DEF Under
  <2>2. QED
    BY <1>4, <2>1 DEF Outcome
<1>7. CASE ~Possible(z)
  <2>1. ASSUME NEW x \in Drafted PROVE f[x] = Zero
    <3>1. CASE x \in Under(z)
      <4>1. Prefix(x, n) = z
        BY <1>1, <3>1 DEF Under
      <4>2. ~Possible(x)
        BY <1>7, <4>1, DraftChance
      <4>3. QED
        BY <1>5, <4>2
    <3>2. CASE x \notin Under(z)
      BY <1>6, <3>2
    <3>3. QED
      BY <3>1, <3>2
  <2>2. <<>> \in DraftsUpTo(Gamma) /\ Under(<<>>) = Drafted
    BY UnderFull
  <2>3. sum[<<>>] = Zero
    BY <1>3, <2>1, <2>2, TreeZero
  <2>4. QED
    BY <1>1, <1>3, <1>7, <2>3
<1>8. CASE Possible(z)
  <2>1. PICK r : SumTree(r, Failing(n))
    BY TreeExists
  <2>2. r[z] \in Fractions /\ Plus(r[z], RestAt(z)) = One
    BY <1>1, <1>8, <2>1, FailingBalance
  <2>3. PICK h : h = IF n = 0 THEN One ELSE PassAt(z)
    OBVIOUS
  <2>4. h \in Fractions /\ Times(h, r[z]) = MassAt(z)
    <3>1. CASE n # 0
      BY <1>1, <1>8, <2>2, <2>3, <3>1, DrawBalance
    <3>2. CASE n = 0
      <4>1. z = <<>>
        <5>1. z \in [1 .. 0 -> Tokens]
          BY <1>0, <1>1, <3>2, DraftTyped
        <5>2. QED
          BY <5>1
      <4>2. Plus(MassAt(z), RestAt(z)) = One
        BY <1>8, <4>1, MassBalance, WeightStep
      <4>3. MassAt(z) \in Fractions /\ RestAt(z) \in Fractions
        BY <1>8, MassBalance
      <4>4. r[z] = MassAt(z)
        BY <2>2, <4>2, <4>3, PlusCancels
      <4>5. QED
        BY <2>2, <2>3, <3>2, <4>4, ZeroOne, Units
    <3>3. QED
      BY <3>1, <3>2
  <2>5. PICK a \in Fractions : a = Chance(input.q, y, 0, n)
    BY ContinuationTyped
  <2>6. PICK e \in Fractions : e = Chance(input.p, y, n + 1, Gamma + 1)
    BY ContinuationTyped
  <2>7. PICK g \in Fractions : g = CorrectionAt(z)[y[n + 1]]
                               /\ Times(MassAt(z), g) = ResidualAt(z)[y[n + 1]]
    BY <1>1, <1>8, ContinuationTyped, CorrectionShare
  <2>8. PICK c \in Fractions : c = Times(Times(a, h), Times(g, e))
    BY <2>4, PlusTimesTyped
  <2>9. ASSUME NEW x \in Under(z)
        PROVE  Failing(n)[x] \in Fractions /\ f[x] = Times(c, Failing(n)[x])
    <3>1. x \in Drafted /\ Prefix(x, n) = z
      BY <1>1 DEF Under
    <3>2. Failing(n)[x] \in Fractions
      BY <1>1, <1>8, FailingTyped
    <3>3. CASE Possible(x)
      <4>1. Outcome(x, n, y) = Times(c, Failing(n)[x])
        BY <1>1, <1>8, <2>3, <2>5, <2>6, <2>7, <2>8, <3>3, OutcomeIs
      <4>2. QED
        BY <1>4, <3>1, <3>2, <3>3, <4>1, DraftChance
    <3>4. CASE ~Possible(x)
      <4>1. Chance(input.q, x, n, Gamma) = Zero
        BY <1>8, <3>1, <3>4, DraftChance
      <4>2. Failing(n)[x] = Zero
        BY <3>1, <4>1 DEF Failing
      <4>3. QED
        BY <1>5, <3>1, <3>2, <3>4, <4>2, Units
    <3>5. QED
      BY <3>3, <3>4
  <2>10. sum[z] = Times(c, r[z])
    BY <1>3, <2>1, <2>9, TreeScales
  <2>11. sum[<<>>] = sum[z]
    <3>1. ASSUME NEW x \in Drafted PROVE f[x] \in Fractions
      <4>1. CASE x \in Under(z)
        BY <2>9, <4>1, PlusTimesTyped
      <4>2. CASE x \notin Under(z)
        BY <1>6, <4>2, ZeroOne
      <4>3. QED
        BY <4>1, <4>2
    <3>2. QED
      BY <1>3, <1>6, <3>1, TreeUnder
  <2>12. Times(c, r[z]) = Times(Times(a, ResidualAt(z)[y[n + 1]]), e)
    <3>1. PICK s \in Fractions, t \in Fractions : s = r[z] /\ t = MassAt(z)
      BY <1>8, <2>2, MassBalance
    <3>2. Times(h, s) = t /\ Times(s, h) = t
      BY <2>4, <3>1, TimesCommutes
    <3>3. PICK k \in Fractions : k = Times(g, e)
      BY PlusTimesTyped
    <3>4. Times(Times(Times(a, h), k), s) = Times(Times(a, Times(h, s)), k)
      <4>1. PICK u \in Fractions : u = Times(a, h)
        BY <2>4, PlusTimesTyped
      <4>2. Times(Times(u, k), s) = Times(u, Times(k, s)) /\ Times(u, Times(s, k)) = Times(Times(u, s), k)
        BY TimesAssociates
      <4>3. Times(k, s) = Times(s, k)
        BY TimesCommutes
      <4>4. Times(u, s) = Times(a, Times(h, s))
        BY <2>4, <4>1, TimesAssociates
      <4>5. QED
        BY <4>1, <4>2, <4>3, <4>4
    <3>5. Times(Times(a, t), Times(g, e)) = Times(Times(a, Times(t, g)), e)
      <4>1. PICK u \in Fractions : u = Times(a, t)
        BY PlusTimesTyped
      <4>2. Times(u, Times(g, e)) = Times(Times(u, g), e)
        BY TimesAssociates
      <4>3. Times(u, g) = Times(a, Times(t, g))
        BY <4>1, TimesAssociates
      <4>4. QED
        BY <4>1, <4>2, <4>3
    <3>6. QED
      BY <2>7, <2>8, <3>1, <3>2, <3>3, <3>4, <3>5
  <2>13. QED
    BY <1>1, <1>3, <1>8, <2>5, <2>6, <2>10, <2>11, <2>12
<1>9. QED
  BY <1>7, <1>8

\* How likely y's first n tokens are drawn and its weight is kept, with the rest
\* left to the target.
Left(y, n) ==
  IF n = Gamma + 1 \/ ~Possible(Prefix(y, n)) THEN Zero
  ELSE Times(Times(Chance(input.q, y, 0, n), WeightAt(Prefix(y, n))),
             Chance(input.p, y, n, Gamma + 1))

\* What is accepted at n and what is left from n + 1 on make what is left from n on.
LEMMA GivenBalance ==
  ASSUME VerifyTyped, NEW y \in [1 .. Gamma + 1 -> Tokens], NEW n \in 0 .. Gamma
  PROVE  /\ Given(y, n) \in Fractions /\ Left(y, n) \in Fractions /\ Left(y, n + 1) \in Fractions
         /\ Plus(Given(y, n), Left(y, n + 1)) = Left(y, n)
<1>0. Gamma \in Nat /\ n \in Nat /\ n <= Gamma /\ n # Gamma + 1
  BY VerifyAssumption
<1>1. PICK z \in DraftsUpTo(Gamma) : z = Prefix(y, n) /\ Len(z) = n
  BY ContinuationTyped
<1>2. PICK t \in Tokens : t = y[n + 1]
  BY ContinuationTyped
<1>3. n # Gamma => Prefix(y, n + 1) = Append(z, t) /\ n + 1 # Gamma + 1
  BY <1>0, <1>1, <1>2, ContinuationTyped
<1>4. CASE ~Possible(z)
  <2>1. Given(y, n) = Zero
    BY <1>1, <1>4, GivenIs
  <2>2. Left(y, n) = Zero
    BY <1>1, <1>4 DEF Left
  <2>3. Left(y, n + 1) = Zero
    <3>1. n # Gamma => ~Possible(Prefix(y, n + 1))
      BY <1>1, <1>3, <1>4, PossibleAppend
    <3>2. QED
      BY <1>0, <3>1 DEF Left
  <2>4. QED
    BY <2>1, <2>2, <2>3, ZeroOne, Units
<1>5. CASE Possible(z)
  <2>1. PICK a \in Fractions, e \in Fractions :
          a = Chance(input.q, y, 0, n) /\ e = Chance(input.p, y, n + 1, Gamma + 1)
    BY ContinuationTyped
  <2>2. PICK p \in Fractions, w \in Fractions : p = input.p[z][t] /\ w = WeightAt(z)
    BY <1>5, ModelsTyped, WeightTyped
  <2>3. PICK r \in Fractions : r = ResidualAt(z)[t]
    BY <1>5, ResidualIs
  <2>4. Given(y, n) = Times(Times(a, r), e)
    BY <1>1, <1>2, <1>5, <2>1, <2>3, GivenIs
  <2>5. Left(y, n) = Times(Times(a, w), Times(p, e))
    BY <1>0, <1>1, <1>2, <1>5, <2>1, <2>2, ContinuationTyped DEF Left
  <2>6. PICK k \in Fractions : Plus(r, k) = Times(w, p) /\ Left(y, n + 1) = Times(Times(a, k), e)
    <3>1. CASE n = Gamma
      <4>1. r = Times(w, p)
        BY <1>1, <1>5, <2>2, <2>3, <3>1, LastBalance
      <4>2. Left(y, n + 1) = Zero
        BY <3>1 DEF Left
      <4>3. Zero \in Fractions /\ Plus(r, Zero) = r /\ Times(a, Zero) = Zero /\ Times(Zero, e) = Zero
        BY ZeroOne, Units
      <4>4. QED
        BY <4>1, <4>2, <4>3
    <3>2. CASE n # Gamma
      <4>1. KeptAt(z)[t] \in Fractions /\ Plus(r, KeptAt(z)[t]) = Times(w, p)
        BY <1>1, <1>5, <2>2, <2>3, <3>2, TokenBalance
      <4>2. PICK b \in Fractions : b = input.q[z][t]
        BY <1>1, <3>2, ModelsTyped
      <4>3. Possible(Append(z, t)) <=> b # Zero
        BY <1>1, <1>5, <3>2, <4>2, PossibleAppend
      <4>4. CASE b = Zero
        <5>1. Left(y, n + 1) = Zero
          BY <1>3, <3>2, <4>3, <4>4 DEF Left
        <5>2. KeptAt(z)[t] = Zero
          BY <4>2, <4>4 DEF KeptAt
        <5>3. Times(a, Zero) = Zero /\ Times(Zero, e) = Zero
          BY Units
        <5>4. QED
          BY <4>1, <5>1, <5>2, <5>3
      <4>5. CASE b # Zero
        <5>1. PICK v \in Fractions : v = WeightAt(Append(z, t))
          BY <1>1, <3>2, <4>3, <4>5, UnderAppend, WeightTyped
        <5>2. KeptAt(z)[t] = Times(b, v)
          BY <4>2, <4>5, <5>1 DEF KeptAt
        <5>3. Chance(input.q, y, 0, n + 1) = Times(a, b)
          BY <1>1, <1>2, <2>1, <3>2, <4>2, ContinuationTyped
        <5>4. Left(y, n + 1) = Times(Times(Times(a, b), v), e)
          BY <1>3, <2>1, <3>2, <4>3, <4>5, <5>1, <5>3 DEF Left
        <5>5. Times(Times(a, b), v) = Times(a, Times(b, v))
          BY TimesAssociates
        <5>6. QED
          BY <4>1, <5>2, <5>4, <5>5
      <4>6. QED
        BY <4>4, <4>5
    <3>3. QED
      BY <3>1, <3>2
  <2>7. /\ Times(a, r) \in Fractions /\ Times(a, k) \in Fractions /\ Times(w, p) \in Fractions
        /\ Times(a, w) \in Fractions /\ Times(p, e) \in Fractions
    BY PlusTimesTyped
  <2>8. /\ Times(Times(a, r), e) \in Fractions /\ Times(Times(a, k), e) \in Fractions
        /\ Times(Times(a, w), Times(p, e)) \in Fractions
    BY <2>7, PlusTimesTyped
  <2>9. Plus(Times(Times(a, r), e), Times(Times(a, k), e)) = Times(Times(a, Times(w, p)), e)
    <3>1. Times(a, Plus(r, k)) = Plus(Times(a, r), Times(a, k))
      BY TimesDistributes
    <3>2. PICK u \in Fractions, v \in Fractions : u = Times(a, r) /\ v = Times(a, k)
      BY <2>7
    <3>3. Times(e, Plus(u, v)) = Plus(Times(e, u), Times(e, v))
      BY TimesDistributes
    <3>4. Times(e, u) = Times(u, e) /\ Times(e, v) = Times(v, e)
      BY TimesCommutes
    <3>5. Plus(u, v) \in Fractions
      BY PlusTimesTyped
    <3>6. Times(e, Plus(u, v)) = Times(Plus(u, v), e)
      BY <3>5, TimesCommutes
    <3>7. QED
      BY <2>6, <3>1, <3>2, <3>3, <3>4, <3>6
  <2>10. Times(Times(a, Times(w, p)), e) = Times(Times(a, w), Times(p, e))
    <3>1. Times(a, Times(w, p)) = Times(Times(a, w), p)
      BY TimesAssociates
    <3>2. PICK u \in Fractions : u = Times(a, w)
      BY <2>7
    <3>3. Times(Times(u, p), e) = Times(u, Times(p, e))
      BY TimesAssociates
    <3>4. QED
      BY <3>1, <3>2, <3>3
  <2>11. QED
    BY <2>4, <2>5, <2>6, <2>8, <2>9, <2>10
<1>6. QED
  BY <1>4, <1>5

\* Together they give y as likely as the target does.
LEMMA GivenTotal ==
  ASSUME VerifyTyped, NEW y \in [1 .. Gamma + 1 -> Tokens]
  PROVE  Total([k \in 1 .. Gamma + 1 |-> Given(y, k - 1)], Gamma + 1)
           = Chance(input.p, y, 0, Gamma + 1)
<1>0. Gamma \in Nat
  BY VerifyAssumption
<1>1. PICK m \in Nat : m = Gamma + 1
  BY <1>0
<1> DEFINE f == [k \in 1 .. m |-> Given(y, k - 1)]
           S == {k \in Nat : k <= m => Plus(Total(f, k), Left(y, k)) = Left(y, 0)}
<1>2. ASSUME NEW k \in 1 .. m PROVE f[k] = Given(y, k - 1) /\ f[k] \in Fractions
  <2>1. k - 1 \in 0 .. Gamma
    BY <1>0, <1>1
  <2>2. QED
    BY <2>1, GivenBalance
<1>3. ASSUME NEW k \in 0 .. m PROVE Left(y, k) \in Fractions
  <2>1. CASE k = m
    BY <1>1, <2>1, ZeroOne DEF Left
  <2>2. CASE k # m
    <3>1. k \in 0 .. Gamma
      BY <1>0, <1>1, <2>2
    <3>2. QED
      BY <3>1, GivenBalance
  <2>3. QED
    BY <2>1, <2>2
<1> HIDE DEF f
<1>4. /\ Total(f, 0) = Zero
      /\ \A i \in 1 .. m : Total(f, i) = Plus(Total(f, i - 1), f[i])
  BY <1>2, TotalStep
<1>5. ASSUME NEW k \in 0 .. m PROVE Total(f, k) \in Fractions
  <2>1. \A i \in 1 .. k : f[i] \in Fractions
    BY <1>2
  <2>2. QED
    BY <2>1, TotalStep
<1>6. 0 \in S
  <2>1. Left(y, 0) \in Fractions
    BY <1>3
  <2>2. QED
    BY <1>4, <2>1, Units
<1>7. ASSUME NEW k \in Nat, k \in S PROVE k + 1 \in S
  <2>1. SUFFICES ASSUME k + 1 <= m PROVE Plus(Total(f, k + 1), Left(y, k + 1)) = Left(y, 0)
    OBVIOUS
  <2>2. /\ k \in 0 .. Gamma /\ k \in 0 .. m /\ k + 1 \in 1 .. m /\ k + 1 \in 0 .. m /\ k + 1 - 1 = k
    BY <1>0, <1>1, <2>1
  <2>3. Plus(Total(f, k), Left(y, k)) = Left(y, 0)
    BY <1>7, <2>1
  <2>4. Total(f, k + 1) = Plus(Total(f, k), Given(y, k))
    BY <1>2, <1>4, <2>2
  <2>5. /\ Given(y, k) \in Fractions /\ Left(y, k + 1) \in Fractions
        /\ Plus(Given(y, k), Left(y, k + 1)) = Left(y, k)
    BY <2>2, GivenBalance
  <2>6. Total(f, k) \in Fractions
    BY <1>5, <2>2
  <2>7. Plus(Plus(Total(f, k), Given(y, k)), Left(y, k + 1))
          = Plus(Total(f, k), Plus(Given(y, k), Left(y, k + 1)))
    BY <2>5, <2>6, PlusAssociates
  <2>8. QED
    BY <2>3, <2>4, <2>5, <2>7
<1>8. Nat \subseteq S
  <2> HIDE DEF S
  <2>1. QED
    BY <1>6, <1>7, Induction
<1>9. Total(f, m) = Left(y, 0)
  <2>1. m \in S
    BY <1>8
  <2>2. Left(y, m) = Zero
    BY <1>1 DEF Left
  <2>3. m \in 0 .. m
    OBVIOUS
  <2>4. Total(f, m) \in Fractions
    BY <1>5, <2>3
  <2>5. QED
    BY <2>1, <2>2, <2>4, Units
<1>10. Left(y, 0) = Chance(input.p, y, 0, Gamma + 1)
  <2>1. 0 \in 0 .. Gamma /\ 0 # Gamma + 1
    BY <1>0
  <2>2. Prefix(y, 0) = <<>>
    <3>1. y \in [1 .. m -> Tokens] /\ 0 \in 0 .. m
      BY <1>1
    <3>2. Prefix(y, 0) \in [1 .. 0 -> Tokens]
      BY <3>1, PrefixTyped
    <3>3. QED
      BY <3>2
  <2>3. Possible(<<>>)
    BY UnderFull DEF Possible
  <2>4. Chance(input.q, y, 0, 0) = One
    <3>1. PICK k \in Nat : k = 0
      OBVIOUS
    <3>2. k \in 0 .. k /\ \A i \in 1 .. k : input.q[Prefix(y, i - 1)][y[i]] \in Fractions
      BY <3>1
    <3>3. Chance(input.q, y, k, k) = One
      BY ONLY k \in Nat, <3>2, ChanceStep
    <3>4. QED
      BY <3>1, <3>3
  <2>5. Chance(input.p, y, 0, Gamma + 1) \in Fractions
    BY <2>1, ContinuationTyped
  <2>6. WeightAt(<<>>) = One
    BY WeightStep
  <2>7. Left(y, 0) = Times(Times(One, One), Chance(input.p, y, 0, Gamma + 1))
    BY <2>1, <2>2, <2>3, <2>4, <2>6 DEF Left
  <2>8. QED
    BY <2>5, <2>7, ZeroOne, Units
<1>11. QED
  BY <1>1, <1>9, <1>10 DEF f

\* Block verification is lossless on every input of its kind.
LEMMA LosslessInput ==
  ASSUME input.kind = "verify" => VerifyTyped
  PROVE  Lossless
<1>1. SUFFICES ASSUME input.kind = "verify", NEW y \in [1 .. Gamma + 1 -> Tokens]
               PROVE  Total([k \in 1 .. Gamma + 1 |-> Given(y, k - 1)], Gamma + 1)
                        = Chance(input.p, y, 0, Gamma + 1)
  BY DEF Lossless, Given, AcceptedAt
<1>2. VerifyTyped
  BY <1>1
<1>3. QED
  BY <1>2, GivenTotal
\* Block verification is lossless: whatever the drafts are sampled from and however
\* many of them are verified, every continuation is as likely as the target makes it.
THEOREM LosslessHolds == Spec => []Lossless
<1> DEFINE Inv == input.kind = "verify" => VerifyTyped
<1>1. VerifyInput => VerifyTyped
  <2>1. SUFFICES ASSUME NEW p \in [DraftsUpTo(Gamma - 1) -> Distributions],
                        NEW q \in [DraftsUpTo(Gamma - 1) -> Distributions], NEW live \in 0 .. Gamma,
                        input = [kind |-> "verify", live |-> live, q |-> q,
                                 p |-> [x \in DraftsUpTo(Gamma) |->
                                          IF Len(x) = Gamma THEN p[<<>>] ELSE p[x]]]
                 PROVE  VerifyTyped
    BY DEF VerifyInput
  <2>2. Gamma \in Nat /\ Gamma - 1 \in Nat /\ 0 \in 0 .. Gamma - 1
    BY VerifyAssumption
  <2>3. ASSUME NEW x \in DraftsUpTo(Gamma)
        PROVE  (IF Len(x) = Gamma THEN p[<<>>] ELSE p[x]) \in Distributions
    <3>1. CASE Len(x) = Gamma
      <4>1. <<>> \in [1 .. 0 -> Tokens]
        OBVIOUS
      <4>2. <<>> \in DraftsUpTo(Gamma - 1)
        BY <2>2, <4>1, DraftTyped
      <4>3. QED
        BY <3>1, <4>2
    <3>2. CASE Len(x) # Gamma
      <4>1. PICK m \in 0 .. Gamma : m = Len(x) /\ x \in [1 .. m -> Tokens]
        BY <2>2, DraftTyped
      <4>2. m \in 0 .. Gamma - 1
        <5>1. m # Gamma
          BY <3>2, <4>1
        <5>2. QED
          BY ONLY <2>2, m \in 0 .. Gamma, <5>1
      <4>3. x \in DraftsUpTo(Gamma - 1)
        BY ONLY <2>2, <4>1, <4>2, DraftTyped
      <4>4. QED
        BY <3>2, <4>3
    <3>3. QED
      BY <3>1, <3>2
  <2>4. input.live = live /\ input.q = q
        /\ input.p = [x \in DraftsUpTo(Gamma) |-> IF Len(x) = Gamma THEN p[<<>>] ELSE p[x]]
    BY <2>1
  <2>5. input.p \in [DraftsUpTo(Gamma) -> Distributions]
    BY <2>3, <2>4
  <2>6. QED
    BY <2>4, <2>5 DEF VerifyTyped
<1>2. Init => Inv
  <2>1. Init => VerifyInput \/ input.kind # "verify"
    BY DEF Init, AlgorithmInput, IndexerInput, PadInput, ScaleInput, LoopInput, ChatInput
  <2>2. QED
    BY <1>1, <2>1
<1>3. Inv /\ [Next]_<<layout, input, prepareVars>> => Inv'
  BY DEF Next, VerifyTyped
<1>4. Inv => Lossless
  BY LosslessInput
<1>5. QED
  BY <1>2, <1>3, <1>4, PTL DEF Spec
===============================================================================
