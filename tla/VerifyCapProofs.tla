--------------------------- MODULE VerifyCapProofs ---------------------------
(***************************************************************************)
(* A capped verify commits what a shorter one would, and all ranks use the *)
(* same live lengths, for any ranks, batch, block size and confidences.    *)
(*                                                                         *)
(* RanksAgree is not inductive: in the middle of a step some ranks have    *)
(* their new lengths and others not.  The invariant tells the two groups   *)
(* apart: those past run have what those before it will have, once they    *)
(* fill in what the root sent.                                             *)
(***************************************************************************)
EXTENDS VerifyCap, TLAPS

Places == {"idle", "draft", "run", "verify"}
Lengths == UNION {[Batch(b) -> 1 .. Stride] : b \in Batch(MaxBs)}
Results == [want : UNION {Counts(b) : b \in Batch(MaxBs)}, own : BOOLEAN]

\* This step takes its lengths from the root's confidence.
Fresh == fixed = 0 /\ given

Before(r) == at[r] \in {"draft", "run"}

CapTypes ==
  /\ fixed \in 0 .. Drafts /\ bs \in Batch(MaxBs) /\ given \in BOOLEAN
  /\ at \in [Ranks -> Places]
  /\ live \in [Ranks -> [Batch(MaxBs) -> 1 .. Stride]]
  /\ sent \in Lengths \cup {<<>>}
  /\ unread \in Seq(Results)

\* A step begins and ends on all ranks together.
Together == \A r, q \in Ranks : at[r] = "idle" => at[q] = "idle"

\* There is a confidence between draft and run, if the step has one.
Confidences ==
  /\ DOMAIN conf = Ranks
  /\ \A r \in Ranks :
       IF at[r] = "run" /\ Fresh THEN conf[r] \in Counts(bs) ELSE conf[r] = <<>>

\* The root sends before any other rank gets past run.
SentFirst ==
  /\ Before(Root) => sent = <<>>
  /\ Fresh => \A r \in Ranks : at[r] = "verify" => sent # <<>>

\* Lengths before and after run.
Halves ==
  /\ \A r, q \in Ranks : (Before(r) <=> Before(q)) => live[r] = live[q]
  /\ \A r, q \in Ranks : at[r] = "verify" /\ Before(q) =>
       live[r] = IF Fresh THEN Fill(live[q], sent) ELSE live[q]

CapInv == CapTypes /\ Together /\ Confidences /\ SentFirst /\ Halves

\* An array of at least one entry is not None.
LEMMA NotNone == ASSUME NEW b \in Nat \ {0}, NEW S, NEW f \in [Batch(b) -> S]
                 PROVE  f # <<>>
<1>1. 1 \in DOMAIN f
  BY DEF Batch
<1>2. DOMAIN <<>> = {}
  OBVIOUS
<1>3. QED
  BY <1>1, <1>2

\* Lengths from a confidence are between 1 and Stride.
LEMMA LengthsOf == ASSUME NEW b \in Batch(MaxBs), NEW lead \in Counts(b)
                   PROVE  /\ FromConfidence(lead) \in [Batch(b) -> 1 .. Stride]
                          /\ FromConfidence(lead) # <<>>
<1>1. FromConfidence(lead) \in [Batch(b) -> 1 .. Stride]
  BY CapAssumption DEF FromConfidence, Counts, Batch, Stride, Lesser, Greater
<1>2. b \in Nat \ {0}
  BY CapAssumption DEF Batch
<1>3. QED
  BY <1>1, <1>2, NotNone

\* Filling keeps an array of lengths one.
LEMMA Filled == ASSUME NEW f \in [Batch(MaxBs) -> 1 .. Stride], NEW s \in Lengths
                PROVE  Fill(f, s) \in [Batch(MaxBs) -> 1 .. Stride]
<1>1. PICK b \in Batch(MaxBs) : s \in [Batch(b) -> 1 .. Stride]
  BY DEF Lengths
<1>2. QED
  BY <1>1 DEF Fill

LEMMA InitCap == Init => CapInv
<1> SUFFICES ASSUME Init PROVE CapInv
  OBVIOUS
<1>1. CapTypes
  <2>1. live \in [Ranks -> [Batch(MaxBs) -> 1 .. Stride]]
    BY CapAssumption DEF Init, Stride
  <2>2. <<>> \in Seq(Results)
    OBVIOUS
  <2>3. unread \in Seq(Results) /\ sent \in Lengths \cup {<<>>}
    BY <2>2 DEF Init
  <2>4. given \in BOOLEAN
    BY DEF Init
  <2>5. bs \in Batch(MaxBs)
    BY CapAssumption DEF Init, Batch
  <2>6. QED
    BY <2>1, <2>3, <2>4, <2>5 DEF Init, CapTypes, Places
<1>2. Together /\ Confidences /\ SentFirst /\ Halves
  BY DEF Init, Together, Confidences, SentFirst, Halves, Before, Fresh
<1>3. QED
  BY <1>1, <1>2 DEF CapInv

\* One rank gets its lengths, from its own confidence or from the root.
LEMMA RunKeeps == ASSUME CapInv, NEW r \in Ranks, Run(r) PROVE CapInv'
<1> USE DEF CapInv
<1>0. /\ at[r] = "run" /\ at' = [at EXCEPT ![r] = "verify"]
      /\ conf' = [conf EXCEPT ![r] = <<>>]
      /\ UNCHANGED <<fixed, step_vars, unread>>
  BY DEF Run, Consume
<1>a. at \in [Ranks -> Places]
  BY DEF CapTypes
<1>b. UNCHANGED <<fixed, bs, given>>
  BY <1>0 DEF step_vars
<1>c. live \in [Ranks -> [Batch(MaxBs) -> 1 .. Stride]]
  BY DEF CapTypes
<1>d. Fresh' = Fresh
  BY <1>b DEF Fresh
<1>1. Together'
  BY <1>0, <1>a DEF Together
<1>2. Confidences'
  BY <1>0, <1>a, <1>b, <1>d DEF Confidences, Counts
<1>3. CASE ~Fresh
  <2>1. UNCHANGED <<live, sent>>
    BY <1>3, <1>0 DEF Run, Confidences
  <2>2. CapTypes'
    BY <1>0, <1>a, <1>b, <2>1 DEF CapTypes, Places
  <2>3. SentFirst'
    BY <1>0, <1>3, <1>a, <1>d, <2>1 DEF SentFirst, Before
  <2>4. \A q \in Ranks : live[q] = live[r]
    <3>1. \A q \in Ranks : Before(q) \/ at[q] = "verify"
      BY <1>0, <1>a DEF Together, Before, Places
    <3>2. QED
      BY <3>1, <1>0, <1>3 DEF Halves, Before
  <2>5. Halves'
    BY <2>1, <2>4, <1>3, <1>d DEF Halves
  <2>6. QED
    BY <1>1, <1>2, <2>2, <2>3, <2>5
<1>4. CASE Fresh
  <2>1. conf[r] \in Counts(bs) /\ bs \in Batch(MaxBs)
    BY <1>0, <1>4 DEF Confidences, CapTypes
  <2>2. conf[r] # <<>>
    <3>1. bs \in Nat \ {0}
      BY <2>1, CapAssumption DEF Batch
    <3>2. QED
      BY <2>1, <3>1, NotNone DEF Counts
  <2>3. fixed = 0
    BY <1>4 DEF Fresh
  <2>4. SetLive(r)
    BY <2>2, <2>3 DEF Run
  <2>5. /\ sent' \in Lengths /\ sent' # <<>>
        /\ live' = [live EXCEPT ![r] = Fill(live[r], sent')]
        /\ r # Root => sent' = sent
    <3>1. CASE r = Root
      <4>1. FromConfidence(conf[r]) \in Lengths /\ FromConfidence(conf[r]) # <<>>
        BY <2>1, LengthsOf DEF Lengths
      <4>2. QED
        BY <3>1, <2>4, <4>1 DEF SetLive
    <3>2. CASE r # Root
      BY <3>2, <2>4 DEF SetLive, CapTypes
    <3>3. QED
      BY <3>1, <3>2
  <2>6. \A q \in Ranks : at[q] = "verify" => sent' = sent
    <3>1. CASE r = Root
      BY <3>1, <1>0, <1>4 DEF SentFirst, Before
    <3>2. QED
      BY <3>1, <2>5
  <2>7. CapTypes'
    <3>1. Fill(live[r], sent') \in [Batch(MaxBs) -> 1 .. Stride]
      BY <2>5, <1>c, Filled
    <3>2. QED
      BY <3>1, <2>5, <1>0, <1>a, <1>b, <1>c DEF CapTypes, Places
  <2>8. SentFirst'
    <3>1. Before(Root)' => sent' = <<>>
      BY <2>5, <1>0, <1>a, CapAssumption DEF SentFirst, Before
    <3>2. QED
      BY <3>1, <2>5 DEF SentFirst
  <2>9. Halves'
    <3> DEFINE New(q) == Fill(live[q], sent')
    <3>1. \A q \in Ranks : Before(q) => live[q] = live[r]
      BY <1>0 DEF Halves, Before
    <3>2. \A q \in Ranks : at[q] = "verify" => live[q] = New(r)
      BY <1>0, <1>4, <2>6 DEF Halves, Before
    <3>3. \A q \in Ranks : at[q] # "idle"
      BY <1>0, <1>a DEF Together
    <3>4. \A q \in Ranks : Before(q) \/ at[q] = "verify"
      BY <3>3, <1>a DEF Before, Places
    <3>5. \A q \in Ranks : ~Before(q)' => live'[q] = New(r)
      BY <3>2, <3>4, <2>5, <1>0, <1>a, <1>c DEF Before
    <3>6. \A q \in Ranks : Before(q)' => live'[q] = live[r]
      BY <3>1, <2>5, <1>0, <1>a, <1>c DEF Before
    <3>7. QED
      BY <3>5, <3>6, <1>d, <1>4 DEF Halves, Before
  <2>10. QED
    BY <1>1, <1>2, <2>7, <2>8, <2>9
<1>5. QED
  BY <1>3, <1>4

LEMMA CapKeep == CapInv /\ [Next]_vars => CapInv'
<1> SUFFICES ASSUME CapInv, [Next]_vars PROVE CapInv'
  OBVIOUS
<1> USE DEF CapInv
<1>a. at \in [Ranks -> Places]
  BY DEF CapTypes
<1>1. CASE Schedule
  <2>1. \A q \in Ranks : at[q] = "idle" /\ at'[q] = "draft"
    BY <1>1 DEF Schedule
  <2>2. sent' = <<>> /\ UNCHANGED <<fixed, conf, live, unread>>
    BY <1>1 DEF Schedule
  <2>3. CapTypes'
    BY <1>1, <2>2 DEF Schedule, CapTypes, Places
  <2>4. \A q, p \in Ranks : live'[q] = live'[p]
    BY <2>1, <2>2 DEF Halves, Before
  <2>5. QED
    BY <2>1, <2>2, <2>3, <2>4
       DEF Together, Confidences, SentFirst, Halves, Before
<1>2. ASSUME NEW r \in Ranks, Draft(r) PROVE CapInv'
  <2>1. /\ at[r] = "draft" /\ at' = [at EXCEPT ![r] = "run"]
        /\ UNCHANGED <<fixed, bs, given, live, sent, unread>>
    BY <1>2 DEF Draft, step_vars
  <2>2. Fresh' = Fresh
    BY <2>1 DEF Fresh
  <2>3. Confidences'
    <3>1. CASE Fresh
      <4>1. PICK lead \in Counts(bs) : conf' = [conf EXCEPT ![r] = lead]
        BY <3>1, <1>2 DEF Draft, Fresh
      <4>2. QED
        BY <4>1, <3>1, <2>1, <2>2, <1>a DEF Confidences, Counts
    <3>2. CASE ~Fresh
      <4>1. conf' = conf
        BY <3>2, <1>2 DEF Draft, Fresh
      <4>2. QED
        BY <4>1, <3>2, <2>1, <2>2, <1>a DEF Confidences
    <3>3. QED
      BY <3>1, <3>2
  <2>4. \A q \in Ranks : (Before(q)' <=> Before(q))
                         /\ (at'[q] = "verify" <=> at[q] = "verify")
    BY <2>1, <1>a DEF Before
  <2>5. SentFirst' /\ Halves'
    BY <2>1, <2>2, <2>4, CapAssumption DEF SentFirst, Halves
  <2>6. CapTypes' /\ Together'
    BY <2>1, <1>a DEF CapTypes, Together, Places
  <2>7. QED
    BY <2>3, <2>5, <2>6
<1>3. ASSUME NEW r \in Ranks, Run(r) PROVE CapInv'
  BY <1>3, RunKeeps
<1>4. CASE Verify
  <2>1. \A q \in Ranks : at[q] = "verify" /\ at'[q] = "idle"
    BY <1>4 DEF Verify
  <2>2. UNCHANGED <<fixed, bs, given, conf, live, sent>>
    BY <1>4 DEF Verify, step_vars
  <2>3. unread' \in Seq(Results)
    <3>1. PICK g \in Counts(bs) :
             LET lens == [i \in Batch(bs) |-> CapCorrectLen(g[i], Cutoff(i))]
             IN  unread' = Append(unread, [want |-> lens, own |-> Owned(folded)])
      BY <1>4 DEF Verify
    <3> DEFINE lens == [i \in Batch(bs) |-> CapCorrectLen(g[i], Cutoff(i))]
    <3>2. Batch(bs) \subseteq Batch(MaxBs)
      BY CapAssumption DEF CapTypes, Batch
    <3>3. \A i \in Batch(bs) : live[Root][i] \in 1 .. Stride
      BY <3>2, CapAssumption DEF CapTypes
    <3>4. lens \in Counts(bs)
      BY <3>3, CapAssumption DEF Counts, CapCorrectLen, Cutoff, Lesser, Stride
    <3>5. [want |-> lens, own |-> Owned(folded)] \in Results
      BY <3>4 DEF Results, Owned, CapTypes
    <3>6. QED
      BY <3>1, <3>5 DEF CapTypes
  <2>4. CapTypes'
    BY <1>4, <2>2, <2>3 DEF Verify, CapTypes, Places
  <2>5. \A q, p \in Ranks : live'[q] = live'[p]
    BY <2>1, <2>2 DEF Halves, Before
  <2>6. QED
    BY <2>1, <2>2, <2>4, <2>5, CapAssumption
       DEF Together, Confidences, SentFirst, Halves, Before
<1>5. CASE Copy
  <2>1. unread' \in Seq(Results)
    BY <1>5 DEF Copy, CapTypes
  <2>2. QED
    BY <1>5, <2>1 DEF Copy, step_vars, CapTypes, Together, Confidences, SentFirst,
                      Halves, Before, Fresh
<1>6. CASE UNCHANGED vars
  BY <1>6 DEF vars, step_vars, CapTypes, Together, Confidences, SentFirst,
              Halves, Before, Fresh
<1>7. QED
  BY <1>1, <1>2, <1>3, <1>4, <1>5, <1>6 DEF Next, Done

\* The invariant of the capped verify.
THEOREM CapInvariant == Spec => []CapInv
BY InitCap, CapKeep, PTL DEF Spec

\* A confidence is used by the step it was made for (propose, run_non_compact).
THEOREM ConfidenceOfStepHolds == Spec => []ConfidenceOfStep
<1>1. CapInv => ConfidenceOfStep
  BY DEF CapInv, Confidences, ConfidenceOfStep, Fresh
<1>2. QED
  BY <1>1, CapInvariant, PTL

\* Ranks at the same place of a step have the same live lengths
\* (set_live_from_confidence).
THEOREM RanksAgreeHolds == Spec => []RanksAgree
<1>1. CapInv => RanksAgree
  BY DEF CapInv, Halves, RanksAgree, Before
<1>2. QED
  BY <1>1, CapInvariant, PTL

-----------------------------------------------------------------------------
(* What a verify commits. *)

\* With the same live lengths on every rank, the rows below a request's live
\* length are computed, and the first one at or past it is not.
LEMMA LiveComputed ==
  ASSUME CapTypes, \A r, q \in Ranks : live[r] = live[q],
         NEW i \in Batch(bs), NEW p \in Positions, p < live[Root][i]
  PROVE  Computed(i, p)
<1> SUFFICES ASSUME NEW q \in 0 .. p, NEW r \in Ranks
             PROVE  Source(r)[<<i, q>>] = <<i, q>>
  BY DEF Computed
<1>1. i \in Batch(MaxBs) /\ Root \in Ranks
  BY CapAssumption DEF CapTypes, Batch
<1>2. live[r][i] = live[Root][i] /\ live[r][i] \in 1 .. Stride
  BY <1>1 DEF CapTypes
<1>3. q \in Positions /\ ~Dead(q, live[r][i])
  BY <1>2, CapAssumption DEF Dead, Positions, Stride
<1>4. <<i, q>> \in Rows(bs)
  BY <1>3 DEF Rows
<1>5. Source(r)[<<i, q>>] =
        IF Dead(<<i, q>>[2], live[r][<<i, q>>[1]]) THEN <<<<i, q>>[1], 0>> ELSE <<i, q>>
  BY <1>4 DEF Source
<1>6. QED
  BY <1>3, <1>5

\* However far dead rows seem to confirm the drafts, the cap leaves what a verify
\* of the live drafts alone would accept.
LEMMA CapExact ==
  ASSUME CapTypes, \A r, q \in Ranks : live[r] = live[q],
         NEW i \in Batch(bs), NEW m \in Positions, NEW g \in Confirmed(i, m)
  PROVE  LET c == CapCorrectLen(g, Cutoff(i))
         IN  c = Lesser(m, live[Root][i] - 1) /\ Computed(i, c)
<1> DEFINE l == live[Root][i]
<1> DEFINE c == CapCorrectLen(g, Cutoff(i))
<1>1. l \in 1 .. Stride
  BY CapAssumption DEF CapTypes, Batch
<1>2. g \in Positions
  BY DEF Confirmed
<1>3. /\ g < m => g >= l
      /\ m < g => m >= l
  <2>1. ASSUME g < m, g < l PROVE FALSE
    <3>1. Computed(i, g)
      BY <2>1, <1>2, LiveComputed
    <3>2. g < Drafts
      BY <2>1, <1>2, CapAssumption DEF Positions
    <3>3. QED
      BY <2>1, <3>1, <3>2, <1>2, CapAssumption DEF Confirmed, Positions
  <2>2. ASSUME m < g, m < l PROVE FALSE
    <3>1. Computed(i, m)
      BY <2>2, LiveComputed
    <3>2. m \in 0 .. g - 1
      BY <2>2, <1>2, CapAssumption DEF Positions
    <3>3. QED
      BY <3>1, <3>2, CapAssumption DEF Confirmed, Positions
  <2>3. QED
    BY <2>1, <2>2, <1>1, <1>2, CapAssumption DEF Positions, Stride
<1>4. c = Lesser(m, l - 1) /\ c \in Positions /\ c < l
  BY <1>1, <1>2, <1>3, CapAssumption DEF CapCorrectLen, Cutoff, Lesser, Positions, Stride
<1>5. Computed(i, c)
  BY <1>4, LiveComputed
<1>6. QED
  BY <1>4, <1>5

\* A capped verify commits exactly what a verify of its live drafts would, and its
\* bonus token comes from a row computed on every rank (the file's comment, 6-10).
THEOREM CommitsAsIfShorterHolds == Spec => CommitsAsIfShorter
<1> DEFINE Step ==
      Len(unread') > Len(unread) =>
        LET lens == unread'[Len(unread')].want
        IN  \A i \in Batch(bs) :
              /\ lens[i] = Lesser(agreed'[i], live[Root][i] - 1)
              /\ Computed(i, lens[i])
<1>1. CapInv /\ [Next]_vars => Step
  <2> SUFFICES ASSUME CapInv, [Next]_vars, Len(unread') > Len(unread)
               PROVE  Step
    OBVIOUS
  <2>1. unread \in Seq(Results)
    BY DEF CapInv, CapTypes
  <2>2. Verify
    <3>1. unread' # unread
      BY <2>1
    <3>2. ASSUME Copy PROVE FALSE
      <4>1. unread' = Tail(unread) /\ unread # <<>>
        BY <3>2 DEF Copy
      <4>2. Len(unread') = Len(unread) - 1 /\ Len(unread) \in Nat
        BY <4>1, <2>1
      <4>3. QED
        BY <4>2
    <3>3. QED
      BY <3>1, <3>2 DEF Next, Schedule, Draft, Run, Done, vars, step_vars
  <2>3. PICK g \in Counts(bs) :
          /\ \A i \in Batch(bs) : g[i] \in Confirmed(i, agreed'[i])
          /\ unread' = Append(unread,
               [want |-> [i \in Batch(bs) |-> CapCorrectLen(g[i], Cutoff(i))],
                own |-> Owned(folded)])
    BY <2>2 DEF Verify
  <2>4. unread'[Len(unread')].want =
          [i \in Batch(bs) |-> CapCorrectLen(g[i], Cutoff(i))]
    BY <2>1, <2>3
  <2>5. CapTypes /\ \A r, q \in Ranks : live[r] = live[q]
    BY <2>2 DEF CapInv, Halves, Verify, Before
  <2>6. agreed' \in Counts(bs)
    BY <2>2 DEF Verify
  <2>7. ASSUME NEW i \in Batch(bs)
        PROVE  LET c == CapCorrectLen(g[i], Cutoff(i))
               IN  c = Lesser(agreed'[i], live[Root][i] - 1) /\ Computed(i, c)
    <3>1. agreed'[i] \in Positions
      BY <2>6 DEF Counts, Positions
    <3>2. QED
      BY <2>3, <2>5, <3>1, CapExact
  <2>8. QED
    BY <2>4, <2>7
<1>2. QED
  BY <1>1, CapInvariant, PTL DEF Spec, CommitsAsIfShorter

-----------------------------------------------------------------------------
(* The copy to the host. *)

\* Every result on its way has memory of its own, so that the copy does not
\* depend on what a later verify left in the persistent buffer.
OwnInv ==
  /\ \A k \in 1 .. Len(unread) : unread[k].own
  /\ HostReadsItsStep

LEMMA OwnKeeps == CapInv /\ OwnInv /\ [Next]_vars => OwnInv'
<1> SUFFICES ASSUME CapInv, OwnInv, [Next]_vars PROVE OwnInv'
  OBVIOUS
<1>0. unread \in Seq(Results)
  BY DEF CapInv, CapTypes
<1> USE DEF OwnInv, HostReadsItsStep
<1>1. CASE Verify
  <2>1. UNCHANGED host
    BY <1>1 DEF Verify
  <2>2. PICK lens : unread' = Append(unread, [want |-> lens, own |-> TRUE])
    BY <1>1 DEF Verify, Owned
  <2>3. \A k \in 1 .. Len(unread') : unread'[k].own
    BY <1>0, <2>2
  <2>4. QED
    BY <2>1, <2>3
<1>2. CASE Copy
  <2>1. /\ unread # <<>> /\ unread' = Tail(unread)
        /\ host' = [want |-> Head(unread).want,
                    got |-> IF Head(unread).own THEN Head(unread).want ELSE buffer]
    BY <1>2 DEF Copy
  <2>2. Head(unread).own
    BY <1>0, <2>1
  <2>3. host'.got = host'.want
    BY <2>1, <2>2
  <2>4. \A k \in 1 .. Len(unread') : unread'[k].own
    BY <1>0, <2>1
  <2>5. QED
    BY <2>3, <2>4
<1>3. CASE UNCHANGED <<unread, host>>
  BY <1>3
<1>4. QED
  <2>1. ASSUME NEW r \in Ranks, Draft(r) \/ Run(r) PROVE UNCHANGED <<unread, host>>
    BY <2>1 DEF Draft, Run
  <2>2. Schedule \/ Done \/ UNCHANGED vars => UNCHANGED <<unread, host>>
    BY DEF Schedule, Done, vars
  <2>3. QED
    BY <1>1, <1>2, <1>3, <2>1, <2>2 DEF Next

\* The host's copy is of the step whose result it took, however far the next
\* step's verify has come.
THEOREM HostReadsItsStepHolds == Spec => []HostReadsItsStep
<1>1. Init => CapInv /\ OwnInv
  BY InitCap DEF Init, OwnInv, HostReadsItsStep
<1>2. CapInv /\ OwnInv /\ [Next]_vars => (CapInv /\ OwnInv)'
  BY CapKeep, OwnKeeps
<1>3. CapInv /\ OwnInv => HostReadsItsStep
  BY DEF OwnInv
<1>4. QED
  BY <1>1, <1>2, <1>3, PTL DEF Spec
===============================================================================
