------------------------------ MODULE VerifyCap ------------------------------
(***************************************************************************)
(* How many drafts of a request a verify step checks                       *)
(* (fleet/adapter/verify_cap.py), and what the scheduler's copy of its     *)
(* result reads (fleet/adapter/folded_result_fence.py).                    *)
(*                                                                         *)
(* A verify step runs 1 + Drafts rows for each request of its batch: row 0 *)
(* is the anchor and row p, the last token of draft p, tells what follows  *)
(* it.  A row of position below the request's live length is computed; a   *)
(* dead row takes its anchor's experts, so what it tells is arbitrary.     *)
(* The ranks run the same steps: each has its own buffer of live lengths   *)
(* and its own confidence, which the all-reduces before it may make differ *)
(* from rank to rank.  A confidence is given by the number of leading      *)
(* drafts whose product reaches the threshold.                             *)
(*                                                                         *)
(* On one rank all of a step but the copy of its result runs on one        *)
(* stream, in order.  The scheduler schedules a step while the result of   *)
(* the one before may still be on its way to the host.                     *)
(***************************************************************************)
EXTENDS Integers, Sequences

CONSTANTS
  Ranks,      \* the tensor-parallel group
  Root,       \* rank 0, which decides
  Drafts,     \* DSPARK_BLOCK_SIZE
  MaxBs,      \* requests of the largest batch
  KMin,       \* DSV41_VERIFY_CAP_MIN
  MaxSteps    \* bound: verify steps

ASSUME CapAssumption ==
  /\ Root \in Ranks
  /\ Drafts \in Nat \ {0}
  /\ MaxBs \in Nat \ {0}
  /\ KMin \in 0 .. Drafts
  /\ MaxSteps \in Nat

VARIABLES
  fixed,      \* DSV41_VERIFY_CAP: a number of drafts, or 0 for "conf:T"
  step,       \* verify steps scheduled
  bs,         \* requests of this step's batch
  given,      \* the draft gives a confidence this step
  folded,     \* the step's acceptance is part of the replayed graph
  at,         \* where each rank is: "idle", "draft", "run", "verify"
  conf,       \* _state["conf"] of each rank, <<>> for None
  live,       \* the live buffer of each rank
  sent,       \* what the root broadcast this step, <<>> before
  agreed,     \* ghost: per request, drafts that are the target's own tokens
  buffer,     \* correct_len in the epilogue's persistent buffers
  unread,     \* results on their way to the host
  host        \* the last result copied: what it was and what was read

step_vars == <<step, bs, given, folded>>
vars == <<fixed, step_vars, at, conf, live, sent, agreed, buffer, unread, host>>

Stride == Drafts + 1
Batch(b) == 1 .. b
Counts(b) == [Batch(b) -> 0 .. Drafts]
Positions == 0 .. Drafts
Rows(b) == Batch(b) \X Positions

Lesser(a, b) == IF a <= b THEN a ELSE b
Greater(a, b) == IF a >= b THEN a ELSE b

Init ==
  /\ fixed \in 0 .. Drafts
  /\ step = 0 /\ bs = 1 /\ given = FALSE /\ folded = FALSE
  /\ at = [r \in Ranks |-> "idle"]
  /\ conf = [r \in Ranks |-> <<>>]
  /\ live = [r \in Ranks |->
               [i \in Batch(MaxBs) |-> IF fixed = 0 THEN Stride ELSE 1 + fixed]]
  /\ sent = <<>>
  /\ agreed = <<>>
  /\ buffer = <<>>
  /\ unread = <<>>
  /\ host = [want |-> <<>>, got |-> <<>>]

-----------------------------------------------------------------------------
(* Rows and experts. *)

\* pos >= live
Dead(p, length) == p >= length

\* The row each row takes its experts from: itself, or its anchor's.
Source(r) == [row \in Rows(bs) |->
                IF Dead(row[2], live[r][row[1]]) THEN <<row[1], 0>> ELSE row]

\* Rank by rank the experts of a row add up to its output: it tells the target's
\* next token if they are its own on every rank, there and in the rows before.
Computed(i, p) == \A q \in 0 .. p : \A r \in Ranks : Source(r)[<<i, q>>] = <<i, q>>

\* The leading drafts of request i the rows may seem to confirm when the first m
\* drafts are the target's own.
Confirmed(i, m) ==
  {g \in Positions :
     /\ \A p \in 0 .. g - 1 : Computed(i, p) => p < m
     /\ g < Drafts /\ Computed(i, g) => g >= m}

\* Mutant: the engine is given no cutoff.
CutoffNone(i) == Stride

\* The cutoff handed to the engine's acceptance: the live length, as the root has
\* it, whose acceptance counts for all.
Cutoff(i) == live[Root][i]

\* CapCorrectLen: no more drafts than were verified.
CapCorrectLen(g, length) == Lesser(g, length - 1)

-----------------------------------------------------------------------------
(* Live lengths. *)

\* set_live_from_confidence: k + 1, with k clamped.
FromConfidence(lead) ==
  [i \in DOMAIN lead |-> 1 + Lesser(Greater(lead[i], KMin), Drafts)]

\* buf[:bs].copy_(lengths)
Fill(buf, lengths) ==
  [i \in DOMAIN buf |-> IF i \in DOMAIN lengths THEN lengths[i] ELSE buf[i]]

\* Mutant: each rank keeps its own lengths.
OwnLengths(r) ==
  /\ live' = [live EXCEPT ![r] = Fill(live[r], FromConfidence(conf[r]))]
  /\ sent' = sent

\* The root's lengths reach every rank: the others wait for them.
SetLive(r) ==
  IF r = Root
  THEN /\ sent' = FromConfidence(conf[r])
       /\ live' = [live EXCEPT ![r] = Fill(live[r], sent')]
  ELSE /\ sent # <<>>
       /\ live' = [live EXCEPT ![r] = Fill(live[r], sent)]
       /\ UNCHANGED sent

-----------------------------------------------------------------------------
(* One step. *)

\* The scheduler gives every rank the same batch.  At most the result of the
\* step before is still on its way.
Schedule ==
  /\ \A r \in Ranks : at[r] = "idle"
  /\ step < MaxSteps
  /\ Len(unread) <= 1
  /\ step' = step + 1
  /\ bs' \in Batch(MaxBs)
  /\ given' \in BOOLEAN
  /\ folded' \in BOOLEAN
  /\ at' = [r \in Ranks |-> "draft"]
  /\ sent' = <<>>
  /\ UNCHANGED <<fixed, conf, live, agreed, buffer, unread, host>>

\* propose or compute_confidence_tensor: the confidence is kept if there is one
\* and the policy asks for it.
Draft(r) ==
  /\ at[r] = "draft"
  /\ IF given /\ fixed = 0
     THEN \E lead \in Counts(bs) : conf' = [conf EXCEPT ![r] = lead]
     ELSE conf' = conf
  /\ at' = [at EXCEPT ![r] = "run"]
  /\ UNCHANGED <<fixed, step_vars, live, sent, agreed, buffer, unread, host>>

\* Mutant: the confidence is not consumed.
Keep(r) == UNCHANGED conf

\* _state["conf"] = None
Consume(r) == conf' = [conf EXCEPT ![r] = <<>>]

\* run_non_compact up to the verify.
Run(r) ==
  /\ at[r] = "run"
  /\ IF fixed = 0 /\ conf[r] # <<>>
     THEN SetLive(r)
     ELSE UNCHANGED <<live, sent>>
  /\ Consume(r)
  /\ at' = [at EXCEPT ![r] = "verify"]
  /\ UNCHANGED <<fixed, step_vars, agreed, buffer, unread, host>>

\* Mutant: folded results stay views of the persistent buffer.
Detached(f) == ~f

\* A folded result is cloned, another has fresh memory.
Owned(f) == TRUE

\* The verify forward, its acceptance -- the root's, as the engine has it -- and
\* accept_and_finalize.  The forward's all-reduces make the ranks meet.
Verify ==
  /\ \A r \in Ranks : at[r] = "verify"
  /\ agreed' \in Counts(bs)
  /\ \E g \in Counts(bs) :
       /\ \A i \in Batch(bs) : g[i] \in Confirmed(i, agreed'[i])
       /\ LET lens == [i \in Batch(bs) |-> CapCorrectLen(g[i], Cutoff(i))]
          IN  /\ buffer' = IF folded THEN lens ELSE buffer
              /\ unread' = Append(unread, [want |-> lens, own |-> Owned(folded)])
  /\ at' = [r \in Ranks |-> "idle"]
  /\ UNCHANGED <<fixed, step_vars, conf, live, sent, host>>

\* The copy stream takes the oldest result to the host, from memory of its own
\* or from what the persistent buffer holds by now.
Copy ==
  /\ unread # <<>>
  /\ LET result == Head(unread)
     IN  host' = [want |-> result.want,
                  got |-> IF result.own THEN result.want ELSE buffer]
  /\ unread' = Tail(unread)
  /\ UNCHANGED <<fixed, step_vars, at, conf, live, sent, agreed, buffer>>

Done ==
  /\ step = MaxSteps /\ unread = <<>>
  /\ \A r \in Ranks : at[r] = "idle"
  /\ UNCHANGED vars

Next ==
  \/ Schedule
  \/ \E r \in Ranks : Draft(r) \/ Run(r)
  \/ Verify
  \/ Copy
  \/ Done

Spec == Init /\ [][Next]_vars

-----------------------------------------------------------------------------
(* Properties. *)

\* A confidence is used by the step it was made for and by no other: one is there only
\* between a draft that had one to give and the verify of the same batch.
ConfidenceOfStep ==
  \A r \in Ranks : conf[r] # <<>> =>
     at[r] = "run" /\ fixed = 0 /\ given /\ conf[r] \in Counts(bs)

\* Whatever their confidences, ranks at the same place have the same live lengths
\* for every request, in the batch or not: no verify row gets two expert sets.
RanksAgree ==
  \A r, q \in Ranks : at[r] = at[q] => live[r] = live[q]

\* What a verify commits is what one with just the live drafts would: the drafts
\* the target agrees with up to the cap, and a bonus from a row that was computed
\* on every rank, whatever the dead rows seemed to confirm.
CommitsAsIfShorter ==
  [][Len(unread') > Len(unread) =>
       LET lens == unread'[Len(unread')].want
       IN  \A i \in Batch(bs) :
             /\ lens[i] = Lesser(agreed'[i], live[Root][i] - 1)
             /\ Computed(i, lens[i])]_vars

\* The host gets the result of the step it asked for, though the next step's
\* verify may have run before the copy did.
HostReadsItsStep == host.got = host.want
===============================================================================
