----------------------------- MODULE BlockVerify -----------------------------
(***************************************************************************)
(* Block verification of sampled drafts (fleet/adapter/block_verify.py):   *)
(* what block_accept_probs returns, as a distribution.                     *)
(*                                                                         *)
(* The drafts of a request are X, a sequence of Gamma tokens, of which the *)
(* first `live` are verified (verify_cap).  A model gives the next token's *)
(* distribution after a prefix: p is the target's and q the draft's.  A    *)
(* distribution is a sequence of fractions, one for each token.  Floats    *)
(* are taken as exact, so the clamps at 1e-30 matter only where a divisor  *)
(* is zero.                                                                *)
(***************************************************************************)
EXTENDS Rationals, Sequences

CONSTANTS
  Vocab,      \* number of tokens
  Gamma       \* drafts of a request

ASSUME VerifyAssumption == Vocab \in Nat \ {0} /\ Gamma \in Nat \ {0}

Tokens == 1 .. Vocab
Drafted == [1 .. Gamma -> Tokens]
Prefix(x, n) == SubSeq(x, 1, n)

Nothing == [t \in Tokens |-> Zero]

Alive(i, live) == i <= live

\* Mutant: the draft's distribution is kept where nothing was verified.
DraftUnmasked(q, x, n, live) == IF n < Gamma THEN q[Prefix(x, n)] ELSE Nothing

\* The draft's distribution after n drafts: nothing for a dead draft, nor after
\* the last one.
Draft(q, x, n, live) ==
  IF n < Gamma /\ Alive(n + 1, live) THEN q[Prefix(x, n)] ELSE Nothing

\* p(X_i) / q(X_i), or 0 for a dead draft.
Ratio(p, q, x, i, live) ==
  IF Alive(i, live)
  THEN Over(p[Prefix(x, i - 1)][x[i]], q[Prefix(x, i - 1)][x[i]])
  ELSE Zero

\* w_0 .. w_Gamma, which saturate at 1.
Weights(p, q, x, live) ==
  LET w[i \in 0 .. Gamma] ==
        IF i = 0 THEN One ELSE Least(Times(w[i - 1], Ratio(p, q, x, i, live)), One)
  IN  w

\* max(w_n p - q, 0) after n drafts.
Residual(p, q, x, n, live) ==
  [t \in Tokens |-> Monus(Times(Weights(p, q, x, live)[n], p[Prefix(x, n)][t]),
                          Draft(q, x, n, live)[t])]

\* h_i: how likely eta_i <= h_i is.
Accept(p, q, x, i, live) ==
  LET w == Weights(p, q, x, live)[i]
      s == Total(Residual(p, q, x, i, live), Vocab)
      room == Plus(s, Monus(One, w))
  IN  IF i = Gamma THEN w ELSE IF room = Zero THEN Zero ELSE Over(s, room)

\* The probability that tau is n: draft n is the last one whose draw passes.
Tau(p, q, x, n, live) ==
  LET passes == [i \in 1 .. Gamma |->
                   IF Alive(i, live) THEN Accept(p, q, x, i, live) ELSE Zero]
      fails == [i \in 1 .. Gamma |-> Monus(One, passes[i])]
  IN  Times(IF n = 0 THEN One ELSE passes[n], Product(fails, n + 1, Gamma))

\* The distribution of the token after n accepted drafts.
Correction(p, q, x, n, live) ==
  LET res == Residual(p, q, x, n, live)
      mass == Total(res, Vocab)
  IN  IF mass = Zero THEN p[Prefix(x, n)] ELSE [t \in Tokens |-> Over(res[t], mass)]
===============================================================================
