---------------------------- MODULE MCAdapterRules ----------------------------
EXTENDS AdapterRules

\* Edges of each dimension: tables that do not divide, budgets around a whole
\* number of sets, reads that straddle a page.
MCTables == {0, 1, 2, 5, 9}
MCRanks == 1 .. 6
MCHosts == 1 .. 3
MCBudgets == {0, 273, 1088, 1089, 4353, 40000}
MCWays == {1, 4, 16}
MCOffsets == {0, 3832, 3833, 4095, 8191}
MCLengths == {8, 256, 264}

\* Candidates that differ from row to row and from request to request.
MCPicks == {[b \in 1 .. 2 |-> [t \in 0 .. 9 |-> {j \in 0 .. 4 : (b + t + j) % 3 # 0}]]}

\* Each detector alone, all together, with limits an output just reaches or not.
LoopVars(abort, ngram, max, repeats, identical, lines, min) ==
  [abort |-> abort, ngram |-> ngram, ngram_max |-> max, repeats |-> repeats,
   identical |-> identical, line_repeats |-> lines, line_min |-> min]
MCLoops ==
  {LoopVars(1, g, 2, r, 0, 0, 1) : g \in {1, 2, 3}, r \in {1, 2, 3}}
    \cup {LoopVars(1, 0, 0, 0, i, 0, 1) : i \in {1, 3, 5}}
    \cup {LoopVars(1, 0, 0, 0, 0, l, m) : l \in {1, 2, 3}, m \in {0, 1, 2}}
    \cup {LoopVars(a, 1, 2, 2, 3, 2, 1) : a \in {0, 1}}
    \cup {LoopVars(1, 0, 2, 2, 3, 0, 1)}
===============================================================================
