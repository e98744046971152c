------------------------------ MODULE MCRowStore ------------------------------
EXTENDS RowStore

\* Rank 1 of 2 over 7 rows: it owns rows 3 .. 6.  The shard file may be the
\* right one, another rank's, another layer's, one of a longer table, or cut
\* short.
Header(lo, hi, layer, rows, whole) ==
  [lo |-> lo, hi |-> hi, layer |-> layer, rows |-> rows, whole |-> whole]
ShardFiles ==
  {Header(3, 7, Layer, Rows, TRUE), Header(0, 3, Layer, Rows, TRUE),
   Header(3, 7, Layer + 1, Rows, TRUE), Header(3, 7, Layer, Rows + 1, TRUE),
   Header(3, 7, Layer, Rows, FALSE)}
===============================================================================
