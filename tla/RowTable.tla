------------------------------ MODULE RowTable ------------------------------
(***************************************************************************)
(* What the row store promises to the model that reads rows through it:    *)
(* exact retrieval from an immutable table.  A request for an owned row is *)
(* answered with that row of this layer's table, a request for another     *)
(* rank's row with zeros; once the store failed nothing is answered.       *)
(***************************************************************************)
EXTENDS Integers

CONSTANTS
  Threads,    \* who asks
  Rows,       \* the table has rows 0 .. Rows-1
  RowLo,      \* this rank owns RowLo .. RowHi-1
  RowHi,
  Layer,      \* the Engram layer of the table
  NoRow,      \* no request, no answer
  Zero        \* a row of zeros

VARIABLES
  up,         \* "loading", "serving" or "down"
  asked,      \* the row each thread waits for, or NoRow
  answer      \* the last row each thread was given

vars == <<up, asked, answer>>

\* The bytes of row i: weight and scale of the same row of the same layer.
Exact(i) == IF RowLo <= i /\ i < RowHi THEN <<Layer, i, i>> ELSE Zero

Init ==
  /\ up = "loading"
  /\ asked = [t \in Threads |-> NoRow]
  /\ answer = [t \in Threads |-> NoRow]

StartServing ==
  /\ up = "loading"
  /\ up' = "serving"
  /\ UNCHANGED <<asked, answer>>

Ask(t, i) ==
  /\ up = "serving"
  /\ asked[t] = NoRow
  /\ asked' = [asked EXCEPT ![t] = i]
  /\ UNCHANGED <<up, answer>>

Answer(t) ==
  /\ up = "serving"
  /\ asked[t] # NoRow
  /\ answer' = [answer EXCEPT ![t] = Exact(asked[t])]
  /\ asked' = [asked EXCEPT ![t] = NoRow]
  /\ UNCHANGED up

Fail ==
  /\ up # "down"
  /\ up' = "down"
  /\ UNCHANGED <<asked, answer>>

Next ==
  \/ StartServing
  \/ \E t \in Threads, i \in 0 .. Rows - 1 : Ask(t, i)
  \/ \E t \in Threads : Answer(t)
  \/ Fail

Spec == Init /\ [][Next]_vars
=============================================================================
