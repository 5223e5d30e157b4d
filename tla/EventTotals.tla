---------------------------- MODULE EventTotals ----------------------------
(***************************************************************************)
(* What the hourly totals of the event log promise: every recorded event   *)
(* is counted in at most one place, and its count is either saved once or  *)
(* lost, never both.  Only a flush that an error has failed and the end of *)
(* the process lose counts; a flush that succeeds saves all it took.       *)
(***************************************************************************)
EXTENDS Naturals

CONSTANT Keys \* the rows of rollup_hourly

VARIABLES
  totals,  \* the saved counts
  waiting, \* counts no flush has taken yet
  batch,   \* counts of the running flush that are neither saved nor lost
  lost,    \* counts that were lost
  failed,  \* whether an error has failed the running flush
  errors   \* how many statements failed

vars == <<totals, waiting, batch, lost, failed, errors>>

Counts == [Keys -> Nat]
Zero == [k \in Keys |-> 0]
Plus(f, g) == [k \in Keys |-> f[k] + g[k]]
Only(f, S) == [k \in Keys |-> IF k \in S THEN f[k] ELSE 0]

Init ==
  /\ totals \in Counts
  /\ waiting = Zero /\ batch = Zero /\ lost = Zero
  /\ failed = FALSE /\ errors = 0

Record(k) ==
  /\ waiting' = [waiting EXCEPT ![k] = @ + 1]
  /\ UNCHANGED <<totals, batch, lost, failed, errors>>

\* A flush takes what waits, once the previous one is through.
Take ==
  /\ batch = Zero /\ ~failed
  /\ batch' = waiting
  /\ waiting' = Zero
  /\ UNCHANGED <<totals, lost, failed, errors>>

Save(S) ==
  /\ totals' = Plus(totals, Only(batch, S))
  /\ batch' = Only(batch, Keys \ S)
  /\ UNCHANGED <<waiting, lost, failed, errors>>

Lose(S) ==
  /\ lost' = Plus(lost, Only(batch, S))
  /\ batch' = Only(batch, Keys \ S)
  /\ UNCHANGED <<totals, waiting>>

\* A statement fails, of the flush or of another user of the connection, and
\* may fail the flush and undo a part of what it has written.
Error ==
  /\ errors' = errors + 1
  /\ \/ failed' = TRUE /\ \E S \in SUBSET Keys : Lose(S)
     \/ UNCHANGED <<totals, waiting, batch, lost, failed>>

\* A failed flush is given up.
GiveUp ==
  /\ failed
  /\ Lose(Keys)
  /\ failed' = FALSE
  /\ UNCHANGED errors

\* The process ends: what only its memory held is lost.
End ==
  /\ lost' = Plus(lost, Plus(batch, waiting))
  /\ batch' = Zero
  /\ waiting' = Zero
  /\ failed' = FALSE
  /\ UNCHANGED <<totals, errors>>

Next ==
  \/ \E k \in Keys : Record(k)
  \/ Take
  \/ \E S \in SUBSET Keys : Save(S)
  \/ Error \/ GiveUp
  \/ End

Spec == Init /\ [][Next]_vars
=============================================================================
