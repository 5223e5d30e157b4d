----------------------------- MODULE MCEventLog -----------------------------
(***************************************************************************)
(* Instances of EventLog for TLC.                                          *)
(***************************************************************************)
EXTENDS EventLog, TLC

CONSTANTS k1, k2, http

\* One series: the hours already tell the totals apart.
MCSeriesOf == [kind \in Kinds |-> http]

\* Nothing tells one kind from another.
KindsAlike == Permutations(Kinds)
=============================================================================
