--------------------------- MODULE MCRegistration ---------------------------
(***************************************************************************)
(* Instances of Registration for TLC.                                      *)
(***************************************************************************)
EXTENDS Registration, TLC

CONSTANTS m1, m2, m3, m4, t1, t2, s1, s2, r1, r2

\* m1 may move to another server; the others fill the relay.
MCServerOf == (t1 :> s1) @@ (t2 :> s2)
MCOffered == [m \in Mailboxes |-> IF m = m1 THEN {t1, t2} ELSE {t1}]
MCAllowLists == {{s1, s2}, {s2}}
=============================================================================
