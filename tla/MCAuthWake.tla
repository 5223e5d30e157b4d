----------------------------- MODULE MCAuthWake -----------------------------
(***************************************************************************)
(* An instance of AuthWake for TLC: mailboxes that compete for a pass.     *)
(***************************************************************************)
EXTENDS AuthWake, TLC

\* Two that expire together.
TwinExpiry == [t \in Tokens |-> 24]
=============================================================================
