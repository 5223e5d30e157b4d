-------------------------- MODULE MCMailboxWorker --------------------------
(* MailboxWorker on small instances: what TLC needs besides the constants.  *)
EXTENDS MailboxWorker, TLC

\* Identities of workers, calls and devices are interchangeable.
Symmetry ==
  Permutations(Workers) \cup Permutations(Calls) \cup Permutations(Devices)
=============================================================================
