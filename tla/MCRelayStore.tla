---------------------------- MODULE MCRelayStore ----------------------------
(***************************************************************************)
(* Instances of RelayStore for TLC.                                        *)
(***************************************************************************)
EXTENDS RelayStore

CONSTANTS m1, d1, d2, t1, t2, c1, r1, r2

\* Writes of every kind; those of either device or token meet those of the other.
MCAsked ==
  [kind: {"register"}, mailbox: {m1}, device: {d2}, token: {t2}]
  \cup [kind: {"unregister"}, mailbox: {m1}, device: {d1, d2}]
  \cup [kind: {"deleteMailbox"}, mailbox: {m1}, token: {t1}]
  \cup [kind: {"deleteOrphans"}]
  \cup [kind: {"message", "set"}, mailbox: {m1}, checkpoint: {c1}]
  \cup [kind: {"wake"}, mailbox: {m1}]
=============================================================================
