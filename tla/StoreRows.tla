----------------------------- MODULE StoreRows ------------------------------
(***************************************************************************)
(* The tables of the checkpoint database and the writes the relay makes to *)
(* them, with what each write means for the rows as a whole.               *)
(***************************************************************************)
EXTENDS Naturals, FiniteSets, FiniteSetsExt

CONSTANTS
  Mailboxes,   \* mailbox identities
  Devices,     \* APNs device tokens
  Tokens,      \* mailbox authorizations
  Checkpoints, \* checkpoints of messages
  None,        \* SQL NULL / no row
  MaxDevices   \* MAX_DEVICES_PER_MAILBOX, 0 for no limit

ASSUME RowsAssumption ==
  /\ None \notin Mailboxes \cup Devices \cup Tokens \cup Checkpoints
  /\ IsFiniteSet(Devices) /\ MaxDevices \in Nat

Counters == {"registrations", "removals", "messages"}

\* A database: the rows of each table by mailbox, and the lifetime counters.
Database ==
  [dev: [Mailboxes -> SUBSET Devices], reg: [Mailboxes -> Tokens \cup {None}],
   ckpt: [Mailboxes -> Checkpoints \cup {None}], wake: [Mailboxes -> BOOLEAN],
   stat: [Counters -> Nat]]

\* A write and its arguments.
Writes ==
  [kind: {"register"}, mailbox: Mailboxes, device: Devices, token: Tokens]
  \cup [kind: {"unregister"}, mailbox: Mailboxes, device: Devices]
  \cup [kind: {"deleteMailbox"}, mailbox: Mailboxes, token: Tokens]
  \cup [kind: {"deleteOrphans"}]
  \cup [kind: {"message", "set"}, mailbox: Mailboxes, checkpoint: Checkpoints]
  \cup [kind: {"wake"}, mailbox: Mailboxes]

\* Those that are one statement outside of any transaction.
Standalone(write) == write.kind \in {"set", "wake"}

-----------------------------------------------------------------------------
Registered(db)  == {m \in Mailboxes : db.reg[m] # None}
WithDevices(db) == {m \in Mailboxes : db.dev[m] # {}}

\* Mailboxes with rows that belong to no registered mailbox with a device.
Orphans(db) ==
  {m \in Mailboxes :
     /\ db.reg[m] # None \/ db.dev[m] # {} \/ db.ckpt[m] # None \/ db.wake[m]
     /\ db.reg[m] = None \/ db.dev[m] = {}}

Counting(db, counter) == [db EXCEPT !.stat[counter] = @ + 1]

\* _setCheckpoint() and setAuthWakeState(), for a registered mailbox only.
SetCheckpoint(db, m, c) ==
  IF db.reg[m] = None THEN db ELSE [db EXCEPT !.ckpt[m] = c]

SetWake(db, m) == IF db.reg[m] = None THEN db ELSE [db EXCEPT !.wake[m] = TRUE]

\* The rows of a table, without those of some mailboxes.
ClearDev(db, M)  == [db EXCEPT !.dev  = [m \in Mailboxes |->
                                           IF m \in M THEN {} ELSE @[m]]]
ClearReg(db, M)  == [db EXCEPT !.reg  = [m \in Mailboxes |->
                                           IF m \in M THEN None ELSE @[m]]]
ClearCkpt(db, M) == [db EXCEPT !.ckpt = [m \in Mailboxes |->
                                           IF m \in M THEN None ELSE @[m]]]
ClearWake(db, M) == [db EXCEPT !.wake = [m \in Mailboxes |->
                                           IF m \in M THEN FALSE ELSE @[m]]]

ClearAll(db, M) == ClearWake(ClearCkpt(ClearReg(ClearDev(db, M), M), M), M)

\* The devices a mailbox may be left with when d registers: the least recently
\* registered ones go.  Which those are is left open.
KeptWith(kept, d) ==
  IF MaxDevices = 0 \/ Cardinality(kept) < MaxDevices
  THEN {kept \cup {d}}
  ELSE {others \cup {d} : others \in kSubset(MaxDevices - 1, kept)}

(***************************************************************************)
(* What each write means: the databases it may turn db into.               *)
(***************************************************************************)
Register(db, m, d, t) ==
  LET stored == [db EXCEPT !.reg[m] = t]
  IN IF d \in db.dev[m] THEN {stored}
     ELSE {Counting([stored EXCEPT !.dev[m] = kept], "registrations") :
             kept \in KeptWith(db.dev[m], d)}

Unregister(db, m, d) ==
  LET removed == [db EXCEPT !.dev[m] = @ \ {d}]
      counted == IF d \in db.dev[m] THEN Counting(removed, "removals") ELSE removed
  IN IF removed.dev[m] = {} THEN ClearAll(counted, {m}) ELSE counted

DeleteMailbox(db, m, t) == IF db.reg[m] = t THEN ClearAll(db, {m}) ELSE db

DeleteOrphans(db) == ClearAll(db, Orphans(db))

Effect(db, write) ==
  CASE write.kind = "register" ->
         Register(db, write.mailbox, write.device, write.token)
    [] write.kind = "unregister" ->
         {Unregister(db, write.mailbox, write.device)}
    [] write.kind = "deleteMailbox" ->
         {DeleteMailbox(db, write.mailbox, write.token)}
    [] write.kind = "deleteOrphans" -> {DeleteOrphans(db)}
    [] write.kind = "message" ->
         {Counting(SetCheckpoint(db, write.mailbox, write.checkpoint), "messages")}
    [] write.kind = "set" -> {SetCheckpoint(db, write.mailbox, write.checkpoint)}
    [] write.kind = "wake" -> {SetWake(db, write.mailbox)}
=============================================================================
