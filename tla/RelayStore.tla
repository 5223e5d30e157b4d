----------------------------- MODULE RelayStore -----------------------------
(***************************************************************************)
(* The checkpoint store as it works: every write waits its turn in         *)
(* _writeQueue and then runs its SQL statements one by one, each of which  *)
(* is awaited and may fail, on the one connection all callers share.       *)
(***************************************************************************)
EXTENDS StoreRows, Sequences

CONSTANTS
  Requests, \* bound: identities of the calls that are ever made
  Asked,    \* bound: the writes those calls ask for, a subset of Writes
  Faults    \* what the environment may do: "crash", "db_error"

ASSUME StoreAssumption ==
  /\ Asked \subseteq Writes
  /\ Faults \subseteq {"crash", "db_error"}

VARIABLES
  disk,   \* the committed database
  queue,  \* _writeQueue: the running call and those behind it
  write,  \* what each call asked for
  status, \* what became of each call
  db,     \* the database as the connection sees it
  open,   \* whether the connection is in a transaction
  at      \* the statement the running call waits for or issues next

calls == <<queue, write, status>>
vars  == <<disk, calls, db, open, at>>

Statements ==
  {"idle", "setMailbox", "insertDevice", "updateDevice", "countDevice", "evict",
   "deleteDevice", "countRemoval", "checkRemaining", "deleteIfToken",
   "clearDev", "clearReg", "clearCkpt", "clearWake",
   "orphanReg", "orphanDev", "orphanCkpt", "orphanWake",
   "setCheckpoint", "countMessage", "commit", "rollback"}

(***************************************************************************)
(* Type correctness.                                                       *)
(***************************************************************************)
TypeOK ==
  /\ disk \in Database /\ db \in Database
  /\ queue \in Seq(Requests)
  /\ write \in [Requests -> Writes \cup {None}]
  /\ status \in [Requests -> {"unused", "waiting", "ok", "failed", "lost"}]
  /\ open \in BOOLEAN
  /\ at \in Statements

-----------------------------------------------------------------------------
(* The running call *)

Running == Head(queue)
Asks == write[Running]

\* A call is made: _exclusive().
Submit(r, w) ==
  /\ status[r] = "unused"
  /\ status' = [status EXCEPT ![r] = "waiting"]
  /\ write' = [write EXCEPT ![r] = w]
  /\ queue' = Append(queue, r)
  /\ UNCHANGED <<disk, db, open, at>>

\* The call settles, and the queue moves on whatever the outcome.
Settle(result) ==
  /\ status' = [status EXCEPT ![Running] = result]
  /\ queue' = Tail(queue)
  /\ at' = "idle"
  /\ UNCHANGED write

\* Mutant: a standalone write does not wait for its turn.
StandaloneAtOnce ==
  \E r \in Requests :
    /\ status[r] = "waiting" /\ Standalone(write[r])
    /\ db' \in Effect(db, write[r])
    /\ disk' = IF open THEN disk ELSE db'
    /\ status' = [status EXCEPT ![r] = "ok"]
    /\ queue' = SelectSeq(queue, LAMBDA q : q # r)
    /\ UNCHANGED <<write, open, at>>

\* set() and setAuthWakeState(): one statement, committed by itself.
StandaloneWrite ==
  /\ at = "idle" /\ queue # <<>> /\ Standalone(Asks)
  /\ db' \in Effect(db, Asks)
  /\ disk' = db'
  /\ Settle("ok")
  /\ UNCHANGED open

\* BEGIN IMMEDIATE, and the first statement of the transaction's function.
Begin ==
  /\ at = "idle" /\ queue # <<>> /\ ~Standalone(Asks)
  /\ open' = TRUE
  /\ at' = CASE Asks.kind = "register"      -> "setMailbox"
             [] Asks.kind = "unregister"    -> "deleteDevice"
             [] Asks.kind = "deleteMailbox" -> "deleteIfToken"
             [] Asks.kind = "deleteOrphans" -> "orphanReg"
             [] Asks.kind = "message"       -> "setCheckpoint"
  /\ UNCHANGED <<disk, calls, db>>

\* A statement succeeds, and the function goes on to another one.
Goes(result, to) ==
  /\ db' = result
  /\ at' = to
  /\ UNCHANGED <<disk, calls, open>>

Run(from, result, to) == at = from /\ Goes(result, to)

-----------------------------------------------------------------------------
(* registerDevice() *)

SetMailbox ==
  Run("setMailbox", [db EXCEPT !.reg[Asks.mailbox] = Asks.token], "insertDevice")

InsertDevice ==
  /\ at = "insertDevice"
  /\ LET m == Asks.mailbox
         d == Asks.device
     IN Goes([db EXCEPT !.dev[m] = @ \cup {d}],
             IF d \in db.dev[m] THEN "updateDevice" ELSE "countDevice")

UpdateDevice == Run("updateDevice", db, "commit")

CountDevice ==
  Run("countDevice", Counting(db, "registrations"),
      IF MaxDevices > 0 THEN "evict" ELSE "commit")

\* Mutant: one device too many is kept.
EvictTooFew ==
  /\ at = "evict"
  /\ LET m == Asks.mailbox
         others == db.dev[m] \ {Asks.device}
     IN \E kept \in IF Cardinality(others) <= MaxDevices THEN {others}
                    ELSE kSubset(MaxDevices, others) :
          Goes([db EXCEPT !.dev[m] = kept \cup {Asks.device}], "commit")

\* _evictOldestDevices(): all but MaxDevices - 1 of the other devices.
Evict ==
  /\ at = "evict"
  /\ LET m == Asks.mailbox
         others == db.dev[m] \ {Asks.device}
     IN \E kept \in IF Cardinality(others) < MaxDevices THEN {others}
                    ELSE kSubset(MaxDevices - 1, others) :
          Goes([db EXCEPT !.dev[m] = kept \cup {Asks.device}], "commit")

-----------------------------------------------------------------------------
(* unregisterDevice() and deleteMailbox() *)

DeleteDevice ==
  LET m == Asks.mailbox
  IN Run("deleteDevice", [db EXCEPT !.dev[m] = @ \ {Asks.device}],
         IF Asks.device \in db.dev[m] THEN "countRemoval" ELSE "checkRemaining")

\* Mutant: a removal is taken off the registrations instead.
CountRemovalAsLess ==
  Run("countRemoval", [db EXCEPT !.stat["registrations"] = @ - 1], "checkRemaining")

CountRemoval == Run("countRemoval", Counting(db, "removals"), "checkRemaining")

\* Mutant: the rows of a mailbox without devices stay.
CheckRemainingNever == Run("checkRemaining", db, "commit")

CheckRemaining ==
  Run("checkRemaining", db,
      IF db.dev[Asks.mailbox] = {} THEN "clearDev" ELSE "commit")

\* The registration goes only while its authorization is still the one given.
DeleteIfToken ==
  /\ at = "deleteIfToken"
  /\ IF db.reg[Asks.mailbox] = Asks.token
     THEN Goes(ClearReg(db, {Asks.mailbox}), "clearDev")
     ELSE Goes(db, "commit")

\* _deleteMailbox()
DeleteRows ==
  LET M == {Asks.mailbox}
  IN \/ Run("clearDev", ClearDev(db, M), "clearReg")
     \/ Run("clearReg", ClearReg(db, M), "clearCkpt")
     \/ Run("clearCkpt", ClearCkpt(db, M), "clearWake")
     \/ Run("clearWake", ClearWake(db, M), "commit")

-----------------------------------------------------------------------------
(* deleteOrphans() *)

DeleteOrphanRows ==
  LET unregistered == Mailboxes \ Registered(db)
  IN \/ Run("orphanReg", ClearReg(db, Mailboxes \ WithDevices(db)), "orphanDev")
     \/ Run("orphanDev", ClearDev(db, unregistered), "orphanCkpt")
     \/ Run("orphanCkpt", ClearCkpt(db, unregistered), "orphanWake")
     \/ Run("orphanWake", ClearWake(db, unregistered), "commit")

-----------------------------------------------------------------------------
(* recordMailboxMessage() *)

\* Mutant: by set(), which waits for the turn this transaction holds.
SetCheckpointInTurn ==
  /\ queue = <<>>
  /\ Run("setCheckpoint", SetCheckpoint(db, Asks.mailbox, Asks.checkpoint),
         "countMessage")

SetCheckpointOf ==
  Run("setCheckpoint", SetCheckpoint(db, Asks.mailbox, Asks.checkpoint),
      "countMessage")

CountMessage == Run("countMessage", Counting(db, "messages"), "commit")

-----------------------------------------------------------------------------
(* The end of a transaction, and errors *)

Commit ==
  /\ at = "commit"
  /\ disk' = db
  /\ open' = FALSE
  /\ Settle("ok")
  /\ UNCHANGED db

\* _rollback(): its own error, when no transaction is left, is swallowed.
Rollback ==
  /\ at = "rollback"
  /\ db' = disk
  /\ open' = FALSE
  /\ Settle("failed")
  /\ UNCHANGED disk

\* BEGIN or a standalone write fails: the call is rejected as it is.
FirstStatementFails ==
  /\ "db_error" \in Faults
  /\ at = "idle" /\ queue # <<>>
  /\ Settle("failed")
  /\ UNCHANGED <<disk, db, open>>

\* A statement of a transaction fails, COMMIT included; after some errors
\* SQLite has rolled the transaction back by itself.
StatementFails ==
  /\ "db_error" \in Faults
  /\ at \notin {"idle", "rollback"}
  /\ at' = "rollback"
  /\ \/ UNCHANGED <<db, open>>
     \/ db' = disk /\ open' = FALSE
  /\ UNCHANGED <<disk, calls>>

\* What is on disk when the process dies: SQLite rolls an open transaction back,
\* unless its COMMIT was done and only the callback is lost.
Surviving ==
  {disk} \cup CASE at = "commit" -> {db}
                [] at = "idle" /\ queue # <<>> /\ Standalone(Asks) -> Effect(db, Asks)
                [] OTHER -> {}

\* The process dies.
Crash ==
  /\ "crash" \in Faults
  /\ disk' \in Surviving
  /\ db' = disk' /\ open' = FALSE /\ at' = "idle"
  /\ queue' = <<>>
  /\ status' = [r \in Requests |-> IF status[r] = "waiting" THEN "lost"
                                                            ELSE status[r]]
  /\ UNCHANGED write

-----------------------------------------------------------------------------
\* A database as an earlier version or this one may have left it.
Init ==
  /\ disk \in [dev: [Mailboxes -> SUBSET Devices],
               reg: [Mailboxes -> Tokens \cup {None}],
               ckpt: [Mailboxes -> Checkpoints \cup {None}],
               wake: [Mailboxes -> BOOLEAN],
               stat: {[c \in Counters |-> 0]}]
  /\ queue = <<>>
  /\ write = [r \in Requests |-> None]
  /\ status = [r \in Requests |-> "unused"]
  /\ db = disk /\ open = FALSE /\ at = "idle"

Progress ==
  \/ StandaloneWrite \/ Begin
  \/ SetMailbox \/ InsertDevice \/ UpdateDevice \/ CountDevice \/ Evict
  \/ DeleteDevice \/ CountRemoval \/ CheckRemaining \/ DeleteIfToken
  \/ DeleteRows \/ DeleteOrphanRows
  \/ SetCheckpointOf \/ CountMessage
  \/ Commit \/ Rollback

Next ==
  \/ \E r \in Requests, w \in Asked : Submit(r, w)
  \/ Progress
  \/ FirstStatementFails \/ StatementFails
  \/ Crash

\* sqlite3 calls back for every statement that is issued.
FairSpec == Init /\ [][Next]_vars /\ WF_vars(Progress)

Spec == Init /\ [][Next]_vars

-----------------------------------------------------------------------------
Atomic == INSTANCE AtomicStore WITH disk <- disk, queue <- queue, write <- write, status <- status

(***************************************************************************)
(* The statement-by-statement store is the atomic one: whatever fails or   *)
(* crashes between two statements, every call that is told of success took *)
(* effect as a whole, no other call left anything behind, and the order is *)
(* that of the calls (checkpoint-store.js:430).                            *)
(***************************************************************************)
ImplementsAtomic == Atomic!Spec

(***************************************************************************)
(* No write leaves rows behind that belong to no registered mailbox with a *)
(* device; those of earlier versions are at most removed (README "What the *)
(* relay stores").                                                         *)
(***************************************************************************)
OrphansOnlyShrink == [][Orphans(disk') \subseteq Orphans(disk)]_disk

(***************************************************************************)
(* A mailbox gains devices up to MAX_DEVICES_PER_MAILBOX only; one that an *)
(* earlier configuration left with more gains none before it is below.     *)
(***************************************************************************)
DeviceLimit ==
  [][\A m \in Mailboxes :
       MaxDevices > 0 /\ Cardinality(disk'.dev[m]) > Cardinality(disk.dev[m])
         => Cardinality(disk'.dev[m]) <= MaxDevices]_disk

(***************************************************************************)
(* Every call is answered in the end, also behind calls that failed, or is *)
(* lost in a crash: no transaction waits for the turn it holds itself      *)
(* (checkpoint-store.js:430).                                              *)
(***************************************************************************)
EveryCallIsAnswered ==
  \A r \in Requests : status[r] = "waiting" ~> status[r] # "waiting"
=============================================================================
