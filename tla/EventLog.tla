------------------------------ MODULE EventLog ------------------------------
(***************************************************************************)
(* The event log: record() buffers in memory, flush() writes the buffer in *)
(* one transaction, prune() deletes old rows, close() ends the log, and a  *)
(* client tails the rows through the admin API.  Every SQL statement is a  *)
(* step of its own: all of them share one connection, so that prune() and  *)
(* the reads of the client run inside the transaction of a flush.          *)
(*                                                                         *)
(* An event is its number in recorded; a row of the table is the set of    *)
(* the events folded into it, from which its columns follow.               *)
(***************************************************************************)
EXTENDS Integers, Sequences, FiniteSets, FiniteSetsExt, Functions

CONSTANTS
  Kinds,      \* fingerprints: what makes two events identical
  Series,     \* category, name, outcome and code: what the totals tell apart
  SeriesOf,   \* the series of each kind
  Hour,       \* HOUR_MS
  Window,     \* _collapseWindowMs
  Retention,  \* _retentionMs
  MaxRows,    \* _maxRows
  MaxPending, \* MAX_PENDING_EVENTS
  PageLimit,  \* rows the client asks for at a time
  MaxTime,    \* bound: the clock stops there
  MaxEvents,  \* bound: events ever recorded
  MaxErrors,  \* bound: statements that ever fail
  MaxStarts,  \* bound: processes that ever run
  Faults      \* what the environment may do: "crash", "db_error"

ASSUME EventLogAssumption ==
  /\ SeriesOf \in [Kinds -> Series]
  /\ {Hour, Window, Retention, MaxRows, PageLimit, MaxTime, MaxEvents} \subseteq Nat \ {0}
  /\ {MaxPending, MaxErrors, MaxStarts} \subseteq Nat
  /\ Faults \subseteq {"crash", "db_error"}

VARIABLES
  now,      \* the clock
  recorded, \* history: the events in the order record() saw them
  base,     \* history: how many of them an earlier process recorded
  disk,     \* the committed tables
  db,       \* the tables as the connection sees them
  open,     \* whether the connection is in a transaction
  mode,     \* what the log is doing: "running", "closing", "closed", "down"
  pending,  \* _pending: the buffered events
  rollups,  \* _rollups: the buffered counts
  batch,    \* what the running flush took, and how far it is
  at,       \* the statement the running flush waits for
  targets,  \* _open: where the next event of a kind is folded into
  dropped,  \* _dropped
  prune,    \* the statement a running prune() waits for, and its cutoff
  client,   \* the tailing client: how far it read and what it got
  errors,   \* history: how many statements failed
  starts,   \* history: how many processes were started
  torn      \* history: prune() has ended the transaction of a running flush

past     == <<now, recorded, base>>
tables   == <<disk, db, open>>
buffers  == <<pending, rollups>>
flushing == <<batch, at, targets, dropped>>
history  == <<errors, starts, torn>>
vars == <<past, tables, mode, buffers, flushing, prune, client, history>>

Keys == (0 .. MaxTime \div Hour) \X Series
Zero == [k \in Keys |-> 0]
KeyOf(n) == <<recorded[n].ts \div Hour, SeriesOf[recorded[n].kind]>>
Counted(k) == Cardinality({n \in DOMAIN recorded : KeyOf(n) = k})

\* The columns of a row.
KindOf(row)  == recorded[Min(row)].kind
FirstTs(row) == recorded[Min(row)].ts
LastTs(row)  == recorded[Max(row)].ts

Idle == [events |-> <<>>, next |-> 1, rollups |-> Zero, keys |-> {}]
NotPruning == [at |-> "idle", cutoff |-> 0]

-----------------------------------------------------------------------------
(* Type correctness. *)

Events == 1 .. MaxEvents

Table(t) ==
  /\ DOMAIN t.rows \subseteq 1 .. t.seq
  /\ \A id \in DOMAIN t.rows : t.rows[id] \in (SUBSET DOMAIN recorded) \ {{}}
  /\ t.rollup \in [Keys -> Nat]
  /\ t.gone \subseteq DOMAIN recorded

TypeOK ==
  /\ now \in 0 .. MaxTime
  /\ recorded \in Seq([kind: Kinds, ts: 0 .. MaxTime]) /\ Len(recorded) <= MaxEvents
  /\ base \in 0 .. Len(recorded)
  /\ Table(disk) /\ Table(db) /\ open \in BOOLEAN
  /\ mode \in {"running", "closing", "closed", "down"}
  /\ pending \in Seq(Events) /\ Len(pending) <= MaxPending /\ rollups \in [Keys -> Nat]
  /\ batch \in [events: Seq(Events), next: Nat, rollups: [Keys -> Nat], keys: SUBSET Keys]
  /\ at \in {"idle", "begin", "write", "insert", "rollup", "commit", "rollback"}
  /\ DOMAIN targets \subseteq Kinds /\ dropped \in Nat
  /\ prune \in [at: {"idle", "age", "cap"}, cutoff: Int]
  /\ client \in [since: Nat, seen: SUBSET Events, dirty: BOOLEAN, undone: BOOLEAN]
  /\ errors \in 0 .. MaxErrors /\ starts \in 0 .. MaxStarts /\ torn \in BOOLEAN

-----------------------------------------------------------------------------
(* SQL statements on the shared connection *)

\* A statement that succeeds: outside a transaction it commits by itself.
Write(table) ==
  /\ db' = table
  /\ disk' = IF open THEN disk ELSE table
  /\ UNCHANGED <<open, client>>

\* A client that read what was undone; it is not followed any further.
Fresh  == [since |-> 0, seen |-> {}, dirty |-> FALSE, undone |-> FALSE]
Misled == [Fresh EXCEPT !.undone = TRUE]

\* The transaction ends without its changes, and a read inside it was in vain.
Undo ==
  /\ db' = disk
  /\ open' = FALSE
  /\ client' = IF client.dirty THEN Misled ELSE client
  /\ UNCHANGED disk

\* A statement that fails, after which SQLite may have ended the transaction.
Error ==
  /\ "db_error" \in Faults /\ errors < MaxErrors
  /\ errors' = errors + 1
  /\ \/ UNCHANGED <<tables, client>>
     \/ open /\ Undo

Delete(ids) ==
  [db EXCEPT !.rows = Restrict(@, DOMAIN @ \ ids),
             !.gone = @ \cup UNION {db.rows[id] : id \in ids}]

-----------------------------------------------------------------------------
(* record() *)

\* Mutant: the buffer takes one event too many.
FullTooLate == Len(pending) > MaxPending

Full == Len(pending) >= MaxPending

Buffer ==
  IF Full THEN dropped' = dropped + 1 /\ UNCHANGED pending
          ELSE pending' = Append(pending, Len(recorded')) /\ UNCHANGED dropped

CountsWith(kind) == [rollups EXCEPT ![<<now \div Hour, SeriesOf[kind]>>] = @ + 1]

\* The count goes up in any case, the event is dropped if the buffer is full.
Record(kind) ==
  /\ mode \in {"running", "closing"} /\ Len(recorded) < MaxEvents
  /\ recorded' = Append(recorded, [kind |-> kind, ts |-> now])
  /\ rollups' = CountsWith(kind)
  /\ Buffer
  /\ UNCHANGED <<now, base, tables, mode, batch, at, targets, prune, client, history>>

-----------------------------------------------------------------------------
(* flush() *)

\* flush() starts: the buffers go to the flush, and BEGIN is issued.
StartFlush ==
  /\ at = "idle" /\ (pending # <<>> \/ rollups # Zero)
  /\ batch' = [events |-> pending, next |-> 1, rollups |-> rollups,
               keys |-> {k \in Keys : rollups[k] > 0}]
  /\ pending' = <<>> /\ rollups' = Zero
  /\ at' = "begin"

FlushTimer ==
  /\ mode = "running"
  /\ StartFlush
  /\ UNCHANGED <<past, tables, mode, targets, dropped, prune, client, history>>

Begin ==
  /\ at = "begin"
  /\ open' = TRUE
  /\ at' = IF batch.events # <<>> THEN "write" ELSE "rollup"
  /\ UNCHANGED <<past, disk, db, mode, buffers, batch, targets, dropped, prune, client, history>>

Event == batch.events[batch.next]

\* The flush is through with one event.
NextEvent ==
  /\ batch' = [batch EXCEPT !.next = @ + 1]
  /\ at' = IF batch.next < Len(batch.events) THEN "write"
           ELSE IF batch.keys # {} THEN "rollup" ELSE "commit"

\* Whether the event falls into the window of an earlier one of its kind.
Folds ==
  LET kind == recorded[Event].kind
  IN kind \in DOMAIN targets /\ recorded[Event].ts - targets[kind].firstTs < Window

\* UPDATE of the row the event is folded into.
UpdateEvent ==
  /\ at = "write" /\ Folds
  /\ LET id == targets[recorded[Event].kind].id
     IN IF id \in DOMAIN db.rows
        THEN Write([db EXCEPT !.rows[id] = @ \cup {Event}]) /\ NextEvent
        ELSE at' = "insert" /\ UNCHANGED <<tables, batch, client>>
  /\ UNCHANGED <<past, mode, buffers, targets, dropped, prune, history>>

\* f with y at x, which may be new.
Put(f, x, y) == [z \in DOMAIN f \cup {x} |-> IF z = x THEN y ELSE f[z]]

\* INSERT of a row of its own, also when the UPDATE found none.
InsertEvent ==
  /\ at = "insert" \/ (at = "write" /\ ~Folds)
  /\ LET id == db.seq + 1
     IN /\ Write([db EXCEPT !.rows = Put(@, id, {Event}), !.seq = id])
        /\ targets' = Put(targets, recorded[Event].kind,
                          [id |-> id, firstTs |-> recorded[Event].ts])
  /\ NextEvent
  /\ UNCHANGED <<past, mode, buffers, dropped, prune, history>>

\* Mutant: the total of an hour that has no row yet is not inserted.
WriteRollupUpdates ==
  /\ at = "rollup"
  /\ \E k \in batch.keys :
       /\ Write(IF db.rollup[k] = 0 THEN db ELSE [db EXCEPT !.rollup[k] = @ + batch.rollups[k]])
       /\ batch' = [batch EXCEPT !.keys = @ \ {k}]
       /\ at' = IF batch.keys = {k} THEN "commit" ELSE "rollup"
  /\ UNCHANGED <<past, mode, buffers, targets, dropped, prune, history>>

\* The count of one series is added to its hour.
WriteRollup ==
  /\ at = "rollup"
  /\ \E k \in batch.keys :
       /\ Write([db EXCEPT !.rollup[k] = @ + batch.rollups[k]])
       /\ batch' = [batch EXCEPT !.keys = @ \ {k}]
       /\ at' = IF batch.keys = {k} THEN "commit" ELSE "rollup"
  /\ UNCHANGED <<past, mode, buffers, targets, dropped, prune, history>>

\* A flush that is through forgets old targets, and close() goes on.
EndFlush(kept) ==
  /\ targets' = Restrict(kept, {kind \in DOMAIN kept : kept[kind].firstTs >= now - Window})
  /\ at' = "idle" /\ batch' = Idle
  /\ mode' = IF mode = "closing" THEN "closed" ELSE mode

Commit ==
  /\ at = "commit" /\ open
  /\ disk' = db
  /\ open' = FALSE
  /\ client' = [client EXCEPT !.dirty = FALSE]
  /\ EndFlush(targets)
  /\ UNCHANGED <<past, db, buffers, dropped, prune, history>>

\* COMMIT fails too when SQLite has ended the transaction already.
StatementFails ==
  /\ \/ at \in {"begin", "write", "insert", "rollup", "commit"} /\ Error
     \/ at = "commit" /\ ~open /\ UNCHANGED <<tables, client, errors>>
  /\ at' = "rollback"
  /\ UNCHANGED <<past, mode, buffers, batch, targets, dropped, prune, starts, torn>>

\* ROLLBACK, whose own failure is ignored, and the account of a failed flush.
FailFlush(lost, kept) ==
  /\ at = "rollback"
  /\ IF open THEN Undo ELSE UNCHANGED <<tables, client>>
  /\ dropped' = dropped + lost
  /\ EndFlush(kept)
  /\ UNCHANGED <<past, buffers, prune, history>>

\* Mutant: the targets of a failed flush are kept.
RollbackKeepsTargets == FailFlush(Len(batch.events), targets)

\* Mutant: the events of a failed flush are not accounted for.
RollbackUncounted == FailFlush(0, <<>>)

Rollback == FailFlush(Len(batch.events), <<>>)

FlushStatement ==
  Begin \/ UpdateEvent \/ InsertEvent \/ WriteRollup \/ Commit \/ StatementFails \/ Rollback

-----------------------------------------------------------------------------
(* prune() *)

Prune ==
  /\ mode = "running" /\ prune.at = "idle"
  /\ prune' = [at |-> "age", cutoff |-> now - Retention]
  /\ UNCHANGED <<past, tables, mode, buffers, flushing, client, history>>

\* The rows past the retention window.
PruneAge ==
  /\ prune.at = "age" /\ mode \in {"running", "closing"}
  /\ Write(Delete({id \in DOMAIN db.rows : LastTs(db.rows[id]) < prune.cutoff}))
  /\ prune' = [NotPruning EXCEPT !.at = "cap"]
  /\ UNCHANGED <<past, mode, buffers, flushing, history>>

\* The oldest rows, all but the newest MaxRows.
PruneCap ==
  /\ prune.at = "cap" /\ mode \in {"running", "closing"}
  /\ Write(Delete({id \in DOMAIN db.rows :
                     Cardinality({other \in DOMAIN db.rows : other > id}) >= MaxRows}))
  /\ prune' = NotPruning
  /\ UNCHANGED <<past, mode, buffers, flushing, history>>

PruneFails ==
  /\ prune.at \in {"age", "cap"} /\ mode \in {"running", "closing"}
  /\ Error
  /\ torn' = (torn \/ (open /\ ~open'))
  /\ prune' = NotPruning
  /\ UNCHANGED <<past, mode, buffers, flushing, starts>>

-----------------------------------------------------------------------------
(* queryEvents() with since_id, as a client that tails the log calls it *)

Newer == {id \in DOMAIN db.rows : id > client.since}

\* Mutant: a page holds the newest rows.
NewestPage ==
  {id \in Newer : Cardinality({other \in Newer : other > id}) < PageLimit}

Page == {id \in Newer : Cardinality({other \in Newer : other < id}) < PageLimit}

Poll ==
  /\ mode \in {"running", "closing"} /\ ~client.undone
  /\ Page # {}
  /\ client' = [client EXCEPT !.since = Max(Page),
                              !.seen = @ \cup {Min(db.rows[id]) : id \in Page},
                              !.dirty = open]
  /\ UNCHANGED <<past, tables, mode, buffers, flushing, prune, history>>

-----------------------------------------------------------------------------
(* The life of the process *)

\* close(): it waits for the running flush or starts one.
Close ==
  /\ mode = "running"
  /\ \/ at # "idle" /\ mode' = "closing" /\ UNCHANGED <<buffers, batch, at>>
     \/ StartFlush /\ mode' = "closing"
     \/ /\ at = "idle" /\ pending = <<>> /\ rollups = Zero
        /\ mode' = "closed" /\ UNCHANGED <<buffers, batch, at>>
  /\ UNCHANGED <<past, tables, targets, dropped, prune, client, history>>

Forget ==
  /\ pending' = <<>> /\ rollups' = Zero /\ batch' = Idle /\ at' = "idle"
  /\ targets' = <<>> /\ dropped' = 0 /\ prune' = NotPruning

\* The process ends: by itself after close() or its deadline, or by a crash.
Exit ==
  /\ mode \in {"closing", "closed"} \/ (mode = "running" /\ "crash" \in Faults)
  /\ mode' = "down"
  /\ Undo
  /\ Forget
  /\ UNCHANGED <<past, history>>

\* init() of the next process, whose prune() has begun.
Restart ==
  /\ mode = "down" /\ starts < MaxStarts
  /\ starts' = starts + 1
  /\ mode' = "running"
  /\ base' = Len(recorded)
  /\ prune' = [at |-> "age", cutoff |-> now - Retention]
  /\ UNCHANGED <<now, recorded, tables, buffers, flushing, client, errors, torn>>

Tick ==
  /\ now < MaxTime
  /\ now' = now + 1
  /\ UNCHANGED <<recorded, base, tables, mode, buffers, flushing, prune, client, history>>

\* No events yet, or one of an earlier process.
Init ==
  /\ recorded \in {<<>>} \cup {<<[kind |-> kind, ts |-> 0]>> : kind \in Kinds}
  /\ base = Len(recorded) /\ now = 1
  /\ disk = [rows |-> [id \in DOMAIN recorded |-> {id}], gone |-> {},
             rollup |-> [k \in Keys |-> Counted(k)], seq |-> Len(recorded)]
  /\ db = disk /\ open = FALSE
  /\ mode = "down"
  /\ pending = <<>> /\ rollups = Zero /\ batch = Idle /\ at = "idle"
  /\ targets = <<>> /\ dropped = 0 /\ prune = NotPruning
  /\ client = Fresh
  /\ errors = 0 /\ starts = 0 /\ torn = FALSE

Next ==
  \/ \E kind \in Kinds : Record(kind)
  \/ FlushTimer \/ FlushStatement
  \/ Prune \/ PruneAge \/ PruneCap \/ PruneFails
  \/ Poll
  \/ Close \/ Exit \/ Restart \/ Tick

Spec == Init /\ [][Next]_vars

-----------------------------------------------------------------------------
(* Properties *)

\* What the running flush took and has neither saved nor lost for good.
InFlight ==
  [k \in Keys |-> IF at # "idle" /\ (open \/ k \in batch.keys) THEN batch.rollups[k] ELSE 0]

\* The counts that are nowhere any more.
Lost == [k \in Keys |-> Counted(k) - disk.rollup[k] - rollups[k] - InFlight[k]]

\* Whether an error has failed the running flush: it is to roll back, or its
\* transaction was ended under it and its COMMIT will fail.
Failed == at = "rollback" \/ (at \in {"write", "insert", "rollup", "commit"} /\ ~open)

Totals == INSTANCE EventTotals
            WITH totals <- disk.rollup, waiting <- rollups, batch <- InFlight,
                 lost <- Lost, failed <- Failed, errors <- errors

\* The log as it works saves what the abstract totals promise: no event is
\* counted twice, whatever becomes of a flush and whoever shares its
\* connection, a flush that succeeds saves all it took, and only one that an
\* error has failed, in flush() or in prune(), or the end of the process loses
\* counts.
ImplementsTotals == Totals!Spec

\* A row holds events of one kind, all of them within one collapse window,
\* and no event is in two rows, also when ids are handed out again after a
\* rollback and prune() deletes the rows that later events are folded into.
\* Only an error of prune() that ends the transaction of a running flush
\* breaks it: that flush goes on with the ids it got in the transaction.
RowsOfOneKind ==
  torn \/
  \A id \in DOMAIN db.rows :
    /\ \A n \in db.rows[id] :
         /\ recorded[n].kind = KindOf(db.rows[id])
         /\ recorded[n].ts - FirstTs(db.rows[id]) < Window
    /\ \A other \in DOMAIN db.rows \ {id} : db.rows[other] \cap db.rows[id] = {}

\* dropped_events of status() accounts for every event of this process that
\* is neither buffered nor in a row, now or before prune() deleted it.
DropsAreReported ==
  LET kept == disk.gone \cup UNION Range(disk.rows)
      buffered == Range(pending) \cup Range(batch.events)
  IN mode # "down" =>
       Cardinality((base + 1 .. Len(recorded)) \ (kept \cup buffered)) <= dropped

\* The tailing client got every row up to the id it passes as since_id,
\* unless one of its reads ran inside a transaction that was rolled back.
TailMissesNothing ==
  client.undone \/
  \A id \in DOMAIN db.rows : id <= client.since => Min(db.rows[id]) \in client.seen
=============================================================================
