---------------------- MODULE MailboxCheckpointProofs ----------------------
(***************************************************************************)
(* The stored checkpoint never runs ahead of the work, for every value of  *)
(* the constants, as long as no data handler fails half-way.               *)
(***************************************************************************)
EXTENDS MailboxWorkerProofs

(***************************************************************************)
(* The inductive invariant.  Each position from which work goes on -- the  *)
(* stored checkpoint, the cursor of a backfill that is no catch-up, what a *)
(* call has handed out -- has everything behind it handled or skipped, but *)
(* for the one message its pipeline is processing.                         *)
(***************************************************************************)
CursorCovered ==
  \A w \in Workers :
    worker[w].loop \in {"reading", "batch"} /\ ~worker[w].catchUp
      => Covered(worker[w].cursor)

BatchIsBusy ==
  \A w \in Workers :
    IF worker[w].loop = "batch"
    THEN /\ ~worker[w].catchUp /\ Busy(w)
         /\ job[w].msg = worker[w].cursor + 1
         /\ worker[w].cursor < worker[w].upto
    ELSE ~Busy(w)

TakenCovered ==
  \A k \in Calls :
    IF Busy(k) THEN job[k].msg = call[k].taken /\ Covered(call[k].taken - 1)
               ELSE Covered(call[k].taken)

RecordedIsHandled ==
  \A p \in Pipelines : job[p].stage = "checkMailbox" => job[p].msg \in handled

\* A call that is not over is the one its owner's loop waits for.
LiveCallsStream ==
  /\ \A k \in Calls : call[k].state # "closed" =>
       /\ call[k].owner \in Workers
       /\ worker[call[k].owner].loop = "streaming"
  /\ \A j, k \in Calls :
       call[j].state # "closed" /\ call[k].state # "closed"
         /\ call[j].owner = call[k].owner => j = k

Positions == CursorCovered /\ BatchIsBusy /\ TakenCovered

CheckpointInv ==
  /\ TypeOK /\ CheckpointCoversHandled
  /\ Positions /\ RecordedIsHandled /\ LiveCallsStream

-----------------------------------------------------------------------------
(* Facts the steps share *)

\* Nothing is ever taken back from the handled and the skipped messages.
Growing == handled \subseteq handled' /\ skipped \subseteq skipped'

CoveredAfter(n) == 1..n \subseteq handled' \cup skipped'

\* What is covered stays covered while the histories only grow.
LEMMA CoveredStays ==
  ASSUME Growing, NEW n, Covered(n)
  PROVE  CoveredAfter(n)
BY DEF Growing, Covered, CoveredAfter

\* Covering up to n covers up to anything below.
LEMMA CoveredBelow ==
  ASSUME NEW m \in Nat, NEW n \in Nat, m <= n, Covered(n)
  PROVE  Covered(m)
BY DEF Covered

\* One more message: the next one after those covered.
LEMMA CoveredNext ==
  ASSUME NEW n \in Nat, n > 0, Covered(n - 1), n \in handled
  PROVE  Covered(n)
<1>1. 1..n = 1..(n - 1) \cup {n}
  OBVIOUS
<1> QED BY <1>1 DEF Covered

\* The states a worker starts in and a loop iteration ends in.
LEMMA LoopOf ==
  /\ NoWorker.loop = "none"
  /\ \A t : LoopTop(t).loop \in {"getCheckpoint", "auth_expired"}
  /\ \A w, next, t : LoopEnd(w, next, t).loop \in {"none", next}
BY DEF NoWorker, LoopTop, LoopEnd

\* A step that touches neither the positions nor what is being processed.
LEMMA UntouchedPositions ==
  ASSUME Positions, Growing,
         \A p \in Pipelines : /\ job'[p].msg = job[p].msg
                              /\ job'[p].stage = "idle" <=> job[p].stage = "idle",
         \A w \in Workers :
           /\ worker'[w].loop = "batch" <=> worker[w].loop = "batch"
           /\ worker'[w].loop \in {"reading", "batch"} =>
                /\ worker[w].loop \in {"reading", "batch"}
                /\ worker'[w].cursor = worker[w].cursor
                /\ worker'[w].upto = worker[w].upto
                /\ worker'[w].catchUp = worker[w].catchUp,
         \A k \in Calls : \/ call'[k].taken = call[k].taken
                          \/ call'[k].taken = 0 /\ ~Busy(k)
  PROVE  Positions'
<1> USE DEF Positions, Pipelines
<1>1. CursorCovered'
  BY CoveredStays DEF Covered, CoveredAfter, CursorCovered
<1>2. BatchIsBusy'
  BY DEF BatchIsBusy, Busy
<1>3. TakenCovered'
  <2>1. CoveredAfter(0)
    BY DEF CoveredAfter
  <2> QED BY <2>1, CoveredStays DEF Covered, CoveredAfter, TakenCovered, Busy
<1> QED BY <1>1, <1>2, <1>3

\* A call that is not in use processes nothing.
LEMMA NoCallIdle ==
  ASSUME TypeOK, TakenCovered, NEW k \in Calls, call[k] = NoCall
  PROVE  ~Busy(k)
<1>1. Busy(k) => job[k].msg \in Msgs
  BY JobsTyped DEF TypeOK, Busy, Pipelines
<1>2. call[k].taken = 0 /\ 0 \notin Msgs
  BY DEF NoCall, Msgs
<1> QED BY <1>1, <1>2 DEF TakenCovered

\* Where a page ends, the next request or call starts, with all before it
\* covered unless this is a catch-up.
LEMMA PageEnd ==
  ASSUME TypeOK, Positions, Growing, NEW w \in Workers, NEW n \in 0..MaxMsg,
         NEW more, NEW catchUp,
         \/ OpenStream(w, n) /\ CoveredAfter(n)
         \/ NextPage(w, n, more, catchUp) /\ (catchUp \/ CoveredAfter(n)),
         ~Busy(w)', \A p \in Pipelines \ {w} : job'[p] = job[p]
  PROVE  Positions'
<1> USE DEF Positions
<1>0. Calls \subseteq Pipelines \ {w} /\ Workers \subseteq Pipelines
  BY SetsAssumption DEF Pipelines
<1>1. CASE OpenStream(w, n) /\ CoveredAfter(n)
  <2>1. PICK k \in Calls : OpenStream(w, n)!(k)
    BY <1>1 DEF OpenStream
  <2>2. worker'[w].loop = "streaming"
        /\ \A v \in Workers \ {w} : worker'[v] = worker[v]
    BY <2>1 DEF TypeOK, NoWorker
  <2>3. call'[k].taken = n /\ \A j \in Calls \ {k} : call'[j] = call[j]
    BY <2>1 DEF TypeOK, NoCall
  <2>4. ~Busy(k)
    BY <2>1, NoCallIdle
  <2>5. CursorCovered'
    BY <2>2, CoveredStays DEF Covered, CoveredAfter, CursorCovered
  <2>6. BatchIsBusy'
    BY <1>0, <2>2 DEF BatchIsBusy, Busy
  <2>7. TakenCovered'
    BY <1>0, <1>1, <2>3, <2>4, CoveredStays DEF Covered, CoveredAfter, TakenCovered, Busy
  <2> QED BY <2>5, <2>6, <2>7
<1>2. CASE /\ worker' = [worker EXCEPT ![w] = Reading(w, n, catchUp)]
           /\ UNCHANGED call
           /\ catchUp \/ CoveredAfter(n)
  <2>1. /\ worker'[w].loop = "reading" /\ worker'[w].cursor = n
        /\ worker'[w].catchUp = catchUp
        /\ \A v \in Workers \ {w} : worker'[v] = worker[v]
    BY <1>2 DEF TypeOK, Reading
  <2>2. CursorCovered'
    BY <1>2, <2>1, CoveredStays DEF Covered, CoveredAfter, CursorCovered
  <2>3. BatchIsBusy'
    BY <1>0, <2>1 DEF BatchIsBusy, Busy
  <2>4. TakenCovered'
    BY <1>0, <1>2, CoveredStays DEF Covered, CoveredAfter, TakenCovered, Busy
  <2> QED BY <2>2, <2>3, <2>4
<1>3. CASE /\ worker' = [worker EXCEPT ![w] =
                            [@ EXCEPT !.loop = "setCheckpoint",
                                      !.request = None, !.cursor = n]]
           /\ UNCHANGED call
  <2>1. /\ worker'[w].loop = "setCheckpoint"
        /\ \A v \in Workers \ {w} : worker'[v] = worker[v]
    BY <1>3 DEF TypeOK, WorkerState
  <2>2. CursorCovered'
    BY <2>1, CoveredStays DEF Covered, CoveredAfter, CursorCovered
  <2>3. BatchIsBusy'
    BY <1>0, <2>1 DEF BatchIsBusy, Busy
  <2>4. TakenCovered'
    BY <1>0, <1>3, CoveredStays DEF Covered, CoveredAfter, TakenCovered, Busy
  <2> QED BY <2>2, <2>3, <2>4
<1>4. CASE NextPage(w, n, more, catchUp) /\ (catchUp \/ CoveredAfter(n))
  <2>1. CASE more
    BY <1>2, <1>4, <2>1 DEF NextPage
  <2>2. CASE ~more /\ catchUp
    BY <1>3, <1>4, <2>2 DEF NextPage
  <2>3. CASE ~more /\ ~catchUp
    BY <1>1, <1>4, <2>3 DEF NextPage
  <2> QED BY <2>1, <2>2, <2>3
<1> QED BY <1>1, <1>4

\* A step that ends calls, and moves a worker off "streaming" only with them.
LEMMA NoNewCall ==
  ASSUME LiveCallsStream,
         \A k \in Calls : call'[k].state # "closed" =>
           call[k].state # "closed" /\ call'[k].owner = call[k].owner,
         \A w \in Workers : worker[w].loop = "streaming" =>
           \/ worker'[w].loop = "streaming"
           \/ \A k \in Calls : call'[k].state # "closed" => call'[k].owner # w
  PROVE  LiveCallsStream'
BY DEF LiveCallsStream

\* A call is opened only by a worker that streams from it from then on.
LEMMA NewCall ==
  ASSUME TypeOK, LiveCallsStream, NEW w \in Workers, worker[w].loop # "streaming",
         NEW n, NEW more, NEW catchUp,
         OpenStream(w, n) \/ NextPage(w, n, more, catchUp)
  PROVE  LiveCallsStream'
<1>1. CASE OpenStream(w, n)
  <2>1. PICK k \in Calls : OpenStream(w, n)!(k)
    BY <1>1 DEF OpenStream
  <2>2. worker'[w].loop = "streaming"
        /\ \A v \in Workers \ {w} : worker'[v] = worker[v]
    BY <2>1 DEF TypeOK, NoWorker
  <2>3. call'[k].owner = w /\ \A j \in Calls \ {k} : call'[j] = call[j]
    BY <2>1 DEF TypeOK, NoCall
  <2>4. \A j \in Calls : call[j].state # "closed" => call[j].owner # w
    BY DEF LiveCallsStream
  <2> QED BY <2>2, <2>3, <2>4 DEF LiveCallsStream
<1>2. CASE UNCHANGED call /\ \A v \in Workers \ {w} : worker'[v] = worker[v]
  BY <1>2, NoNewCall
<1>3. NextPage(w, n, more, catchUp) =>
        \/ OpenStream(w, n)
        \/ UNCHANGED call /\ \A v \in Workers \ {w} : worker'[v] = worker[v]
  BY DEF NextPage, TypeOK
<1> QED BY <1>1, <1>2, <1>3

\* The loop of w is at one of its awaits; it is processing a message only when
\* it is in a batch.
LEMMA BusyInBatch ==
  ASSUME CheckpointInv, NEW w \in Workers, job[w].stage # "idle"
  PROVE  /\ worker[w].loop = "batch" /\ ~worker[w].catchUp
         /\ job[w].msg = worker[w].cursor + 1
         /\ worker[w].cursor < worker[w].upto
         /\ Covered(worker[w].cursor)
BY DEF CheckpointInv, Positions, BatchIsBusy, CursorCovered, Busy

-----------------------------------------------------------------------------
(* The steps *)

Rest == CheckpointCoversHandled /\ Positions /\ RecordedIsHandled /\ LiveCallsStream

\* A step that stores no checkpoint, or one whose messages are covered.
LEMMA CheckpointKept ==
  ASSUME CheckpointCoversHandled, Growing,
         ckpt' = ckpt \/ ckpt' = None \/ CoveredAfter(ckpt')
  PROVE  CheckpointCoversHandled'
BY CoveredStays DEF Covered, CoveredAfter, CheckpointCoversHandled

\* A step of a worker's loop keeps the checkpoint behind the work.
LEMMA LoopCovers ==
  ASSUME CheckpointInv, NEW w \in Workers, LoopStep(w)
  PROVE  Rest'
<1> USE DEF CheckpointInv
<1>0. Workers \subseteq Pipelines /\ Calls \subseteq Pipelines \ {w}
  BY SetsAssumption DEF Pipelines
<1>1. Growing
  BY DEF LoopStep, GetCheckpoint, ReadOk, ReadFail, ReadReject, SetCheckpoint,
     LoopDbError, WakeUp, CheckMailboxInBatch, DbErrorInBatch, AbandonMessage,
     Growing, past
<1>2. CASE GetCheckpoint(w)
  <2>1. /\ UNCHANGED <<ckpt, call, job, handled, skipped>>
        /\ worker[w].loop = "getCheckpoint"
        /\ \A v \in Workers \ {w} : worker'[v] = worker[v]
        /\ worker'[w].loop = "reading"
        /\ ~worker'[w].catchUp => ckpt # None /\ worker'[w].cursor = ckpt
    BY <1>2 DEF TypeOK, GetCheckpoint, Reading, store, past
  <2>2. CursorCovered'
    BY <1>1, <2>1, CoveredStays DEF Covered, CoveredAfter, Positions, CursorCovered, CheckpointCoversHandled
  <2>3. BatchIsBusy'
    BY <1>0, <2>1 DEF Positions, BatchIsBusy, Busy
  <2>4. TakenCovered'
    BY <2>1 DEF Positions, TakenCovered, Busy, Covered
  <2>5. LiveCallsStream'
    BY <2>1, NoNewCall
  <2>6. RecordedIsHandled' /\ CheckpointCoversHandled'
    BY <1>1, <2>1, CheckpointKept DEF RecordedIsHandled
  <2> QED BY <2>2, <2>3, <2>4, <2>5, <2>6 DEF Rest, Positions
<1>3. CASE ReadOk(w)
  <2> DEFINE cursor == worker[w].cursor
             upto == Min({cursor + Batch, posted})
             more == upto < posted
  <2>1. upto \in 0..MaxMsg /\ cursor \in 0..MaxMsg /\ worker[w].catchUp \in BOOLEAN
    BY MinOfTwo, NumbersAssumption DEF TypeOK, WorkerState
  <2>2. worker[w].loop = "reading" /\ ~Busy(w)
    BY <1>3 DEF ReadOk, Positions, BatchIsBusy
  <2>3. UNCHANGED <<ckpt, handled, skipped>>
    BY <1>3 DEF ReadOk, store, past
  <2>4. ~worker[w].catchUp => Covered(cursor)
    BY <2>2 DEF Positions, CursorCovered
  <2>5. \/ /\ worker[w].catchUp \/ upto <= cursor
           /\ NextPage(w, upto, more, worker[w].catchUp)
           /\ UNCHANGED job
        \/ /\ ~worker[w].catchUp /\ upto > cursor
           /\ worker' = [worker EXCEPT ![w] = InBatch(w, upto, more)]
           /\ job' = [job EXCEPT ![w] = Begin(cursor + 1)]
           /\ UNCHANGED call
    BY <1>3 DEF ReadOk
  <2> HIDE DEF upto, more
  <2>6. CheckpointCoversHandled'
    BY <1>1, <2>3, CheckpointKept
  <2>7. CASE /\ worker[w].catchUp \/ upto <= cursor
             /\ NextPage(w, upto, more, worker[w].catchUp)
             /\ UNCHANGED job
    <3>1. worker[w].catchUp \/ CoveredAfter(upto)
      BY <1>1, <2>1, <2>4, <2>7, CoveredBelow, CoveredStays
    <3>2. Positions'
      BY <1>1, <2>1, <2>2, <2>7, <3>1, PageEnd DEF Busy
    <3>3. LiveCallsStream'
      BY <2>2, <2>7, NewCall
    <3>4. RecordedIsHandled'
      BY <1>1, <2>7 DEF RecordedIsHandled, Growing
    <3> QED BY <2>6, <3>2, <3>3, <3>4 DEF Rest
  <2>8. CASE /\ ~worker[w].catchUp /\ upto > cursor
             /\ worker' = [worker EXCEPT ![w] = InBatch(w, upto, more)]
             /\ job' = [job EXCEPT ![w] = Begin(cursor + 1)]
             /\ UNCHANGED call
    <3>1. cursor + 1 \in Msgs
      BY <2>1, <2>8, NumbersAssumption DEF Msgs
    <3>2. /\ job'[w].msg = cursor + 1 /\ job'[w].stage \in {"getDevices", "sending"}
          /\ \A p \in Pipelines \ {w} : job'[p] = job[p]
      BY <1>0, <2>8, <3>1, JobsTyped DEF TypeOK
    <3>3. /\ worker'[w].loop = "batch" /\ ~worker'[w].catchUp
          /\ worker'[w].cursor = cursor /\ worker'[w].upto = upto
          /\ \A v \in Workers \ {w} : worker'[v] = worker[v]
      BY <2>8 DEF TypeOK, InBatch
    <3>4. CursorCovered'
      BY <1>1, <2>4, <2>8, <3>3, CoveredStays DEF Covered, CoveredAfter, Positions, CursorCovered
    <3>5. BatchIsBusy'
      BY <1>0, <2>8, <3>2, <3>3 DEF Positions, BatchIsBusy, Busy
    <3>6. TakenCovered'
      BY <1>0, <1>1, <2>8, <3>2, CoveredStays DEF Covered, CoveredAfter, Positions, TakenCovered, Busy
    <3>7. RecordedIsHandled'
      BY <1>1, <3>2 DEF RecordedIsHandled, Growing
    <3>8. LiveCallsStream'
      BY <2>2, <2>8, <3>3, NoNewCall
    <3> QED BY <2>6, <3>4, <3>5, <3>6, <3>7, <3>8 DEF Rest, Positions
  <2> QED BY <2>5, <2>7, <2>8
<1>4. CASE ReadFail(w) \/ ReadReject(w) \/ LoopDbError(w) \/ WakeUp(w)
  <2>1. /\ UNCHANGED <<ckpt, call, job, handled, skipped>>
        /\ worker[w].loop \notin {"batch", "streaming"}
        /\ \A v \in Workers \ {w} : worker'[v] = worker[v]
        /\ worker'[w].loop \notin {"reading", "batch"}
    <3>1. CASE ReadFail(w) \/ LoopDbError(w)
      BY <3>1, LoopOf DEF TypeOK, ReadFail, LoopDbError, Retry, store, past
    <3>2. CASE ReadReject(w)
      BY <3>2, LoopOf DEF TypeOK, ReadReject, AuthPause, store, past
    <3>3. CASE WakeUp(w)
      BY <3>3, LoopOf DEF TypeOK, WakeUp, store, past
    <3> QED BY <1>4, <3>1, <3>2, <3>3
  <2>2. Positions'
    BY <1>1, <2>1, UntouchedPositions
  <2>3. LiveCallsStream' /\ RecordedIsHandled' /\ CheckpointCoversHandled'
    BY <1>1, <2>1, NoNewCall, CheckpointKept DEF RecordedIsHandled
  <2> QED BY <2>2, <2>3 DEF Rest
<1>5. CASE SetCheckpoint(w)
  <2> DEFINE cursor == worker[w].cursor
  <2>1. /\ OpenStream(w, cursor) /\ UNCHANGED job
        /\ worker[w].loop = "setCheckpoint"
        /\ ckpt' = ckpt \/ ckpt' = cursor
        /\ skipped' = skipped \cup 1..cursor
    BY <1>5 DEF SetCheckpoint
  <2>2. CoveredAfter(cursor) /\ cursor \in 0..MaxMsg
    BY <2>1 DEF CoveredAfter, TypeOK, WorkerState
  <2>3. Positions'
    BY <1>1, <2>1, <2>2, PageEnd DEF Positions, BatchIsBusy, Busy
  <2>4. LiveCallsStream'
    BY <2>1, NewCall
  <2>5. RecordedIsHandled'
    BY <1>1, <2>1 DEF RecordedIsHandled, Growing
  <2>6. CheckpointCoversHandled'
    BY <1>1, <2>1, <2>2, CheckpointKept
  <2> QED BY <2>3, <2>4, <2>5, <2>6 DEF Rest
<1>6. CASE CheckMailboxInBatch(w)
  <2> DEFINE cursor == worker[w].cursor + 1
  <2>1. /\ job[w].stage = "checkMailbox"
        /\ UNCHANGED <<ckpt, handled, skipped>>
    BY <1>6 DEF CheckMailboxInBatch, store, past
  <2>2. /\ worker[w].loop = "batch" /\ ~worker[w].catchUp /\ job[w].msg = cursor
        /\ worker[w].cursor < worker[w].upto /\ Covered(worker[w].cursor)
    BY <2>1, BusyInBatch
  <2>3. worker[w].cursor \in 0..MaxMsg /\ worker[w].upto \in 0..MaxMsg
    BY DEF TypeOK, WorkerState
  <2>4. CoveredAfter(cursor)
    <3>1. cursor \in handled
      BY <1>0, <2>1, <2>2 DEF RecordedIsHandled
    <3> QED BY <1>1, <2>2, <2>3, <3>1, CoveredNext, CoveredStays
  <2>5. CheckpointCoversHandled'
    BY <1>1, <2>1, CheckpointKept
  <2>6. CASE /\ cursor < worker[w].upto
             /\ worker' = [worker EXCEPT ![w].cursor = cursor]
             /\ job' = [job EXCEPT ![w] = Begin(cursor + 1)]
             /\ UNCHANGED call
    <3>1. cursor + 1 \in Msgs
      BY <2>3, <2>6, NumbersAssumption DEF Msgs
    <3>2. /\ job'[w].msg = cursor + 1 /\ job'[w].stage \in {"getDevices", "sending"}
          /\ \A p \in Pipelines \ {w} : job'[p] = job[p]
      BY <1>0, <2>6, <3>1, JobsTyped DEF TypeOK
    <3>3. /\ worker'[w].loop = "batch" /\ ~worker'[w].catchUp
          /\ worker'[w].cursor = cursor /\ worker'[w].upto = worker[w].upto
          /\ \A v \in Workers \ {w} : worker'[v] = worker[v]
      BY <2>2, <2>6 DEF TypeOK, WorkerState
    <3>4. CursorCovered'
      BY <1>1, <2>4, <3>3, CoveredStays DEF Covered, CoveredAfter, Positions, CursorCovered
    <3>5. BatchIsBusy'
      BY <1>0, <2>6, <3>2, <3>3 DEF Positions, BatchIsBusy, Busy
    <3>6. TakenCovered'
      BY <1>0, <1>1, <2>6, <3>2, CoveredStays DEF Covered, CoveredAfter, Positions, TakenCovered, Busy
    <3>7. RecordedIsHandled'
      BY <1>1, <3>2 DEF RecordedIsHandled, Growing
    <3>8. LiveCallsStream'
      BY <2>2, <2>6, <3>3, NoNewCall
    <3> QED BY <2>5, <3>4, <3>5, <3>6, <3>7, <3>8 DEF Rest, Positions
  <2>7. CASE /\ cursor = worker[w].upto
             /\ job' = [job EXCEPT ![w] = Idle]
             /\ NextPage(w, cursor, worker[w].more, FALSE)
    <3>1. /\ job'[w].stage = "idle"
          /\ \A p \in Pipelines \ {w} : job'[p] = job[p]
      BY <1>0, <2>7 DEF TypeOK, Idle
    <3>2. Positions'
      BY <1>1, <2>3, <2>4, <2>7, <3>1, PageEnd DEF Busy
    <3>3. LiveCallsStream'
      BY <2>2, <2>7, NewCall
    <3>4. RecordedIsHandled'
      BY <1>1, <3>1 DEF RecordedIsHandled, Growing
    <3> QED BY <2>5, <3>2, <3>3, <3>4 DEF Rest
  <2> QED BY <1>6, <2>6, <2>7 DEF CheckMailboxInBatch
<1>7. CASE DbErrorInBatch(w)
  <2>1. /\ job[w].stage # "idle" /\ UNCHANGED <<ckpt, call>>
        /\ job'[w].stage = "idle" /\ \A p \in Pipelines \ {w} : job'[p] = job[p]
    BY <1>0, <1>7 DEF DbErrorInBatch, AbandonMessage, Idle, TypeOK, store
  <2>2. worker[w].loop = "batch"
    BY <2>1, BusyInBatch
  <2>3. /\ \A v \in Workers \ {w} : worker'[v] = worker[v]
        /\ worker'[w].loop \notin {"reading", "batch"}
    BY <1>7 DEF DbErrorInBatch, Retry, LoopEnd, NoWorker, TypeOK
  <2>4. CursorCovered'
    BY <1>1, <2>3, CoveredStays DEF Covered, CoveredAfter, Positions, CursorCovered
  <2>5. BatchIsBusy'
    BY <1>0, <2>1, <2>3 DEF Positions, BatchIsBusy, Busy
  <2>6. TakenCovered'
    BY <1>0, <1>1, <2>1, CoveredStays DEF Covered, CoveredAfter, Positions, TakenCovered, Busy
  <2>7. LiveCallsStream'
    BY <2>1, <2>2, <2>3, NoNewCall
  <2>8. RecordedIsHandled' /\ CheckpointCoversHandled'
    BY <1>1, <2>1, CheckpointKept DEF RecordedIsHandled, Growing
  <2> QED BY <2>4, <2>5, <2>6, <2>7, <2>8 DEF Rest, Positions
<1> QED BY <1>2, <1>3, <1>4, <1>5, <1>6, <1>7 DEF LoopStep

\* A step of a call does, as long as a data handler does not drop a message.
LEMMA CallCovers ==
  ASSUME "handler_error" \notin Faults,
         CheckpointInv, NEW k \in Calls, CallStep(k)
  PROVE  Rest'
<1> USE DEF CheckpointInv
<1>0. k \notin Workers /\ Calls \subseteq Pipelines /\ Workers \subseteq Pipelines
  BY SetsAssumption DEF Pipelines
<1>1. /\ Growing /\ UNCHANGED <<ckpt, handled>>
      /\ CheckpointCoversHandled'
  <2>1. Growing /\ UNCHANGED <<ckpt, handled>>
    BY DEF CallStep, Deliver, ServerEnds, Data, CallEnd, CallError, CallReject,
       CallCancelled, FinishCall, CheckMailboxInStream, DbErrorInStream,
       Growing, store, past
  <2> QED BY <2>1, CheckpointKept
<1>2. CASE Deliver(k) \/ ServerEnds(k)
  <2>1. /\ UNCHANGED <<worker, job>>
        /\ \A j \in Calls : /\ call'[j].taken = call[j].taken
                            /\ call'[j].state = call[j].state
                            /\ call'[j].owner = call[j].owner
    BY <1>2 DEF Deliver, ServerEnds, TypeOK, CallState
  <2> QED BY <1>1, <2>1, UntouchedPositions, NoNewCall DEF Rest, RecordedIsHandled
<1>3. CASE CallEnd(k) \/ CallError(k) \/ CallReject(k) \/ CallCancelled(k)
  <2>1. /\ call[k].state # "closed"
        /\ \E s : FinishCall(k, s) /\ s.loop \in {"none", "retrying", "auth_paused"}
    <3>1. CASE CallEnd(k) \/ CallError(k)
      BY <3>1, LoopOf DEF CallEnd, CallError, Retry
    <3>2. CASE CallReject(k)
      BY <3>2, LoopOf DEF CallReject, AuthPause
    <3>3. CASE CallCancelled(k)
      BY <3>3, LoopOf DEF CallCancelled
    <3> QED BY <1>3, <3>1, <3>2, <3>3
  <2>2. /\ call[k].owner \in Workers /\ worker[call[k].owner].loop = "streaming"
    BY <2>1 DEF LiveCallsStream
  <2>3. /\ UNCHANGED job
        /\ \A w \in Workers \ {call[k].owner} : worker'[w] = worker[w]
        /\ worker'[call[k].owner].loop \in {"none", "retrying", "auth_paused"}
        /\ \A j \in Calls \ {k} : call'[j] = call[j]
        /\ call'[k] = Settle([call[k] EXCEPT !.state = "closed"], Busy(k))
    BY <2>1, <2>2 DEF FinishCall, TypeOK
  <2>4. /\ call'[k].state = "closed"
        /\ call'[k].taken = call[k].taken \/ (call'[k].taken = 0 /\ ~Busy(k))
    BY <2>3 DEF Settle, NoCall, TypeOK, CallState
  <2>5. Positions'
    BY <1>1, <2>2, <2>3, <2>4, UntouchedPositions
  <2>6. LiveCallsStream'
    BY <2>1, <2>3, <2>4 DEF LiveCallsStream
  <2> QED BY <1>1, <2>3, <2>5, <2>6 DEF Rest, RecordedIsHandled
<1>4. CASE Data(k)
  <2> DEFINE next == call[k].taken + 1
  <2>1. /\ ~Busy(k) /\ call[k].taken < call[k].sent
        /\ job' = [job EXCEPT ![k] = Begin(next)]
        /\ \A j \in Calls \ {k} : call'[j] = call[j]
        /\ call'[k].taken = next /\ call'[k].owner = call[k].owner
    BY <1>4 DEF Data, TypeOK, CallState
  <2>2. next \in Msgs /\ Covered(next - 1)
    <3>1. call[k].taken \in 0..MaxMsg /\ call[k].sent \in 0..MaxMsg
      BY DEF TypeOK, CallState
    <3>2. next \in Msgs /\ next - 1 = call[k].taken
      BY <2>1, <3>1, NumbersAssumption DEF Msgs
    <3>3. Covered(call[k].taken)
      BY <2>1 DEF Positions, TakenCovered
    <3> QED BY <3>2, <3>3
  <2>3. /\ job'[k].msg = next /\ job'[k].stage \in {"getDevices", "sending"}
        /\ \A p \in Pipelines \ {k} : job'[p] = job[p]
    BY <1>0, <2>1, <2>2, JobsTyped DEF TypeOK
  <2>4. \/ UNCHANGED worker /\ call'[k].state = call[k].state
        \/ /\ call[k].state # "closed" /\ call'[k].state = "closed"
           /\ worker' = [worker EXCEPT ![call[k].owner] = Retry(call[k].owner)]
    BY <1>4 DEF Data, TypeOK, CallState
  <2>5. \/ UNCHANGED worker /\ call'[k].state = call[k].state
        \/ /\ call'[k].state = "closed" /\ call[k].state # "closed"
           /\ call[k].owner \in Workers /\ worker[call[k].owner].loop = "streaming"
           /\ worker'[call[k].owner].loop \in {"none", "retrying"}
           /\ \A w \in Workers \ {call[k].owner} : worker'[w] = worker[w]
    BY <2>4, LoopOf DEF LiveCallsStream, Retry, TypeOK
  <2>6. CursorCovered'
    BY <1>1, <2>5, CoveredStays DEF Covered, CoveredAfter, Positions, CursorCovered
  <2>7. BatchIsBusy'
    BY <1>0, <2>3, <2>5 DEF Positions, BatchIsBusy, Busy
  <2>8. TakenCovered'
    BY <1>0, <1>1, <2>1, <2>2, <2>3, CoveredStays
    DEF Covered, CoveredAfter, Positions, TakenCovered, Busy
  <2>9. RecordedIsHandled'
    BY <1>1, <2>3 DEF RecordedIsHandled
  <2>10. LiveCallsStream'
    BY <2>1, <2>5 DEF LiveCallsStream
  <2> QED BY <1>1, <2>6, <2>7, <2>8, <2>9, <2>10 DEF Rest, Positions
<1>5. CASE CheckMailboxInStream(k)
  <2>1. /\ job[k].stage = "checkMailbox" /\ Busy(k)
        /\ job'[k].stage = "idle" /\ \A p \in Pipelines \ {k} : job'[p] = job[p]
    BY <1>0, <1>5 DEF CheckMailboxInStream, Busy, Idle, TypeOK
  <2>2. Covered(call[k].taken)
    <3>1. job[k].msg = call[k].taken /\ Covered(call[k].taken - 1)
          /\ call[k].taken \in handled
      BY <1>0, <2>1 DEF Positions, TakenCovered, RecordedIsHandled
    <3>2. call[k].taken \in Nat /\ call[k].taken > 0
      BY <1>0, <2>1, <3>1, JobsTyped DEF TypeOK, Msgs
    <3> QED BY <3>1, <3>2, CoveredNext
  <2>3. \A j \in Calls :
          /\ call'[j].state # "closed" =>
               call[j].state # "closed" /\ call'[j].owner = call[j].owner
          /\ call'[j].taken = call[j].taken \/ (j = k /\ call'[j].taken = 0)
    <3> DEFINE cancelled == Cancelled(call[k].owner)
    <3>1. \A j \in Calls :
            /\ cancelled[j].taken = call[j].taken
            /\ cancelled[j].owner = call[j].owner
            /\ cancelled[j].state = "closed" <=> call[j].state = "closed"
      BY DEF Cancelled, TypeOK, CallState
    <3>2. \A c :
            \/ Settle(c, FALSE) = c
            \/ Settle(c, FALSE).taken = 0 /\ Settle(c, FALSE).state = "closed"
      BY DEF Settle, NoCall
    <3>3. \/ call' = [cancelled EXCEPT ![k] = Settle(cancelled[k], FALSE)]
          \/ call' = [call EXCEPT ![k] = Settle(call[k], FALSE)]
      BY <1>5 DEF CheckMailboxInStream
    <3>4. cancelled \in [Calls -> CallState] /\ call \in [Calls -> CallState]
      BY CallsTyped DEF TypeOK
    <3> HIDE DEF cancelled
    <3>5. \A j \in Calls \ {k} : call'[j] = cancelled[j] \/ call'[j] = call[j]
      BY <3>3, <3>4
    <3>6. \/ call'[k] = cancelled[k] \/ call'[k] = call[k]
          \/ call'[k].taken = 0 /\ call'[k].state = "closed"
      BY <3>2, <3>3, <3>4
    <3> QED BY <3>1, <3>5, <3>6
  <2>4. \A w \in Workers :
          \/ worker'[w] = worker[w]
          \/ /\ worker[w].loop \in {"retrying", "auth_paused", "auth_expired"}
             /\ worker'[w].loop = "none"
    <3>1. UNCHANGED worker \/ worker' = WokenToStop(call[k].owner)
      BY <1>5 DEF CheckMailboxInStream
    <3> QED BY <3>1, LoopOf DEF WokenToStop, Sleeping, TypeOK
  <2>5. CursorCovered'
    BY <1>1, <2>4, CoveredStays DEF Covered, CoveredAfter, Positions, CursorCovered
  <2>6. BatchIsBusy'
    BY <1>0, <2>1, <2>4 DEF Positions, BatchIsBusy, Busy
  <2>7. TakenCovered'
    BY <1>0, <1>1, <2>1, <2>2, <2>3, CoveredStays
    DEF Covered, CoveredAfter, Positions, TakenCovered, Busy
  <2>8. RecordedIsHandled'
    BY <1>1, <2>1 DEF RecordedIsHandled
  <2>9. LiveCallsStream'
    BY <2>3, <2>4, NoNewCall
  <2> QED BY <1>1, <2>5, <2>6, <2>7, <2>8, <2>9 DEF Rest, Positions
<1>6. ~DbErrorInStream(k)
  BY DEF DbErrorInStream
<1> QED BY <1>2, <1>3, <1>4, <1>5, <1>6 DEF CallStep

\* A step of the processing of a message does.
LEMMA MessageCovers ==
  ASSUME CheckpointInv, NEW p \in Pipelines, MessageStep(p)
  PROVE  Rest'
<1> USE DEF CheckpointInv
<1>1. /\ Growing /\ UNCHANGED <<worker, call>>
      /\ job[p].stage # "idle" /\ job[p] \in BusyState
  <2>1. Growing /\ UNCHANGED <<worker, call>> /\ job[p].stage # "idle"
    BY DEF MessageStep, GetDevices, RemoveStale, RefreshMetric, Record, PushOk, PushFail,
           PushStale, Growing, past
  <2> QED BY <2>1, JobsTyped DEF TypeOK
<1>2. /\ \A q \in Pipelines \ {p} : job'[q] = job[q]
      /\ job'[p].msg = job[p].msg /\ job'[p].stage # "idle"
      /\ job'[p].stage = "checkMailbox" => job[p].msg \in handled'
  <2>1. CASE GetDevices(p) \/ RemoveStale(p) \/ RefreshMetric(p)
    BY <1>1, <2>1 DEF GetDevices, RemoveStale, RefreshMetric, TypeOK, BusyState
  <2>2. CASE Record(p)
    BY <1>1, <2>2 DEF Record, TypeOK, BusyState
  <2>3. CASE \E d \in Devices : PushOk(p, d) \/ PushFail(p, d)
    BY <1>1, <2>3 DEF PushOk, PushFail, TypeOK, BusyState
  <2>4. CASE \E d \in Devices : PushStale(p, d)
    BY <1>1, <2>4 DEF PushStale, TypeOK, BusyState
  <2> QED BY <2>1, <2>2, <2>3, <2>4 DEF MessageStep
<1>3. Positions' /\ LiveCallsStream'
  BY <1>1, <1>2, UntouchedPositions, NoNewCall
<1>4. RecordedIsHandled'
  BY <1>1, <1>2 DEF RecordedIsHandled, Growing
<1>5. CheckpointCoversHandled'
  <2>1. CASE Record(p)
    <3>1. job[p].msg \in handled' /\ (ckpt' = ckpt \/ ckpt' = job[p].msg)
      BY <2>1 DEF Record
    <3>2. job[p].msg \in Nat /\ job[p].msg > 0
      BY <1>1 DEF BusyState, Msgs
    <3>3. Covered(job[p].msg - 1)
      <4>1. CASE p \in Workers
        <5>1. /\ job[p].msg = worker[p].cursor + 1 /\ Covered(worker[p].cursor)
              /\ worker[p].cursor \in Nat
          BY <1>1, <4>1, BusyInBatch DEF TypeOK, WorkerState
        <5> QED BY <5>1
      <4>2. CASE p \in Calls
        BY <1>1, <4>2 DEF Positions, TakenCovered, Busy
      <4> QED BY <4>1, <4>2 DEF Pipelines
    <3>4. CoveredAfter(job[p].msg)
      <4>1. 1..job[p].msg = 1..(job[p].msg - 1) \cup {job[p].msg}
        BY <3>2
      <4> QED BY <1>1, <3>1, <3>3, <4>1, CoveredStays DEF CoveredAfter
    <3> QED BY <1>1, <3>1, <3>4, CheckpointKept
  <2>2. CASE ~Record(p)
    <3>1. ckpt' = ckpt \/ ckpt' = None
      BY <2>2 DEF MessageStep, GetDevices, RemoveStale, UnregisterDevice, RefreshMetric, PushOk,
                  PushFail, PushStale, store
    <3> QED BY <1>1, <3>1, CheckpointKept
  <2> QED BY <2>1, <2>2
<1> QED BY <1>3, <1>4, <1>5 DEF Rest

\* Whatever else happens around the mailbox: registrations, deletions, restarts.
LEMMA OthersCover ==
  ASSUME CheckpointInv,
         \/ Post \/ \E t \in Tokens : Expire(t)
         \/ \E d \in Devices, t \in Tokens : Register(d, t)
         \/ \E d \in Devices : Unregister(d)
         \/ StopIfUnused \/ Retain \/ Restart \/ UNCHANGED vars
  PROVE  Rest'
<1> USE DEF CheckpointInv
<1>1. Growing /\ (ckpt' = ckpt \/ ckpt' = None)
  BY DEF Post, Expire, Register, Unregister, UnregisterDevice, StopIfUnused,
         Retain, Restart, Growing, vars, store, memory, past
<1>2. CheckpointCoversHandled'
  BY <1>1, CheckpointKept
<1>3. CASE Restart
  <2>1. /\ \A p \in Pipelines : job'[p].stage = "idle"
        /\ \A k \in Calls : call'[k].taken = 0 /\ call'[k].state = "closed"
    BY <1>3 DEF Restart, Idle, NoCall
  <2>2. \A w \in Workers : worker'[w].loop \in {"none", "getCheckpoint", "auth_expired"}
    BY <1>3, LoopOf DEF Restart
  <2>3. CursorCovered' /\ BatchIsBusy'
    BY <2>1, <2>2 DEF CursorCovered, BatchIsBusy, Busy, Pipelines
  <2>4. TakenCovered'
    BY <2>1 DEF TakenCovered, Covered, Busy, Pipelines
  <2>5. RecordedIsHandled' /\ LiveCallsStream'
    BY <2>1 DEF RecordedIsHandled, LiveCallsStream
  <2> QED BY <1>2, <2>3, <2>4, <2>5 DEF Rest, Positions
<1>4. CASE ~Restart
  <2>1. UNCHANGED <<job, handled>>
    BY <1>4 DEF Post, Expire, Register, Unregister, StopIfUnused, Retain, vars,
                store, memory, past
  <2>2. \A k \in Calls :
          /\ call'[k].taken = call[k].taken /\ call'[k].owner = call[k].owner
          /\ call'[k].state # "closed" => call[k].state # "closed"
    BY <1>4 DEF Post, Expire, Register, Unregister, StopIfUnused, Retain,
                StopWorker, Cancelled, vars, store, memory, past, TypeOK, CallState
  <2>3. \A w \in Workers :
          \/ worker'[w] = worker[w]
          \/ /\ worker[w].loop = "none" \/ Sleeping(w)
             /\ worker'[w].loop \in {"none", "getCheckpoint", "auth_expired"}
          \/ \E t \in Tokens : worker'[w] = [worker[w] EXCEPT !.token = t]
    <3>1. CASE \E d \in Devices, t \in Tokens : Register(d, t)
      BY <3>1, LoopOf DEF Register, FreeWorker, TypeOK
    <3>2. CASE StopIfUnused \/ Retain
      <4>1. UNCHANGED worker \/ worker' = WokenToStop(current)
        BY <3>2 DEF StopIfUnused, Retain, StopWorker
      <4> QED BY <4>1, LoopOf DEF WokenToStop, TypeOK
    <3>3. CASE \/ Post \/ \E t \in Tokens : Expire(t)
               \/ \E d \in Devices : Unregister(d)
               \/ UNCHANGED vars
      BY <3>3 DEF Post, Expire, Unregister, vars, store, memory, past
    <3> QED BY <1>4, <3>1, <3>2, <3>3
  <2>4. \A w \in Workers :
          \/ /\ worker'[w].loop = worker[w].loop
             /\ worker'[w].cursor = worker[w].cursor
             /\ worker'[w].upto = worker[w].upto
             /\ worker'[w].catchUp = worker[w].catchUp
          \/ /\ worker[w].loop \in {"none", "retrying", "auth_paused", "auth_expired"}
             /\ worker'[w].loop \in {"none", "getCheckpoint", "auth_expired"}
    BY <2>3 DEF Sleeping, TypeOK, WorkerState
  <2>5. Positions'
    BY <1>1, <2>1, <2>2, <2>4, UntouchedPositions
  <2>6. LiveCallsStream'
    BY <2>2, <2>4, NoNewCall
  <2> QED BY <1>2, <2>1, <2>5, <2>6 DEF Rest, RecordedIsHandled
<1> QED BY <1>3, <1>4

(***************************************************************************)
(* The inductive invariant behind CheckpointNeverAhead: every position a   *)
(* loop, a call or a message in processing stands at has only covered      *)
(* messages before it (index.js, _backfill() and _subscribe()).            *)
(***************************************************************************)
THEOREM CheckpointInvariant ==
  ASSUME "handler_error" \notin Faults
  PROVE  Spec => []CheckpointInv
<1>1. Init => CheckpointInv
  <2> SUFFICES ASSUME Init PROVE CheckpointInv
    OBVIOUS
  <2>1. TypeOK
    BY NumbersAssumption, LoopStatesTyped, CallsTyped, JobsTyped DEF Init, TypeOK
  <2> QED BY <2>1 DEF Init, CheckpointInv, CheckpointCoversHandled, Positions,
             CursorCovered, BatchIsBusy, TakenCovered, Covered, Busy, Idle, NoCall,
             NoWorker, RecordedIsHandled, LiveCallsStream, Pipelines
<1>2. CheckpointInv /\ TypeOK' /\ [Next]_vars => CheckpointInv'
  <2> SUFFICES ASSUME CheckpointInv, [Next]_vars PROVE Rest'
    BY DEF CheckpointInv, Rest
  <2> QED BY LoopCovers, CallCovers, MessageCovers, OthersCover DEF Next
<1> QED BY <1>1, <1>2, TypeCorrect, PTL DEF Spec

(***************************************************************************)
(* A restart loses no message: every message up to the stored checkpoint   *)
(* was sent to its recipients or was history (index.js:616-685), provided  *)
(* no database call of a data handler fails before its sends; the run      *)
(* checkpoint_gap shows that this proviso is needed.                       *)
(***************************************************************************)
THEOREM CheckpointNeverAhead ==
  ASSUME "handler_error" \notin Faults
  PROVE  Spec => []CheckpointCoversHandled
<1>1. CheckpointInv => CheckpointCoversHandled
  BY DEF CheckpointInv
<1> QED BY <1>1, CheckpointInvariant, PTL
=============================================================================
