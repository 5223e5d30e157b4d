--------------------------- MODULE MailboxWorker ---------------------------
(***************************************************************************)
(* The delivery pipeline of one mailbox: its rows in the checkpoint store, *)
(* the entry the WorkerManager keeps for it, every MailboxWorker that was  *)
(* ever started for it and has not finished, the SubscribeMailbox calls    *)
(* those workers opened, and the handling of each message up to APNs.      *)
(*                                                                         *)
(* The process is one JavaScript thread: an action is the code that runs   *)
(* between two awaits.  A database statement and the continuation that     *)
(* receives its result form one action, because sqlite3 calls back in      *)
(* completion order and a continuation runs before the next callback.      *)
(* Several pipelines interleave at every await: the loop of each worker,   *)
(* the data handler of each call, and the HTTP, wake and retention jobs.   *)
(***************************************************************************)
EXTENDS Naturals, FiniteSets, FiniteSetsExt

CONSTANTS
  Workers,       \* identities for MailboxWorker objects, reused once one is gone
  Calls,         \* identities for SubscribeMailbox calls, reused likewise
  Devices,       \* APNs device tokens
  Tokens,        \* mailbox authorizations
  OpaqueTokens,  \* those whose expiry the relay cannot read
  LateTokens,    \* bound: those that may expire while they are being registered
  None,          \* SQL NULL / no row / no object
  MaxMsg,        \* bound: messages the Ark server ever holds for the mailbox
  Unsupported,   \* messages of a type the relay does not notify about
  Batch,         \* messages per ReadMailbox response
  HighWater,     \* messages a call buffers while its handler is busy
  MaxDevices,    \* MAX_DEVICES_PER_MAILBOX, 0 for no limit
  MaxStopChecks, \* bound: unregister handlers between commit and device count
  Faults         \* what the environment may do, a subset of FaultKinds

FaultKinds ==
  {"crash", "read_fail", "stream_error", "stream_end", "db_error",
   "handler_error", "push_fail", "stale", "unregister", "expire"}

ASSUME NoneAssumption == None \notin Nat \cup Tokens \cup Devices \cup Workers
ASSUME SetsAssumption ==
  /\ OpaqueTokens \subseteq Tokens /\ LateTokens \subseteq Tokens
  /\ IsFiniteSet(Devices)
  /\ Workers \cap Calls = {}
  /\ Faults \subseteq FaultKinds
ASSUME NumbersAssumption ==
  /\ MaxMsg \in Nat
  /\ Batch \in Nat \ {0}
  /\ HighWater \in Nat \ {0}
  /\ MaxDevices \in Nat
  /\ MaxStopChecks \in Nat

VARIABLES
  \* the Ark server
  posted,      \* messages in the mailbox are 1..posted, named by checkpoint
  expired,     \* authorizations past their expiry
  \* the database
  reg,         \* authorization of the mailbox_registration row, or None
  devices,     \* device_registration rows
  ckpt,        \* mailbox_checkpoint row, or None
  \* process memory
  current,     \* WorkerManager._workers entry, or None
  worker,      \* the MailboxWorker objects and where their loops stand
  call,        \* the SubscribeMailbox calls and their buffers
  job,         \* the message each loop and each data handler is processing
  stopChecks,  \* unregister handlers about to count the remaining devices
  \* history, read by no action
  handled,     \* messages sent to every device of their recipient list
  skipped,     \* messages a finished catch-up passed over in silence
  pushes,      \* notifications APNs accepted, per message and device, up to 2
  interrupted  \* messages in flight when their call or the process died, or
               \* that a database error cut short

store  == <<reg, devices, ckpt>>
memory == <<current, worker, call, job, stopChecks>>
past   == <<handled, skipped, pushes, interrupted>>
vars   == <<posted, expired, store, memory, past>>

Msgs == 1..MaxMsg
Pipelines == Workers \cup Calls    \* where a message can be in processing

LoopStates == {"none", "getCheckpoint", "reading", "batch", "setCheckpoint",
               "streaming", "retrying", "auth_paused", "auth_expired"}

WorkerState ==
  [loop: LoopStates, token: Tokens \cup {None}, request: Tokens \cup {None},
   cursor: 0..MaxMsg, upto: 0..MaxMsg, more: BOOLEAN, catchUp: BOOLEAN]

CallState ==
  [owner: Workers \cup {None}, state: {"open", "cancelled", "closed"},
   token: Tokens \cup {None}, sent: 0..MaxMsg, taken: 0..MaxMsg,
   ended: BOOLEAN]

NoWorker == [loop |-> "none", token |-> None, request |-> None,
             cursor |-> 0, upto |-> 0, more |-> FALSE, catchUp |-> FALSE]
NoCall   == [owner |-> None, state |-> "closed", token |-> None,
             sent |-> 0, taken |-> 0, ended |-> FALSE]
Idle     == [stage |-> "idle", msg |-> 0, todo |-> {}, device |-> None]

BusyState ==
  [stage: {"getDevices", "sending", "removeStale", "refreshMetric", "checkMailbox"},
   msg: Msgs, todo: SUBSET Devices, device: Devices \cup {None}]

JobState == {Idle} \cup BusyState

(***************************************************************************)
(* Type correctness.                                                       *)
(***************************************************************************)
TypeOK ==
  /\ posted \in 0..MaxMsg
  /\ expired \subseteq Tokens
  /\ reg \in Tokens \cup {None}
  /\ devices \subseteq Devices
  /\ ckpt \in 0..MaxMsg \cup {None}
  /\ current \in Workers \cup {None}
  /\ worker \in [Workers -> WorkerState]
  /\ call \in [Calls -> CallState]
  /\ job \in [Pipelines -> JobState]
  /\ stopChecks \in 0..MaxStopChecks
  /\ handled \subseteq Msgs
  /\ skipped \subseteq Msgs
  /\ pushes \in [Msgs \X Devices -> 0..2]
  /\ interrupted \subseteq Msgs

-----------------------------------------------------------------------------
(* Helpers: the loop of a worker *)

\* WorkerManager.stopWorker() stops a worker and removes it from the map, and
\* nothing else does either, so a worker is stopped when it is not the entry.
Stopped(w) == current # w

\* isExpired(this._authExpiresAt): the expiry is null when it is not readable.
SeenExpired(t) == t \in expired \ OpaqueTokens

Sleeping(w) == worker[w].loop \in {"retrying", "auth_paused", "auth_expired"}

\* The top of `while (!this._stopped)` for a worker that is not stopped.
LoopTop(t) ==
  [NoWorker EXCEPT !.token = t,
                   !.loop = IF SeenExpired(t) THEN "auth_expired"
                                              ELSE "getCheckpoint"]

\* The end of a loop iteration: a stopped worker leaves the loop.
LoopEnd(w, next, request) ==
  IF Stopped(w) THEN NoWorker
  ELSE [NoWorker EXCEPT !.loop = next, !.token = worker[w].token,
                        !.request = request]

Retry(w)     == LoopEnd(w, "retrying", None)
AuthPause(w, t) == LoopEnd(w, "auth_paused", t)

FreeWorker(w) ==
  /\ worker[w] = NoWorker
  /\ \A k \in Calls : call[k].owner # w

-----------------------------------------------------------------------------
(* Helpers: stopping a worker *)

\* this._sleepResolve() lets a sleeping loop run to its end at once.
WokenToStop(w) == IF Sleeping(w) THEN [worker EXCEPT ![w] = NoWorker] ELSE worker

\* this._currentCall.cancel(): the call the worker is streaming from, if any.
Cancelled(w) ==
  [k \in Calls |-> IF call[k].owner = w /\ call[k].state = "open"
                   THEN [call[k] EXCEPT !.state = "cancelled"] ELSE call[k]]

StopWorker ==
  IF current = None
  THEN UNCHANGED <<current, worker, call>>
  ELSE /\ current' = None
       /\ worker' = WokenToStop(current)
       /\ call' = Cancelled(current)

-----------------------------------------------------------------------------
(* Helpers: a message in processing *)

Owner(p) == IF p \in Workers THEN p ELSE call[p].owner

\* _processMessage(): an unsupported message is recorded without any send.
Begin(m) ==
  [stage |-> IF m \in Unsupported THEN "sending" ELSE "getDevices",
   msg |-> m, todo |-> {}, device |-> None]

Busy(p) == job[p].stage # "idle"

\* The message a pipeline is processing, if any, and those a call has buffered.
Processing(p) == IF Busy(p) THEN {job[p].msg} ELSE {}
InFlight(k)   == Processing(k) \cup (call[k].taken + 1)..call[k].sent

\* A call that is over is gone once its buffer is drained and no handler runs.
Settle(c, busy) ==
  IF c.state = "closed" /\ c.taken = c.sent /\ ~busy THEN NoCall ELSE c

-----------------------------------------------------------------------------
(* Helpers: the parts of _backfill() that run without an await between them *)

\* A ReadMailbox request is on its way.
Reading(w, checkpoint, catchUp) ==
  [loop |-> "reading", token |-> worker[w].token, request |-> worker[w].token,
   cursor |-> checkpoint, upto |-> 0, more |-> FALSE, catchUp |-> catchUp]

\* The messages up to upto are there, and their processing has begun.
InBatch(w, upto, more) ==
  [loop |-> "batch", token |-> worker[w].token, request |-> None,
   cursor |-> worker[w].cursor, upto |-> upto, more |-> more, catchUp |-> FALSE]

\* subscribeMailbox(client, this._makeRequest(checkpoint)), stopped or not.
OpenStream(w, checkpoint) ==
  \E k \in Calls :
    /\ call[k] = NoCall
    /\ call' = [call EXCEPT ![k] =
                  [NoCall EXCEPT !.owner = w, !.state = "open",
                                 !.token = worker[w].token,
                                 !.sent = checkpoint, !.taken = checkpoint]]
    /\ worker' = [worker EXCEPT ![w] =
                    [NoWorker EXCEPT !.loop = "streaming",
                                     !.token = worker[w].token]]

\* After the last message of a response: the next page, or the end.
NextPage(w, checkpoint, more, catchUp) ==
  \/ /\ more
     /\ worker' = [worker EXCEPT ![w] = Reading(w, checkpoint, catchUp)]
     /\ UNCHANGED call
  \/ /\ ~more /\ catchUp
     /\ worker' = [worker EXCEPT ![w] =
                    [@ EXCEPT !.loop = "setCheckpoint", !.request = None,
                              !.cursor = checkpoint]]
     /\ UNCHANGED call
  \/ /\ ~more /\ ~catchUp
     /\ OpenStream(w, checkpoint)

-----------------------------------------------------------------------------
(* The Ark server and the passing of time *)

Post ==
  /\ posted < MaxMsg
  /\ posted' = posted + 1
  /\ UNCHANGED <<expired, store, memory, past>>

Expire(t) ==
  /\ "expire" \in Faults
  /\ t \notin expired
  /\ expired' = expired \cup {t}
  /\ UNCHANGED <<posted, store, memory, past>>

-----------------------------------------------------------------------------
(* Registrations *)

\* registerDevice(): a new device beyond MaxDevices replaces older ones.
KeptWith(d) ==
  IF d \in devices \/ MaxDevices = 0 \/ Cardinality(devices) < MaxDevices
  THEN {devices \cup {d}}
  ELSE {keep \cup {d} : keep \in kSubset(MaxDevices - 1, devices)}

\* Mutant: the worker that runs already is left as it is.
RegisterOnlyStarts(d, t) ==
  /\ t \notin expired \ LateTokens
  /\ reg' = t
  /\ devices' \in KeptWith(d)
  /\ IF current = None
     THEN \E w \in Workers : /\ FreeWorker(w) /\ current' = w
                              /\ worker' = [worker EXCEPT ![w] = LoopTop(t)]
     ELSE UNCHANGED <<current, worker>>
  /\ UNCHANGED <<posted, expired, ckpt, call, job, stopChecks, past>>

\* Mutant: refreshAuth() replaces the token without waking the worker.
RegisterWithoutWake(d, t) ==
  /\ t \notin expired \ LateTokens
  /\ reg' = t
  /\ devices' \in KeptWith(d)
  /\ IF current = None
     THEN \E w \in Workers : /\ FreeWorker(w) /\ current' = w
                              /\ worker' = [worker EXCEPT ![w] = LoopTop(t)]
     ELSE worker' = [worker EXCEPT ![current].token = t] /\ UNCHANGED current
  /\ UNCHANGED <<posted, expired, ckpt, call, job, stopChecks, past>>

\* POST /v1/register, from the commit of its transaction to ensureWorker().  The
\* expiry was checked when the request arrived: the token may have expired since.
Register(d, t) ==
  /\ t \notin expired \ LateTokens
  /\ reg' = t
  /\ devices' \in KeptWith(d)
  /\ IF current = None
     THEN \E w \in Workers :                                \* _startWorker()
            /\ FreeWorker(w)
            /\ current' = w
            /\ worker' = [worker EXCEPT ![w] = LoopTop(t)]
     ELSE /\ worker' = [worker EXCEPT ![current] =           \* refreshAuth()
                          IF Sleeping(current) THEN LoopTop(t)
                          ELSE [worker[current] EXCEPT !.token = t]]
          /\ UNCHANGED current
  /\ UNCHANGED <<posted, expired, ckpt, call, job, stopChecks, past>>

\* unregisterDevice(): the last device takes everything else along.
UnregisterDevice(d) ==
  /\ devices' = devices \ {d}
  /\ IF devices' = {}
     THEN reg' = None /\ ckpt' = None
     ELSE UNCHANGED <<reg, ckpt>>

\* DELETE /v1/register, or an auth wake to an uninstalled device: the commit.
Unregister(d) ==
  /\ "unregister" \in Faults
  /\ stopChecks < MaxStopChecks
  /\ UnregisterDevice(d)
  /\ stopChecks' = stopChecks + 1
  /\ UNCHANGED <<posted, expired, current, worker, call, job, past>>

\* The same handlers after the commit: count the devices, stop the worker.
StopIfUnused ==
  /\ stopChecks > 0
  /\ stopChecks' = stopChecks - 1
  /\ IF devices = {} THEN StopWorker ELSE UNCHANGED <<current, worker, call>>
  /\ UNCHANGED <<posted, expired, store, job, past>>

\* RetentionJob.run(): deleteMailbox() of a mailbox whose authorization is
\* still the one found expired, then stopWorker().
Retain ==
  /\ SeenExpired(reg)
  /\ reg' = None /\ ckpt' = None /\ devices' = {}
  /\ StopWorker
  /\ UNCHANGED <<posted, expired, job, stopChecks, past>>

-----------------------------------------------------------------------------
(* MailboxWorker._loop() and _backfill() *)

\* Mutant: get() instead of getCheckpoint(), so a missing row reads as 0.
GetCheckpointOrZero(w) ==
  /\ worker[w].loop = "getCheckpoint"
  /\ worker' = [worker EXCEPT ![w] = Reading(w, 0, FALSE)]
  /\ UNCHANGED <<posted, expired, store, current, call, job, stopChecks, past>>

\* Mutant: every backfill is a catch-up.
CatchUpAlways(w) ==
  /\ worker[w].loop = "getCheckpoint"
  /\ worker' = [worker EXCEPT ![w] = Reading(w, 0, TRUE)]
  /\ UNCHANGED <<posted, expired, store, current, call, job, stopChecks, past>>

\* getCheckpoint(): a missing row makes this backfill a silent catch-up.
GetCheckpoint(w) ==
  /\ worker[w].loop = "getCheckpoint"
  /\ worker' = [worker EXCEPT ![w] = IF ckpt = None THEN Reading(w, 0, TRUE)
                                                   ELSE Reading(w, ckpt, FALSE)]
  /\ UNCHANGED <<posted, expired, store, current, call, job, stopChecks, past>>

\* The response to ReadMailbox, and its first message unless it is skipped.
ReadOk(w) ==
  LET cursor  == worker[w].cursor
      catchUp == worker[w].catchUp
      upto    == Min({cursor + Batch, posted})
      more    == upto < posted
  IN /\ worker[w].loop = "reading"
     /\ worker[w].request \notin expired
     /\ \/ /\ catchUp \/ upto <= cursor
           /\ NextPage(w, upto, more, catchUp)
           /\ UNCHANGED job
        \/ /\ ~catchUp /\ upto > cursor
           /\ worker' = [worker EXCEPT ![w] = InBatch(w, upto, more)]
           /\ job' = [job EXCEPT ![w] = Begin(cursor + 1)]
           /\ UNCHANGED call
     /\ UNCHANGED <<posted, expired, store, current, stopChecks, past>>

\* ReadMailbox failed for another reason than the authorization.
ReadFail(w) ==
  /\ "read_fail" \in Faults
  /\ worker[w].loop = "reading"
  /\ worker' = [worker EXCEPT ![w] = Retry(w)]
  /\ UNCHANGED <<posted, expired, store, current, call, job, stopChecks, past>>

\* The Ark server rejects the authorization the request was sent with.
ReadReject(w) ==
  /\ worker[w].loop = "reading"
  /\ worker[w].request \in expired
  /\ worker' = [worker EXCEPT ![w] = AuthPause(w, worker[w].request)]
  /\ UNCHANGED <<posted, expired, store, current, call, job, stopChecks, past>>

\* Mutant: the end of the catch-up is not stored.
CatchUpUnstored(w) ==
  /\ worker[w].loop = "setCheckpoint"
  /\ skipped' = skipped \cup 1..worker[w].cursor
  /\ OpenStream(w, worker[w].cursor)
  /\ UNCHANGED <<posted, expired, store, current, job, stopChecks,
                 handled, pushes, interrupted>>

\* The end of a catch-up: the checkpoint is stored if the mailbox still is.
SetCheckpoint(w) ==
  /\ worker[w].loop = "setCheckpoint"
  /\ ckpt' = IF reg = None THEN ckpt ELSE worker[w].cursor
  /\ skipped' = skipped \cup 1..worker[w].cursor
  /\ OpenStream(w, worker[w].cursor)
  /\ UNCHANGED <<posted, expired, reg, devices, current, job, stopChecks,
                 handled, pushes, interrupted>>

\* A database error of the loop's own statements fails the iteration.
LoopDbError(w) ==
  /\ "db_error" \in Faults
  /\ worker[w].loop \in {"getCheckpoint", "setCheckpoint"}
  /\ worker' = [worker EXCEPT ![w] = Retry(w)]
  /\ UNCHANGED <<posted, expired, store, current, call, job, stopChecks, past>>

\* Mutant: only the long pause has a timer.
WakeUpFromPause(w) ==
  /\ worker[w].loop = "auth_paused"
  /\ worker' = [worker EXCEPT ![w] = LoopTop(worker[w].token)]
  /\ UNCHANGED <<posted, expired, store, current, call, job, stopChecks, past>>

\* The retry timer of _sleep(ms).
WakeUp(w) ==
  /\ worker[w].loop \in {"retrying", "auth_paused"}
  /\ worker' = [worker EXCEPT ![w] = LoopTop(worker[w].token)]
  /\ UNCHANGED <<posted, expired, store, current, call, job, stopChecks, past>>

-----------------------------------------------------------------------------
(* MailboxWorker._subscribe() *)

\* The call is over and the loop of its owner resumes, while the handler goes
\* on with what was in flight.
FinishCall(k, state) ==
  /\ worker' = [worker EXCEPT ![call[k].owner] = state]
  /\ call' = [call EXCEPT ![k] =
                 Settle([call[k] EXCEPT !.state = "closed"], Busy(k))]
  /\ interrupted' = interrupted \cup InFlight(k)
  /\ UNCHANGED <<posted, expired, store, current, job, stopChecks,
                 handled, skipped, pushes>>

\* The server's next message reaches the buffer of an open call.
Deliver(k) ==
  /\ call[k].state = "open" /\ ~call[k].ended
  /\ call[k].sent < posted
  /\ call[k].sent - call[k].taken < HighWater
  /\ call' = [call EXCEPT ![k].sent = @ + 1]
  /\ UNCHANGED <<posted, expired, store, current, worker, job, stopChecks, past>>

\* The server ends the call in good order behind what it has sent.
ServerEnds(k) ==
  /\ "stream_end" \in Faults
  /\ call[k].state = "open" /\ ~call[k].ended
  /\ call' = [call EXCEPT ![k].ended = TRUE]
  /\ UNCHANGED <<posted, expired, store, current, worker, job, stopChecks, past>>

\* 'data': pause, and process the message.  A stream that has ended emits 'end'
\* as soon as its last message is read, whatever becomes of that message.
Data(k) ==
  LET last == call[k].ended /\ call[k].taken + 1 = call[k].sent
              /\ call[k].state # "closed"
      c    == [call[k] EXCEPT !.taken = @ + 1]
      w    == call[k].owner
  IN /\ call[k].taken < call[k].sent
     /\ ~Busy(k)
     /\ job' = [job EXCEPT ![k] = Begin(c.taken)]
     /\ call' = [call EXCEPT ![k] =
                   IF last THEN [c EXCEPT !.state = "closed"] ELSE c]
     /\ worker' = IF last THEN [worker EXCEPT ![w] = Retry(w)] ELSE worker
     /\ interrupted' = IF last THEN interrupted \cup {c.taken} ELSE interrupted
     /\ UNCHANGED <<posted, expired, store, current, stopChecks,
                    handled, skipped, pushes>>

\* 'end' once everything is read and no handler keeps the stream paused.
CallEnd(k) ==
  /\ call[k].state # "closed" /\ call[k].ended
  /\ call[k].taken = call[k].sent
  /\ ~Busy(k)
  /\ FinishCall(k, Retry(call[k].owner))

\* Mutant: the worker reconnects while the call goes on.
CallErrorIgnored(k) ==
  /\ "stream_error" \in Faults
  /\ call[k].state = "open"
  /\ worker' = [worker EXCEPT ![call[k].owner] = Retry(call[k].owner)]
  /\ UNCHANGED <<posted, expired, store, current, call, job, stopChecks, past>>

\* 'error', while messages may be buffered and one in processing.
CallError(k) ==
  /\ "stream_error" \in Faults
  /\ call[k].state = "open" /\ ~call[k].ended
  /\ FinishCall(k, Retry(call[k].owner))

\* 'error': the server no longer accepts the authorization of the call.
CallReject(k) ==
  /\ call[k].state = "open" /\ ~call[k].ended
  /\ call[k].token \in expired
  /\ FinishCall(k, AuthPause(call[k].owner, call[k].token))

\* 'error' of a call that stop() cancelled.
CallCancelled(k) ==
  /\ call[k].state = "cancelled" /\ ~call[k].ended
  /\ FinishCall(k, NoWorker)

-----------------------------------------------------------------------------
(* processMailboxMessage(), for pipeline p *)

\* Mutant: the checkpoint is advanced before the sends.
RecordBeforeSending(p) ==
  /\ job[p].stage = "getDevices"
  /\ job' = [job EXCEPT ![p] =
              [@ EXCEPT !.stage = "sending", !.todo = devices]]
  /\ ckpt' = IF reg = None THEN ckpt ELSE job[p].msg
  /\ UNCHANGED <<posted, expired, reg, devices, current, worker, call,
                 stopChecks, past>>

\* The recipients, as they are now.
GetDevices(p) ==
  /\ job[p].stage = "getDevices"
  /\ job' = [job EXCEPT ![p] =
              [@ EXCEPT !.stage = "sending", !.todo = devices]]
  /\ UNCHANGED <<posted, expired, store, current, worker, call, stopChecks, past>>

\* APNs accepts the notification for the next recipient.
PushOk(p, d) ==
  /\ job[p].stage = "sending" /\ d \in job[p].todo
  /\ job' = [job EXCEPT ![p].todo = @ \ {d}]
  /\ pushes' = [pushes EXCEPT ![<<job[p].msg, d>>] = Min({@ + 1, 2})]
  /\ UNCHANGED <<posted, expired, store, current, worker, call, stopChecks,
                 handled, skipped, interrupted>>

\* A send that fails is counted and not tried again.
PushFail(p, d) ==
  /\ "push_fail" \in Faults
  /\ job[p].stage = "sending" /\ d \in job[p].todo
  /\ job' = [job EXCEPT ![p].todo = @ \ {d}]
  /\ UNCHANGED <<posted, expired, store, current, worker, call, stopChecks, past>>

\* APNs reports the device token as no longer valid.
PushStale(p, d) ==
  /\ "stale" \in Faults
  /\ job[p].stage = "sending" /\ d \in job[p].todo
  /\ job' = [job EXCEPT ![p] =
              [@ EXCEPT !.stage = "removeStale", !.device = d,
                        !.todo = job[p].todo \ {d}]]
  /\ UNCHANGED <<posted, expired, store, current, worker, call, stopChecks, past>>

RemoveStale(p) ==
  /\ job[p].stage = "removeStale"
  /\ UnregisterDevice(job[p].device)
  /\ job' = [job EXCEPT ![p] =
              [@ EXCEPT !.stage = "refreshMetric", !.device = None]]
  /\ UNCHANGED <<posted, expired, current, worker, call, stopChecks, past>>

\* refreshRegistrationMetric(), before the next recipient.
RefreshMetric(p) ==
  /\ job[p].stage = "refreshMetric"
  /\ job' = [job EXCEPT ![p].stage = "sending"]
  /\ UNCHANGED <<posted, expired, store, current, worker, call, stopChecks, past>>

\* Mutant: the checkpoint stored is the one to read next.
RecordNext(p) ==
  /\ job[p].stage = "sending" /\ job[p].todo = {}
  /\ ckpt' = IF reg = None THEN ckpt ELSE job[p].msg + 1
  /\ handled' = handled \cup {job[p].msg}
  /\ job' = [job EXCEPT ![p].stage = "checkMailbox"]
  /\ UNCHANGED <<posted, expired, reg, devices, current, worker, call,
                 stopChecks, skipped, pushes, interrupted>>

\* Mutant: a backfill does not advance the stored checkpoint as it goes.
RecordInStream(p) ==
  /\ job[p].stage = "sending" /\ job[p].todo = {}
  /\ ckpt' = IF reg = None \/ p \in Workers THEN ckpt ELSE job[p].msg
  /\ handled' = handled \cup {job[p].msg}
  /\ job' = [job EXCEPT ![p].stage = "checkMailbox"]
  /\ UNCHANGED <<posted, expired, reg, devices, current, worker, call,
                 stopChecks, skipped, pushes, interrupted>>

\* Mutant: the checkpoint is written whether the mailbox is registered or not.
RecordAnyway(p) ==
  /\ job[p].stage = "sending" /\ job[p].todo = {}
  /\ ckpt' = job[p].msg
  /\ handled' = handled \cup {job[p].msg}
  /\ job' = [job EXCEPT ![p].stage = "checkMailbox"]
  /\ UNCHANGED <<posted, expired, reg, devices, current, worker, call,
                 stopChecks, skipped, pushes, interrupted>>

\* recordMailboxMessage(), dropped when the mailbox is no longer registered.
Record(p) ==
  /\ job[p].stage = "sending" /\ job[p].todo = {}
  /\ ckpt' = IF reg = None THEN ckpt ELSE job[p].msg
  /\ handled' = handled \cup {job[p].msg}
  /\ job' = [job EXCEPT ![p].stage = "checkMailbox"]
  /\ UNCHANGED <<posted, expired, reg, devices, current, worker, call,
                 stopChecks, skipped, pushes, interrupted>>

\* getMailbox(), _onUnregistered() when it is gone, and, in a backfill, the
\* next message or page.
CheckMailboxInBatch(w) ==
  LET cursor == worker[w].cursor + 1
  IN /\ job[w].stage = "checkMailbox"
     /\ current' = IF reg = None /\ current = w THEN None ELSE current
     /\ \/ /\ cursor < worker[w].upto
           /\ worker' = [worker EXCEPT ![w].cursor = cursor]
           /\ job' = [job EXCEPT ![w] = Begin(cursor + 1)]
           /\ UNCHANGED call
        \/ /\ cursor = worker[w].upto
           /\ job' = [job EXCEPT ![w] = Idle]
           /\ NextPage(w, cursor, worker[w].more, FALSE)
     /\ UNCHANGED <<posted, expired, store, stopChecks, past>>

\* The same in a data handler, which then resumes the stream.
CheckMailboxInStream(k) ==
  /\ job[k].stage = "checkMailbox"
  /\ job' = [job EXCEPT ![k] = Idle]
  /\ LET w == call[k].owner
     IN IF reg = None /\ current = w
        THEN /\ current' = None
             /\ worker' = WokenToStop(w)
             /\ call' = [Cancelled(w) EXCEPT ![k] = Settle(@, FALSE)]
        ELSE /\ call' = [call EXCEPT ![k] = Settle(@, FALSE)]
             /\ UNCHANGED <<current, worker>>
  /\ UNCHANGED <<posted, expired, store, stopChecks, past>>

\* A statement fails, and the recipients that are left get nothing.  A message
\* whose every send was tried is handled nevertheless.
AbandonMessage(p) ==
  /\ \/ job[p].stage \in {"getDevices", "removeStale", "refreshMetric", "checkMailbox"}
     \/ job[p].stage = "sending" /\ job[p].todo = {}
  /\ handled' = IF job[p].stage # "getDevices" /\ job[p].todo = {}
                THEN handled \cup {job[p].msg} ELSE handled
  /\ interrupted' = interrupted \cup {job[p].msg}
  /\ job' = [job EXCEPT ![p] = Idle]
  /\ UNCHANGED <<posted, expired, store, current, stopChecks, skipped, pushes>>

\* A database error fails the loop iteration of a backfill ...
DbErrorInBatch(w) ==
  /\ "db_error" \in Faults
  /\ AbandonMessage(w)
  /\ worker' = [worker EXCEPT ![w] = Retry(w)]
  /\ UNCHANGED call

\* ... and is logged by a data handler, which goes on with the next message.
DbErrorInStream(k) ==
  /\ "handler_error" \in Faults
  /\ AbandonMessage(k)
  /\ call' = [call EXCEPT ![k] = Settle(@, FALSE)]
  /\ UNCHANGED worker

-----------------------------------------------------------------------------
(* The process dies and starts again: WorkerManager.startAll(). *)
Restart ==
  /\ "crash" \in Faults
  /\ call' = [k \in Calls |-> NoCall]
  /\ job' = [p \in Pipelines |-> Idle]
  /\ stopChecks' = 0
  /\ IF reg # None /\ devices # {}
     THEN \E w \in Workers :
            /\ current' = w
            /\ worker' = [v \in Workers |-> IF v = w THEN LoopTop(reg) ELSE NoWorker]
     ELSE /\ current' = None
          /\ worker' = [v \in Workers |-> NoWorker]
  /\ interrupted' = interrupted \cup UNION {Processing(p) : p \in Pipelines}
  /\ UNCHANGED <<posted, expired, store, handled, skipped, pushes>>

Init ==
  /\ posted \in 0..MaxMsg
  /\ expired = {}
  /\ reg = None /\ devices = {} /\ ckpt = None
  /\ current = None
  /\ worker = [w \in Workers |-> NoWorker]
  /\ call = [k \in Calls |-> NoCall]
  /\ job = [p \in Pipelines |-> Idle]
  /\ stopChecks = 0
  /\ handled = {} /\ skipped = {}
  /\ pushes = [x \in Msgs \X Devices |-> 0]
  /\ interrupted = {}

LoopStep(w) ==
  \/ GetCheckpoint(w) \/ ReadOk(w) \/ ReadFail(w) \/ ReadReject(w)
  \/ SetCheckpoint(w) \/ LoopDbError(w) \/ WakeUp(w)
  \/ CheckMailboxInBatch(w) \/ DbErrorInBatch(w)

CallStep(k) ==
  \/ Deliver(k) \/ ServerEnds(k) \/ Data(k) \/ CallEnd(k)
  \/ CallError(k) \/ CallReject(k) \/ CallCancelled(k)
  \/ CheckMailboxInStream(k) \/ DbErrorInStream(k)

MessageStep(p) ==
  \/ GetDevices(p) \/ RemoveStale(p) \/ RefreshMetric(p) \/ Record(p)
  \/ \E d \in Devices : PushOk(p, d) \/ PushFail(p, d) \/ PushStale(p, d)

Next ==
  \/ Post
  \/ \E t \in Tokens : Expire(t)
  \/ \E d \in Devices, t \in Tokens : Register(d, t)
  \/ \E d \in Devices : Unregister(d)
  \/ StopIfUnused
  \/ Retain
  \/ Restart
  \/ \E w \in Workers : LoopStep(w)
  \/ \E k \in Calls : CallStep(k)
  \/ \E p \in Pipelines : MessageStep(p)

Spec == Init /\ [][Next]_vars

-----------------------------------------------------------------------------
(* Safety *)

Covered(n) == 1..n \subseteq handled \cup skipped

(***************************************************************************)
(* The stored checkpoint never runs ahead of the work: every message up to *)
(* it was sent to its recipients, or belongs to the history a catch-up     *)
(* passes over.  It is what a restart resumes from, so a message beyond    *)
(* this would be lost without a trace (index.js:682, README "Checkpoint is *)
(* persisted after message processing").                                   *)
(***************************************************************************)
CheckpointCoversHandled == ckpt # None => Covered(ckpt)

(***************************************************************************)
(* A registered mailbox always has a worker, and that worker holds the     *)
(* authorization of its latest registration whatever it was doing when the *)
(* registration arrived (ensureWorker() and refreshAuth()).                *)
(***************************************************************************)
WorkerHoldsLatestToken ==
  reg # None => current # None /\ worker[current].token = reg

(***************************************************************************)
(* A worker idles without a timer only while the authorization in the      *)
(* database is one it sees expired: a fresh one always wakes it.           *)
(***************************************************************************)
FreshTokenNeverIdle ==
  reg # None /\ current # None /\ worker[current].loop = "auth_expired"
    => SeenExpired(reg)

(***************************************************************************)
(* Deleting a mailbox leaves no row of it behind, and nothing that was in  *)
(* flight at that moment brings one back (checkpoint-store.js:481).        *)
(***************************************************************************)
NoLeftovers ==
  /\ reg = None <=> devices = {}
  /\ reg = None => ckpt = None

(***************************************************************************)
(* The worker of a mailbox that is gone is about to be stopped: by an      *)
(* unregister handler, or by the message that found its last device stale. *)
(***************************************************************************)
WorkerOfDeletedMailboxStops ==
  current # None /\ reg = None =>
    \/ stopChecks > 0
    \/ \E p \in Pipelines :
         /\ Owner(p) = current
         /\ job[p].stage \in {"sending", "refreshMetric", "checkMailbox"}

(***************************************************************************)
(* One subscription per mailbox (README: "one subscription worker per      *)
(* mailbox"): never two calls the server is sending the messages to.       *)
(***************************************************************************)
OneSubscription ==
  \A j, k \in Calls : call[j].state = "open" /\ call[k].state = "open" => j = k

(***************************************************************************)
(* A worker leaves a call only when it is over: through errors, ends and   *)
(* retries it never holds two, each pushing what the server sends (the     *)
(* settled promise of _subscribe(), index.js:940).                         *)
(***************************************************************************)
OneCallPerWorker ==
  \A j, k \in Calls :
    /\ call[j].state # "closed" /\ call[k].state # "closed"
    /\ call[j].owner = call[k].owner
    => j = k

(***************************************************************************)
(* The checkpoint is advanced "to avoid repeated delivery attempts for the *)
(* same message" (index.js:682).  A device is notified twice only because  *)
(* a message was in flight when its call or the process died, or because   *)
(* a database error cut its handling short: of that message, or of later   *)
(* ones that a checkpoint recorded late makes the next backfill read       *)
(* again.                                                                  *)
(*                                                                         *)
(* This and the three properties that follow speak of one registration of  *)
(* the mailbox: a worker left over from an earlier one breaks them.        *)
(***************************************************************************)
RepeatsOnlyInterrupted ==
  \A x \in Msgs \X Devices : pushes[x] = 2 => \E i \in interrupted : i <= x[1]

(***************************************************************************)
(* The checkpoint of a mailbox moves back only on the same grounds, never  *)
(* behind the earliest message in flight at such a moment.                 *)
(***************************************************************************)
RewindsOnlyToInterrupted ==
  [][ckpt # None /\ ckpt' # None /\ ckpt' < ckpt
       => \E i \in interrupted : i <= ckpt']_vars

(***************************************************************************)
(* History is silent: no message that a catch-up passed over is ever       *)
(* pushed, before or after (README "caught up silently").                  *)
(***************************************************************************)
HistoryIsSilent ==
  \A x \in Msgs \X Devices : pushes[x] > 0 => x[1] \notin skipped

(***************************************************************************)
(* Only history is skipped: once a mailbox has a checkpoint, no catch-up   *)
(* passes over a message beyond it (index.js:895).                         *)
(***************************************************************************)
OnlyHistorySkipped ==
  [][ckpt # None => skipped' \subseteq skipped \cup 1..ckpt]_vars

(***************************************************************************)
(* A worker waits out the long AUTH_RETRY_MS only with a token the server  *)
(* rejected (README: a fresh registration "wakes the worker immediately    *)
(* regardless of this delay").                                             *)
(***************************************************************************)
PausedTokenWasRejected ==
  \A w \in Workers :
    worker[w].loop = "auth_paused" => worker[w].request = worker[w].token

-----------------------------------------------------------------------------
(* Liveness *)

(***************************************************************************)
(* The event loop runs every continuation whose await is over (WF).  The   *)
(* Ark server answers each page that keeps being asked for and sends on    *)
(* calls that keep being opened, even if some of them fail (SF).           *)
(***************************************************************************)
Fairness ==
  /\ WF_vars(StopIfUnused)
  /\ \A w \in Workers :
       /\ WF_vars(GetCheckpoint(w)) /\ WF_vars(ReadReject(w))
       /\ WF_vars(SetCheckpoint(w)) /\ WF_vars(WakeUp(w))
       /\ WF_vars(CheckMailboxInBatch(w))
       /\ \A n \in 0..MaxMsg : SF_vars(worker[w].cursor = n /\ ReadOk(w))
  /\ \A k \in Calls :
       /\ WF_vars(Data(k)) /\ WF_vars(CallEnd(k)) /\ WF_vars(CallCancelled(k))
       /\ WF_vars(CheckMailboxInStream(k))
       /\ SF_vars(Deliver(k))
  /\ \A p \in Pipelines : WF_vars(MessageStep(p))

FairSpec == Spec /\ Fairness

(***************************************************************************)
(* Every message of a registered mailbox is eventually handled or skipped, *)
(* over reads that fail, calls that break and calls the server ends,       *)
(* unless the mailbox is deleted or its authorization expires.  Not over a *)
(* database error in a data handler, which gives its message up for good   *)
(* (CheckpointCoversHandled fails with it, too).                           *)
(***************************************************************************)
Delivered ==
  \A m \in Msgs :
    m <= posted /\ reg # None
      ~> m \in handled \cup skipped \/ reg = None \/ reg \in expired
=============================================================================
