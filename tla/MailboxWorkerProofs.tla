------------------------ MODULE MailboxWorkerProofs ------------------------
(***************************************************************************)
(* Proofs about MailboxWorker, for every value of its constants.           *)
(***************************************************************************)
EXTENDS MailboxWorker, TLAPS

-----------------------------------------------------------------------------
(* Facts about the helpers *)

\* The minimum of two numbers, which ReadMailbox's page end is.
LEMMA MinOfTwo ==
  ASSUME NEW a \in Nat, NEW b \in Nat
  PROVE  /\ Min({a, b}) \in Nat
         /\ Min({a, b}) <= a /\ Min({a, b}) <= b
         /\ Min({a, b}) = a \/ Min({a, b}) = b
<1> DEFINE P(x) == x \in {a, b} /\ \A y \in {a, b} : x <= y
<1>1. \E x : P(x)
  <2>1. CASE a <= b
    BY <2>1
  <2>2. CASE b <= a
    BY <2>2
  <2> QED BY <2>1, <2>2
<1>2. P(CHOOSE x : P(x))
  BY <1>1
<1>3. Min({a, b}) = CHOOSE x \in {a, b} : \A y \in {a, b} : x <= y
  BY DEF Min
<1> QED BY <1>2, <1>3

\* A worker that is gone, and the states the loop restarts and ends in.
LEMMA LoopStatesTyped ==
  /\ NoWorker \in WorkerState
  /\ \A t \in Tokens \cup {None} : LoopTop(t) \in WorkerState
  /\ \A w \in Workers, t \in Tokens \cup {None} :
       worker[w] \in WorkerState
         => /\ LoopEnd(w, "retrying", t) \in WorkerState
            /\ LoopEnd(w, "auth_paused", t) \in WorkerState
<1> USE NumbersAssumption
<1>1. NoWorker \in WorkerState
  BY DEF NoWorker, WorkerState, LoopStates
<1>2. ASSUME NEW t \in Tokens \cup {None}
      PROVE  LoopTop(t) \in WorkerState
  BY <1>1 DEF LoopTop, NoWorker, WorkerState, LoopStates
<1>3. ASSUME NEW w \in Workers, NEW t \in Tokens \cup {None},
             worker[w] \in WorkerState
      PROVE  /\ LoopEnd(w, "retrying", t) \in WorkerState
             /\ LoopEnd(w, "auth_paused", t) \in WorkerState
  BY <1>1, <1>3 DEF LoopEnd, NoWorker, WorkerState, LoopStates
<1> QED BY <1>1, <1>2, <1>3

\* A call that is gone, and one that may have just ended.
LEMMA CallsTyped ==
  /\ NoCall \in CallState
  /\ \A c \in CallState, busy \in BOOLEAN : Settle(c, busy) \in CallState
  /\ \A w : call \in [Calls -> CallState] => Cancelled(w) \in [Calls -> CallState]
<1> USE NumbersAssumption
<1>1. NoCall \in CallState
  BY DEF NoCall, CallState
<1>2. ASSUME NEW w, call \in [Calls -> CallState]
      PROVE  Cancelled(w) \in [Calls -> CallState]
  <2>1. ASSUME NEW k \in Calls
        PROVE  [call[k] EXCEPT !.state = "cancelled"] \in CallState
    BY <1>2 DEF CallState
  <2> QED BY <1>2, <2>1 DEF Cancelled
<1> QED BY <1>1, <1>2 DEF Settle

\* A message that starts to be processed, and a pipeline that processes one.
LEMMA JobsTyped ==
  /\ Idle \in JobState /\ BusyState \subseteq JobState
  /\ \A m \in Msgs : Begin(m) \in JobState /\ Begin(m).msg = m
                     /\ Begin(m).stage \in {"getDevices", "sending"}
  /\ \A j \in JobState : j.stage # "idle" => j \in BusyState /\ j.msg \in Msgs
BY DEF Idle, JobState, BusyState, Begin

\* Registering a device keeps the recipients a set of devices, with the new one.
LEMMA KeptWithTyped ==
  ASSUME devices \subseteq Devices, NEW d \in Devices, NEW S \in KeptWith(d)
  PROVE  S \subseteq Devices /\ d \in S
BY DEF KeptWith, kSubset
-----------------------------------------------------------------------------
(* Type correctness *)

\* The two ways a page ends in a call or another request keep the types.
LEMMA NextPageTyped ==
  ASSUME TypeOK, NEW w \in Workers, NEW n \in 0..MaxMsg,
         NEW more \in BOOLEAN, NEW catchUp \in BOOLEAN,
         NextPage(w, n, more, catchUp) \/ OpenStream(w, n)
  PROVE  worker' \in [Workers -> WorkerState] /\ call' \in [Calls -> CallState]
<1> USE NumbersAssumption
<1>1. CASE OpenStream(w, n)
  <2>1. PICK k \in Calls : OpenStream(w, n)!(k)
    BY <1>1 DEF OpenStream
  <2>2. worker' \in [Workers -> WorkerState]
    BY <2>1, LoopStatesTyped DEF TypeOK, WorkerState, LoopStates, NoWorker
  <2>3. call' \in [Calls -> CallState]
    BY <2>1, CallsTyped DEF TypeOK, CallState, NoCall, WorkerState
  <2> QED BY <2>2, <2>3
<1>2. CASE /\ worker' = [worker EXCEPT ![w] = Reading(w, n, catchUp)]
           /\ UNCHANGED call
  BY <1>2 DEF TypeOK, Reading, WorkerState, LoopStates
<1>3. CASE /\ worker' = [worker EXCEPT ![w] =
                            [@ EXCEPT !.loop = "setCheckpoint",
                                      !.request = None, !.cursor = n]]
           /\ UNCHANGED call
  BY <1>3 DEF TypeOK, WorkerState, LoopStates
<1> QED BY <1>1, <1>2, <1>3 DEF NextPage

\* Stopping a worker keeps the worker map, the loops and the calls typed.
LEMMA StopWorkerTyped ==
  ASSUME TypeOK, StopWorker
  PROVE  /\ current' \in Workers \cup {None}
         /\ worker' \in [Workers -> WorkerState]
         /\ call' \in [Calls -> CallState]
BY LoopStatesTyped, CallsTyped DEF TypeOK, StopWorker, WokenToStop

\* What is in flight are messages.
LEMMA InFlightTyped ==
  ASSUME TypeOK, NEW k \in Calls
  PROVE  /\ InFlight(k) \subseteq Msgs
         /\ \A p \in Pipelines : Processing(p) \subseteq Msgs
<1>1. ASSUME NEW p \in Pipelines PROVE Processing(p) \subseteq Msgs
  BY <1>1, JobsTyped DEF TypeOK, Processing, Busy
<1>2. (call[k].taken + 1)..call[k].sent \subseteq Msgs
  BY NumbersAssumption DEF TypeOK, CallState, Msgs
<1> QED BY <1>1, <1>2 DEF InFlight, Pipelines

\* So does the end of a call, whatever state its owner's loop resumes in.
LEMMA FinishCallTyped ==
  ASSUME TypeOK, NEW k \in Calls, NEW s, FinishCall(k, s),
         call[k].owner \in Workers => s \in WorkerState
  PROVE  TypeOK'
<1>1. worker' \in [Workers -> WorkerState]
  BY DEF TypeOK, FinishCall
<1>2. call' \in [Calls -> CallState]
  <2>1. [call[k] EXCEPT !.state = "closed"] \in CallState
    BY DEF TypeOK, CallState
  <2>2. Busy(k) \in BOOLEAN
    BY DEF Busy
  <2> QED BY <2>1, <2>2, CallsTyped DEF TypeOK, FinishCall
<1>3. interrupted' \subseteq Msgs
  BY InFlightTyped DEF TypeOK, FinishCall
<1> QED BY <1>1, <1>2, <1>3 DEF TypeOK, FinishCall, store

\* What the HTTP, wake and retention handlers and a restart leave behind.
LEMMA RegistrationsTyped ==
  ASSUME TypeOK,
         \/ \E d \in Devices, t \in Tokens : Register(d, t)
         \/ \E d \in Devices : Unregister(d)
         \/ StopIfUnused \/ Retain \/ Restart
  PROVE  TypeOK'
<1> USE NumbersAssumption
<1>1. ASSUME NEW d \in Devices, NEW t \in Tokens, Register(d, t)
      PROVE  TypeOK'
  <2>1. devices' \subseteq Devices
    BY <1>1, KeptWithTyped DEF TypeOK, Register
  <2>2. current' \in Workers \cup {None} /\ worker' \in [Workers -> WorkerState]
    <3>1. CASE current = None
      BY <1>1, <3>1, LoopStatesTyped DEF TypeOK, Register
    <3>2. CASE current # None
      <4>1. [worker[current] EXCEPT !.token = t] \in WorkerState
        BY <3>2 DEF TypeOK, WorkerState
      <4> QED BY <1>1, <3>2, <4>1, LoopStatesTyped DEF TypeOK, Register
    <3> QED BY <3>1, <3>2
  <2> QED BY <1>1, <2>1, <2>2 DEF TypeOK, Register, past
<1>2. ASSUME NEW d \in Devices, Unregister(d)
      PROVE  TypeOK'
  BY <1>2 DEF TypeOK, Unregister, UnregisterDevice, past
<1>3. ASSUME StopIfUnused PROVE TypeOK'
  BY <1>3, StopWorkerTyped DEF TypeOK, StopIfUnused, store, past
<1>4. ASSUME Retain PROVE TypeOK'
  BY <1>4, StopWorkerTyped DEF TypeOK, Retain, past
<1>5. ASSUME Restart PROVE TypeOK'
  <2>1. interrupted' \subseteq Msgs
    BY <1>5, JobsTyped DEF TypeOK, Restart, Processing, Busy
  <2>2. current' \in Workers \cup {None} /\ worker' \in [Workers -> WorkerState]
    BY <1>5, LoopStatesTyped DEF TypeOK, Restart
  <2>3. call' \in [Calls -> CallState] /\ job' \in [Pipelines -> JobState]
    BY <1>5, CallsTyped, JobsTyped DEF Restart
  <2> QED BY <1>5, <2>1, <2>2, <2>3 DEF TypeOK, Restart, store
<1> QED BY <1>1, <1>2, <1>3, <1>4, <1>5

\* What the loop of a worker leaves behind at each await.
LEMMA LoopTyped ==
  ASSUME TypeOK, NEW w \in Workers, LoopStep(w)
  PROVE  TypeOK'
<1> USE NumbersAssumption
<1>1. ASSUME GetCheckpoint(w) PROVE TypeOK'
  <2>1. Reading(w, 0, TRUE) \in WorkerState
    BY DEF TypeOK, Reading, WorkerState, LoopStates
  <2>2. ckpt # None => Reading(w, ckpt, FALSE) \in WorkerState
    BY DEF TypeOK, Reading, WorkerState, LoopStates
  <2> QED BY <1>1, <2>1, <2>2 DEF TypeOK, GetCheckpoint, store, past
<1>2. ASSUME ReadOk(w) PROVE TypeOK'
  <2> DEFINE upto == Min({worker[w].cursor + Batch, posted})
             more == upto < posted
  <2>1. upto \in 0..MaxMsg /\ upto <= posted
    BY MinOfTwo DEF TypeOK, WorkerState
  <2>2. more \in BOOLEAN /\ worker[w].catchUp \in BOOLEAN
    BY DEF TypeOK, WorkerState
  <2>3. \/ NextPage(w, upto, more, worker[w].catchUp) /\ UNCHANGED job
        \/ /\ upto > worker[w].cursor
           /\ worker' = [worker EXCEPT ![w] = InBatch(w, upto, more)]
           /\ job' = [job EXCEPT ![w] = Begin(worker[w].cursor + 1)]
           /\ UNCHANGED call
    BY <1>2 DEF ReadOk
  <2>4. UNCHANGED <<posted, expired, store, current, stopChecks, past>>
    BY <1>2 DEF ReadOk
  <2> HIDE DEF upto, more
  <2>5. CASE NextPage(w, upto, more, worker[w].catchUp) /\ UNCHANGED job
    <3>1. worker' \in [Workers -> WorkerState] /\ call' \in [Calls -> CallState]
      BY <2>1, <2>2, <2>5, NextPageTyped
    <3> QED BY <2>4, <2>5, <3>1 DEF TypeOK, store, past
  <2>6. CASE /\ upto > worker[w].cursor
             /\ worker' = [worker EXCEPT ![w] = InBatch(w, upto, more)]
             /\ job' = [job EXCEPT ![w] = Begin(worker[w].cursor + 1)]
             /\ UNCHANGED call
    <3>1. worker[w].cursor + 1 \in Msgs
      BY <2>1, <2>6 DEF TypeOK, WorkerState, Msgs
    <3>2. job' \in [Pipelines -> JobState]
      BY <2>6, <3>1, JobsTyped DEF TypeOK
    <3>3. InBatch(w, upto, more) \in WorkerState
      BY <2>1, <2>2 DEF TypeOK, InBatch, WorkerState, LoopStates
    <3> QED BY <2>4, <2>6, <3>2, <3>3 DEF TypeOK, store, past
  <2> QED BY <2>3, <2>5, <2>6
<1>3. ASSUME ReadFail(w) \/ LoopDbError(w) PROVE TypeOK'
  BY <1>3, LoopStatesTyped DEF TypeOK, ReadFail, LoopDbError, Retry, store, past
<1>4. ASSUME ReadReject(w) PROVE TypeOK'
  <2>1. worker[w].request \in Tokens \cup {None}
    BY DEF TypeOK, WorkerState
  <2> QED BY <1>4, <2>1, LoopStatesTyped
          DEF TypeOK, ReadReject, AuthPause, store, past
<1>5. ASSUME SetCheckpoint(w) PROVE TypeOK'
  <2>1. worker[w].cursor \in 0..MaxMsg
    BY DEF TypeOK, WorkerState
  <2>2. worker' \in [Workers -> WorkerState] /\ call' \in [Calls -> CallState]
    BY <1>5, <2>1, NextPageTyped DEF SetCheckpoint
  <2>3. skipped' \subseteq Msgs
    <3>1. skipped' = skipped \cup 1..worker[w].cursor
      BY <1>5 DEF SetCheckpoint
    <3>2. 1..worker[w].cursor \subseteq Msgs
      BY <2>1 DEF Msgs
    <3>3. skipped \subseteq Msgs
      BY DEF TypeOK
    <3> QED BY <3>1, <3>2, <3>3
  <2> QED BY <1>5, <2>1, <2>2, <2>3 DEF TypeOK, SetCheckpoint
<1>6. ASSUME WakeUp(w) PROVE TypeOK'
  <2>1. worker[w].token \in Tokens \cup {None}
    BY DEF TypeOK, WorkerState
  <2> QED BY <1>6, <2>1, LoopStatesTyped DEF TypeOK, WakeUp, store, past
<1>7. ASSUME CheckMailboxInBatch(w) PROVE TypeOK'
  <2> DEFINE cursor == worker[w].cursor + 1
  <2>1. current' \in Workers \cup {None}
    BY <1>7 DEF TypeOK, CheckMailboxInBatch
  <2>2. worker[w].upto \in 0..MaxMsg /\ worker[w].cursor \in 0..MaxMsg
        /\ worker[w].more \in BOOLEAN
    BY DEF TypeOK, WorkerState
  <2>3. CASE /\ cursor < worker[w].upto
             /\ worker' = [worker EXCEPT ![w].cursor = cursor]
             /\ job' = [job EXCEPT ![w] = Begin(cursor + 1)]
             /\ UNCHANGED call
    <3>1. cursor + 1 \in Msgs /\ cursor \in 0..MaxMsg
      BY <2>2, <2>3 DEF Msgs
    <3>2. job' \in [Pipelines -> JobState]
      BY <2>3, <3>1, JobsTyped DEF TypeOK
    <3>3. [worker[w] EXCEPT !.cursor = cursor] \in WorkerState
      BY <3>1 DEF TypeOK, WorkerState
    <3> QED BY <1>7, <2>1, <2>3, <3>2, <3>3
            DEF TypeOK, CheckMailboxInBatch, store, past
  <2>4. CASE /\ cursor = worker[w].upto
             /\ job' = [job EXCEPT ![w] = Idle]
             /\ NextPage(w, cursor, worker[w].more, FALSE)
    <3>1. worker' \in [Workers -> WorkerState] /\ call' \in [Calls -> CallState]
      BY <2>2, <2>4, NextPageTyped
    <3> QED BY <1>7, <2>1, <2>4, <3>1, JobsTyped
            DEF TypeOK, CheckMailboxInBatch, store, past
  <2> QED BY <1>7, <2>3, <2>4 DEF CheckMailboxInBatch
<1>8. ASSUME DbErrorInBatch(w) PROVE TypeOK'
  <2>1. job[w].msg \in Msgs
    BY <1>8, JobsTyped DEF TypeOK, DbErrorInBatch, AbandonMessage, Pipelines
  <2>2. worker' \in [Workers -> WorkerState] /\ UNCHANGED call
    BY <1>8, LoopStatesTyped DEF TypeOK, DbErrorInBatch, Retry
  <2> QED BY <1>8, <2>1, <2>2, JobsTyped
          DEF TypeOK, DbErrorInBatch, AbandonMessage, store
<1> QED BY <1>1, <1>2, <1>3, <1>4, <1>5, <1>6, <1>7, <1>8 DEF LoopStep

\* What the events of a call leave behind.
LEMMA CallTyped ==
  ASSUME TypeOK, NEW k \in Calls, CallStep(k)
  PROVE  TypeOK'
<1> USE NumbersAssumption
<1>1. ASSUME Deliver(k) PROVE TypeOK'
  <2>1. [call[k] EXCEPT !.sent = @ + 1] \in CallState
    BY <1>1 DEF TypeOK, CallState, Deliver
  <2> QED BY <1>1, <2>1 DEF TypeOK, Deliver, store, past
<1>2. ASSUME ServerEnds(k) PROVE TypeOK'
  <2>1. [call[k] EXCEPT !.ended = TRUE] \in CallState
    BY DEF TypeOK, CallState
  <2> QED BY <1>2, <2>1 DEF TypeOK, ServerEnds, store, past
<1>3. ASSUME Data(k) PROVE TypeOK'
  <2> DEFINE c == [call[k] EXCEPT !.taken = @ + 1]
  <2>1. c \in CallState /\ c.taken \in Msgs
    BY <1>3 DEF TypeOK, CallState, Data, Msgs
  <2>2. [c EXCEPT !.state = "closed"] \in CallState
    BY <2>1 DEF CallState
  <2>3. call' \in [Calls -> CallState]
    BY <1>3, <2>1, <2>2 DEF TypeOK, Data
  <2>4. job' \in [Pipelines -> JobState]
    BY <1>3, <2>1, JobsTyped DEF TypeOK, Data
  <2>5. call[k].owner \in Workers => Retry(call[k].owner) \in WorkerState
    BY LoopStatesTyped DEF TypeOK, Retry
  <2>6. worker' \in [Workers -> WorkerState]
    BY <1>3, <2>5 DEF TypeOK, Data
  <2>7. interrupted' \subseteq Msgs
    BY <1>3, <2>1 DEF TypeOK, Data
  <2> QED BY <1>3, <2>3, <2>4, <2>6, <2>7 DEF TypeOK, Data, store
<1>4. ASSUME CallEnd(k) \/ CallError(k) \/ CallReject(k) \/ CallCancelled(k)
      PROVE  TypeOK'
  <2>1. call[k].owner \in Workers \cup {None} /\ call[k].token \in Tokens \cup {None}
    BY DEF TypeOK, CallState
  <2>2. PICK s : FinishCall(k, s) /\ (call[k].owner \in Workers => s \in WorkerState)
    <3>1. CASE CallEnd(k) \/ CallError(k)
      BY <3>1, <2>1, LoopStatesTyped DEF TypeOK, CallEnd, CallError, Retry
    <3>2. CASE CallReject(k)
      BY <3>2, <2>1, LoopStatesTyped DEF TypeOK, CallReject, AuthPause
    <3>3. CASE CallCancelled(k)
      BY <3>3, LoopStatesTyped DEF CallCancelled
    <3> QED BY <1>4, <3>1, <3>2, <3>3
  <2> QED BY <2>1, <2>2, FinishCallTyped
<1>5. ASSUME CheckMailboxInStream(k) PROVE TypeOK'
  <2>1. job' \in [Pipelines -> JobState]
    BY <1>5, JobsTyped DEF TypeOK, CheckMailboxInStream
  <2>2. current' \in Workers \cup {None} /\ worker' \in [Workers -> WorkerState]
    BY <1>5, LoopStatesTyped DEF TypeOK, CheckMailboxInStream, WokenToStop
  <2>3. call' \in [Calls -> CallState]
    <3> DEFINE cancelled == Cancelled(call[k].owner)
    <3>1. cancelled \in [Calls -> CallState]
      BY CallsTyped DEF TypeOK
    <3>2. /\ Settle(cancelled[k], FALSE) \in CallState
          /\ Settle(call[k], FALSE) \in CallState
      BY <3>1, CallsTyped DEF TypeOK
    <3>3. \/ call' = [cancelled EXCEPT ![k] = Settle(cancelled[k], FALSE)]
          \/ call' = [call EXCEPT ![k] = Settle(call[k], FALSE)]
      BY <1>5 DEF CheckMailboxInStream
    <3> HIDE DEF cancelled
    <3> QED BY <3>1, <3>2, <3>3 DEF TypeOK
  <2> QED BY <1>5, <2>1, <2>2, <2>3 DEF TypeOK, CheckMailboxInStream, store, past
<1>6. ASSUME DbErrorInStream(k) PROVE TypeOK'
  <2>1. job[k].msg \in Msgs
    BY <1>6, JobsTyped DEF TypeOK, DbErrorInStream, AbandonMessage, Pipelines
  <2>2. call' \in [Calls -> CallState]
    BY <1>6, CallsTyped DEF TypeOK, DbErrorInStream
  <2> QED BY <1>6, <2>1, <2>2, JobsTyped
          DEF TypeOK, DbErrorInStream, AbandonMessage, store
<1> QED BY <1>1, <1>2, <1>3, <1>4, <1>5, <1>6 DEF CallStep

\* What the processing of a message leaves behind.
LEMMA MessageTyped ==
  ASSUME TypeOK, NEW p \in Pipelines, MessageStep(p)
  PROVE  TypeOK'
<1>1. job[p].stage # "idle" => job[p] \in BusyState
  BY JobsTyped DEF TypeOK
<1>2. ASSUME GetDevices(p) PROVE TypeOK'
  <2>1. [job[p] EXCEPT !.stage = "sending", !.todo = devices] \in BusyState
    BY <1>1, <1>2 DEF TypeOK, GetDevices, BusyState
  <2> QED BY <1>2, <2>1, JobsTyped DEF TypeOK, GetDevices, store, past
<1>3. ASSUME RemoveStale(p) PROVE TypeOK'
  <2>1. [job[p] EXCEPT !.stage = "refreshMetric", !.device = None] \in BusyState
    BY <1>1, <1>3 DEF RemoveStale, BusyState
  <2> QED BY <1>3, <2>1, JobsTyped DEF TypeOK, RemoveStale, UnregisterDevice, past
<1>4. ASSUME Record(p) PROVE TypeOK'
  <2>1. [job[p] EXCEPT !.stage = "checkMailbox"] \in BusyState
        /\ job[p].msg \in Msgs
    BY <1>1, <1>4 DEF Record, BusyState
  <2>2. job[p].msg \in 0..MaxMsg
    BY <2>1, NumbersAssumption DEF Msgs
  <2> QED BY <1>4, <2>1, <2>2, JobsTyped DEF TypeOK, Record
<1>5. ASSUME NEW d \in Devices, PushOk(p, d) \/ PushFail(p, d) PROVE TypeOK'
  <2>1. [job[p] EXCEPT !.todo = @ \ {d}] \in BusyState /\ job[p].msg \in Msgs
    BY <1>1, <1>5 DEF PushOk, PushFail, BusyState
  <2>2. job' \in [Pipelines -> JobState]
    BY <1>5, <2>1, JobsTyped DEF TypeOK, PushOk, PushFail
  <2>3. pushes' \in [Msgs \X Devices -> 0..2]
    <3> DEFINE n == pushes[<<job[p].msg, d>>]
    <3>1. n \in 0..2
      BY <2>1 DEF TypeOK
    <3>2. Min({n + 1, 2}) \in 0..2
      BY <3>1, MinOfTwo
    <3>3. \/ UNCHANGED pushes
          \/ pushes' = [pushes EXCEPT ![<<job[p].msg, d>>] = Min({n + 1, 2})]
      BY <1>5 DEF PushOk, PushFail, past
    <3> HIDE DEF n
    <3> QED BY <3>2, <3>3 DEF TypeOK
  <2> QED BY <1>5, <2>2, <2>3 DEF TypeOK, PushOk, PushFail, store, past
<1>6. ASSUME NEW d \in Devices, PushStale(p, d) PROVE TypeOK'
  <2> DEFINE stale == [job[p] EXCEPT !.stage = "removeStale", !.device = d,
                                     !.todo = job[p].todo \ {d}]
  <2>1. stale \in JobState
    BY <1>1, <1>6, JobsTyped DEF PushStale, BusyState
  <2>2. job' = [job EXCEPT ![p] = stale]
    BY <1>6 DEF PushStale
  <2>3. UNCHANGED <<posted, expired, store, current, worker, call, stopChecks, past>>
    BY <1>6 DEF PushStale
  <2> HIDE DEF stale
  <2> QED BY <2>1, <2>2, <2>3 DEF TypeOK, store, past
<1>7. ASSUME RefreshMetric(p) PROVE TypeOK'
  <2>1. [job[p] EXCEPT !.stage = "sending"] \in BusyState
    BY <1>1, <1>7 DEF RefreshMetric, BusyState
  <2> QED BY <1>7, <2>1, JobsTyped DEF TypeOK, RefreshMetric, store, past
<1> QED BY <1>2, <1>3, <1>4, <1>5, <1>6, <1>7 DEF MessageStep

(***************************************************************************)
(* The state of the pipeline keeps its types under every operation.        *)
(***************************************************************************)
THEOREM TypeCorrect == Spec => []TypeOK
<1>1. Init => TypeOK
  BY NumbersAssumption, LoopStatesTyped, CallsTyped, JobsTyped DEF Init, TypeOK
<1>2. TypeOK /\ [Next]_vars => TypeOK'
  <2> SUFFICES ASSUME TypeOK, [Next]_vars PROVE TypeOK'
    OBVIOUS
  <2>1. ASSUME Post PROVE TypeOK'
    BY <2>1, NumbersAssumption DEF TypeOK, Post, store, memory, past
  <2>2. ASSUME NEW t \in Tokens, Expire(t) PROVE TypeOK'
    BY <2>2 DEF TypeOK, Expire, store, memory, past
  <2>3. ASSUME UNCHANGED vars PROVE TypeOK'
    BY <2>3 DEF TypeOK, vars, store, memory, past
  <2> QED BY <2>1, <2>2, <2>3, RegistrationsTyped, LoopTyped, CallTyped,
             MessageTyped DEF Next
<1> QED BY <1>1, <1>2, PTL DEF Spec

-----------------------------------------------------------------------------
(* The mailbox's row, its worker and the worker's token *)

(***************************************************************************)
(* The inductive invariant: beyond the properties themselves, a call that  *)
(* was cancelled belongs to a worker that is no longer the mailbox's, so   *)
(* that its end ends no other worker; and a worker that idles does so with *)
(* a token it sees expired.                                                *)
(***************************************************************************)
LiveCallsOwned ==
  \A k \in Calls : call[k].state # "closed" => call[k].owner \in Workers

CancelledIsStopped ==
  \A k \in Calls : call[k].state = "cancelled" => Stopped(call[k].owner)

IdleSeesExpired ==
  \A w \in Workers :
    worker[w].loop = "auth_expired" => SeenExpired(worker[w].token)

RegistrationInv ==
  /\ TypeOK /\ NoLeftovers /\ WorkerHoldsLatestToken
  /\ LiveCallsOwned /\ CancelledIsStopped /\ IdleSeesExpired

\* How far a step of one worker's loop or call reaches: not to the other
\* workers, not to the token, never to the row, and to the entry only when the
\* row is gone.
WorkerStepEffect(w) ==
  /\ UNCHANGED <<expired, reg, devices>>
  /\ ckpt' = ckpt \/ reg # None
  /\ current' = current \/ (reg = None /\ current' = None)
  /\ \A v \in Workers \ {w} : worker'[v] = worker[v]
  /\ current' = w => worker'[w].token = worker[w].token
  /\ w \in Workers /\ worker'[w].loop = "auth_expired"
       => worker'[w] = worker[w] \/ SeenExpired(worker'[w].token)
  /\ \A k \in Calls :
       \/ call'[k].state = call[k].state /\ call'[k].owner = call[k].owner
       \/ call'[k].state = "closed"
       \/ /\ call'[k].state = "open" \/ (call'[k].state = "cancelled" /\ current' = None)
          /\ call'[k].owner \in Workers

\* A step with no more effect than a worker's own keeps the registration facts.
LEMMA EffectKeepsInv ==
  ASSUME RegistrationInv, NEW w, WorkerStepEffect(w)
  PROVE  /\ NoLeftovers' /\ WorkerHoldsLatestToken'
         /\ LiveCallsOwned' /\ CancelledIsStopped' /\ IdleSeesExpired'
<1> USE DEF RegistrationInv, WorkerStepEffect
<1>1. NoLeftovers'
  BY DEF NoLeftovers
<1>2. WorkerHoldsLatestToken'
  BY DEF WorkerHoldsLatestToken, TypeOK
<1>3. LiveCallsOwned'
  BY DEF LiveCallsOwned
<1>4. CancelledIsStopped'
  <2>1. None \notin Workers
    BY NoneAssumption
  <2> QED BY <2>1 DEF CancelledIsStopped, LiveCallsOwned, Stopped
<1>5. IdleSeesExpired'
  BY DEF IdleSeesExpired, SeenExpired
<1> QED BY <1>1, <1>2, <1>3, <1>4, <1>5

\* The end of a page touches the loop of its worker and one call of its own.
LEMMA NextPageEffect ==
  ASSUME TypeOK, NEW w \in Workers, NEW n, NEW more, NEW catchUp,
         NextPage(w, n, more, catchUp) \/ OpenStream(w, n)
  PROVE  /\ \A v \in Workers \ {w} : worker'[v] = worker[v]
         /\ worker'[w].token = worker[w].token
         /\ worker'[w].loop # "auth_expired"
         /\ \A k \in Calls :
              \/ call'[k] = call[k]
              \/ call'[k].state = "open" /\ call'[k].owner = w
<1>1. CASE OpenStream(w, n)
  <2>1. PICK k \in Calls : OpenStream(w, n)!(k)
    BY <1>1 DEF OpenStream
  <2>2. /\ \A v \in Workers \ {w} : worker'[v] = worker[v]
        /\ worker'[w].token = worker[w].token
        /\ worker'[w].loop # "auth_expired"
    BY <2>1 DEF TypeOK, NoWorker
  <2>3. /\ \A j \in Calls \ {k} : call'[j] = call[j]
        /\ call'[k].state = "open" /\ call'[k].owner = w
    BY <2>1 DEF TypeOK, NoCall
  <2> QED BY <2>2, <2>3
<1>2. CASE /\ worker' = [worker EXCEPT ![w] = Reading(w, n, catchUp)]
           /\ UNCHANGED call
  BY <1>2 DEF TypeOK, Reading
<1>3. CASE /\ worker' = [worker EXCEPT ![w] =
                            [@ EXCEPT !.loop = "setCheckpoint",
                                      !.request = None, !.cursor = n]]
           /\ UNCHANGED call
  BY <1>3 DEF TypeOK, WorkerState
<1> QED BY <1>1, <1>2, <1>3 DEF NextPage

\* A step that only ends the loop iteration of a worker.
LEMMA LoopEndEffect ==
  ASSUME TypeOK, NEW w \in Workers, NEW t, NEW next \in {"retrying", "auth_paused"},
         worker' = [worker EXCEPT ![w] = LoopEnd(w, next, t)],
         UNCHANGED current
  PROVE  /\ \A v \in Workers \ {w} : worker'[v] = worker[v]
         /\ current' = w => worker'[w].token = worker[w].token
         /\ worker'[w].loop # "auth_expired"
BY DEF TypeOK, LoopEnd, NoWorker, Stopped

\* A step of a worker's loop has no more effect than WorkerStepEffect allows.
LEMMA LoopEffect ==
  ASSUME RegistrationInv, NEW w \in Workers, LoopStep(w)
  PROVE  WorkerStepEffect(w)
<1> USE DEF RegistrationInv
<1>1. CASE GetCheckpoint(w)
  BY <1>1 DEF TypeOK, GetCheckpoint, Reading, WorkerStepEffect, store
<1>2. CASE ReadOk(w)
  <2>1. \/ \E n, more, catchUp : NextPage(w, n, more, catchUp)
        \/ /\ \E n, more : worker' = [worker EXCEPT ![w] = InBatch(w, n, more)]
           /\ UNCHANGED call
    BY <1>2 DEF ReadOk
  <2>2. UNCHANGED <<expired, store, current>>
    BY <1>2 DEF ReadOk
  <2>3. CASE \E n, more, catchUp : NextPage(w, n, more, catchUp)
    BY <2>2, <2>3, NextPageEffect DEF WorkerStepEffect, store
  <2>4. CASE /\ \E n, more : worker' = [worker EXCEPT ![w] = InBatch(w, n, more)]
             /\ UNCHANGED call
    BY <2>2, <2>4 DEF TypeOK, InBatch, WorkerStepEffect, store
  <2> QED BY <2>1, <2>3, <2>4
<1>3. CASE ReadFail(w) \/ ReadReject(w) \/ LoopDbError(w)
  <2>1. \E t : \E next \in {"retrying", "auth_paused"} :
          worker' = [worker EXCEPT ![w] = LoopEnd(w, next, t)]
    <3>1. CASE ReadFail(w) \/ LoopDbError(w)
      BY <3>1 DEF ReadFail, LoopDbError, Retry
    <3>2. CASE ReadReject(w)
      BY <3>2 DEF ReadReject, AuthPause
    <3> QED BY <1>3, <3>1, <3>2
  <2>2. UNCHANGED <<expired, store, current, call>>
    BY <1>3 DEF ReadFail, ReadReject, LoopDbError
  <2> QED BY <2>1, <2>2, LoopEndEffect DEF WorkerStepEffect, store
<1>4. CASE SetCheckpoint(w)
  <2>1. OpenStream(w, worker[w].cursor)
    BY <1>4 DEF SetCheckpoint
  <2>2. UNCHANGED <<expired, reg, devices, current>> /\ (ckpt' = ckpt \/ reg # None)
    BY <1>4 DEF SetCheckpoint
  <2> QED BY <2>1, <2>2, NextPageEffect DEF WorkerStepEffect
<1>5. CASE WakeUp(w)
  BY <1>5 DEF TypeOK, WakeUp, LoopTop, NoWorker, SeenExpired, WorkerStepEffect, store
<1>6. CASE CheckMailboxInBatch(w)
  <2>1. UNCHANGED <<expired, store>>
        /\ (current' = current \/ (reg = None /\ current' = None))
    BY <1>6 DEF CheckMailboxInBatch
  <2>2. \/ \E n, more, catchUp : NextPage(w, n, more, catchUp)
        \/ /\ \E n : worker' = [worker EXCEPT ![w].cursor = n]
           /\ UNCHANGED call
    BY <1>6 DEF CheckMailboxInBatch
  <2>3. CASE \E n, more, catchUp : NextPage(w, n, more, catchUp)
    BY <2>1, <2>3, NextPageEffect DEF WorkerStepEffect, store
  <2>4. CASE /\ \E n : worker' = [worker EXCEPT ![w].cursor = n]
             /\ UNCHANGED call
    BY <2>1, <2>4 DEF TypeOK, WorkerState, IdleSeesExpired, SeenExpired,
                      WorkerStepEffect, store
  <2> QED BY <2>2, <2>3, <2>4
<1>7. CASE DbErrorInBatch(w)
  <2>1. worker' = [worker EXCEPT ![w] = LoopEnd(w, "retrying", None)]
    BY <1>7 DEF DbErrorInBatch, Retry
  <2>2. UNCHANGED <<expired, store, current, call>>
    BY <1>7 DEF DbErrorInBatch, AbandonMessage
  <2> QED BY <2>1, <2>2, LoopEndEffect DEF WorkerStepEffect, store
<1> QED BY <1>1, <1>2, <1>3, <1>4, <1>5, <1>6, <1>7 DEF LoopStep

\* The end of a call closes that call and resumes its owner, nothing else.
LEMMA FinishCallEffect ==
  ASSUME RegistrationInv, NEW k \in Calls, NEW s, FinishCall(k, s),
         call[k].owner \in Workers =>
           /\ s.loop # "auth_expired"
           /\ current = call[k].owner => s.token = worker[call[k].owner].token
  PROVE  WorkerStepEffect(call[k].owner)
<1>1. call' = [call EXCEPT ![k] =
                 Settle([call[k] EXCEPT !.state = "closed"], Busy(k))]
  BY DEF FinishCall
<1>2. Settle([call[k] EXCEPT !.state = "closed"], Busy(k)).state = "closed"
  BY DEF Settle, NoCall, RegistrationInv, TypeOK, CallState
<1>3. \A j \in Calls : call'[j] = call[j] \/ call'[j].state = "closed"
  BY <1>1, <1>2 DEF RegistrationInv, TypeOK
<1>4. call[k].owner \in Workers \/ call[k].owner = None
  BY DEF RegistrationInv, TypeOK, CallState
<1>5. UNCHANGED <<expired, reg, devices, ckpt, current>>
  BY DEF FinishCall, store
<1>6. /\ \A v \in Workers \ {call[k].owner} : worker'[v] = worker[v]
      /\ call[k].owner \in Workers => worker'[call[k].owner] = s
  BY DEF FinishCall, RegistrationInv, TypeOK
<1>7. CASE call[k].owner \in Workers
  BY <1>3, <1>5, <1>6, <1>7 DEF WorkerStepEffect
<1>8. CASE call[k].owner = None
  <2>1. None \notin Workers
    BY NoneAssumption
  <2>2. worker'[None] = worker[None]
    BY <2>1, <1>8 DEF FinishCall, RegistrationInv, TypeOK
  <2> QED BY <1>3, <1>5, <1>6, <1>8, <2>1, <2>2 DEF WorkerStepEffect
<1> QED BY <1>4, <1>7, <1>8

\* A step of a call has no more effect than WorkerStepEffect allows its owner.
LEMMA CallEffect ==
  ASSUME RegistrationInv, NEW k \in Calls, CallStep(k)
  PROVE  WorkerStepEffect(call[k].owner)
<1> DEFINE w == call[k].owner
<1>1. CASE Deliver(k) \/ ServerEnds(k)
  <2>1. /\ call'[k].state = "open" /\ call'[k].owner = call[k].owner
        /\ call[k].state = "open"
        /\ \A j \in Calls \ {k} : call'[j] = call[j]
    BY <1>1 DEF RegistrationInv, TypeOK, CallState, Deliver, ServerEnds
  <2>2. UNCHANGED <<expired, store, current, worker>>
    BY <1>1 DEF Deliver, ServerEnds
  <2> QED BY <2>1, <2>2 DEF RegistrationInv, LiveCallsOwned, WorkerStepEffect, store
<1>2. CASE Data(k)
  <2> DEFINE c == [call[k] EXCEPT !.taken = @ + 1]
  <2>1. UNCHANGED <<expired, store, current>>
    BY <1>2 DEF Data
  <2>2. /\ \A j \in Calls \ {k} : call'[j] = call[j]
        /\ call'[k].owner = w
        /\ call'[k].state = "closed" \/ call'[k].state = call[k].state
    BY <1>2 DEF Data, RegistrationInv, TypeOK, CallState
  <2>3. UNCHANGED worker \/ worker' = [worker EXCEPT ![w] = LoopEnd(w, "retrying", None)]
    BY <1>2 DEF Data, Retry
  <2>4. w \in Workers \/ w = None
    BY DEF RegistrationInv, TypeOK, CallState
  <2>5. CASE UNCHANGED worker
    BY <2>1, <2>2, <2>5 DEF WorkerStepEffect, store
  <2>6. CASE worker' = [worker EXCEPT ![w] = LoopEnd(w, "retrying", None)]
    <3>1. CASE w \in Workers
      <4>1. /\ \A v \in Workers \ {w} : worker'[v] = worker[v]
            /\ current' = w => worker'[w].token = worker[w].token
            /\ worker'[w].loop # "auth_expired"
        BY <2>1, <2>6, <3>1, LoopEndEffect DEF RegistrationInv
      <4> QED BY <2>1, <2>2, <4>1 DEF WorkerStepEffect, store
    <3>2. CASE w = None
      <4>1. worker' = worker
        BY <2>6, <3>2, NoneAssumption DEF RegistrationInv, TypeOK
      <4> QED BY <2>1, <2>2, <4>1 DEF WorkerStepEffect, store
    <3> QED BY <2>4, <3>1, <3>2
  <2> QED BY <2>3, <2>5, <2>6
<1>3. CASE CallEnd(k) \/ CallError(k) \/ CallReject(k)
  <2>1. \E t : \E next \in {"retrying", "auth_paused"} :
          FinishCall(k, LoopEnd(w, next, t))
    BY <1>3 DEF CallEnd, CallError, CallReject, Retry, AuthPause
  <2>2. \A t : \A next \in {"retrying", "auth_paused"} :
          /\ LoopEnd(w, next, t).loop # "auth_expired"
          /\ current = w => LoopEnd(w, next, t).token = worker[w].token
    BY DEF LoopEnd, NoWorker, Stopped
  <2> QED BY <2>1, <2>2, FinishCallEffect
<1>4. CASE CallCancelled(k)
  <2>1. FinishCall(k, NoWorker) /\ current # w /\ NoWorker.loop # "auth_expired"
    BY <1>4 DEF CallCancelled, RegistrationInv, CancelledIsStopped, Stopped, NoWorker
  <2> QED BY <2>1, FinishCallEffect
<1>5. CASE CheckMailboxInStream(k)
  <2>1. UNCHANGED <<expired, store>>
    BY <1>5 DEF CheckMailboxInStream
  <2>2. CASE reg = None /\ current = w
    <3>1. current' = None /\ worker' = WokenToStop(w)
          /\ call' = [Cancelled(w) EXCEPT ![k] = Settle(Cancelled(w)[k], FALSE)]
      BY <1>5, <2>2 DEF CheckMailboxInStream
    <3>2. /\ \A v \in Workers \ {w} : worker'[v] = worker[v]
          /\ w \in Workers /\ worker'[w].loop = "auth_expired"
               => worker'[w] = worker[w]
      BY <3>1 DEF WokenToStop, NoWorker, RegistrationInv, TypeOK
    <3>3. \A j \in Calls :
            \/ Cancelled(w)[j] = call[j]
            \/ /\ Cancelled(w)[j].state = "cancelled"
               /\ Cancelled(w)[j].owner = call[j].owner
               /\ call[j].owner \in Workers
      BY DEF Cancelled, RegistrationInv, TypeOK, CallState, LiveCallsOwned
    <3>4. \A j \in Calls :
            \/ call'[j] = Cancelled(w)[j]
            \/ call'[j].state = "closed"
      BY <3>1 DEF Settle, NoCall, Cancelled
    <3>5. w = None => worker' = worker
      BY <2>2, <3>1, NoneAssumption DEF WokenToStop, RegistrationInv, TypeOK
    <3>6. None \notin Workers
      BY NoneAssumption
    <3> QED BY <2>1, <2>2, <3>1, <3>2, <3>3, <3>4, <3>5, <3>6
            DEF WorkerStepEffect, store
  <2>3. CASE ~(reg = None /\ current = w)
    <3>1. UNCHANGED <<current, worker>>
          /\ call' = [call EXCEPT ![k] = Settle(call[k], FALSE)]
      BY <1>5, <2>3 DEF CheckMailboxInStream
    <3>2. \A j \in Calls : call'[j] = call[j] \/ call'[j].state = "closed"
      BY <3>1 DEF Settle, NoCall, RegistrationInv, TypeOK
    <3> QED BY <2>1, <3>1, <3>2 DEF WorkerStepEffect, store
  <2> QED BY <2>2, <2>3
<1>6. CASE DbErrorInStream(k)
  <2>1. \A j \in Calls : call'[j] = call[j] \/ call'[j].state = "closed"
    BY <1>6 DEF DbErrorInStream, Settle, NoCall, RegistrationInv, TypeOK
  <2>2. UNCHANGED <<expired, store, current, worker>>
    BY <1>6 DEF DbErrorInStream, AbandonMessage
  <2> QED BY <2>1, <2>2 DEF WorkerStepEffect, store
<1> QED BY <1>1, <1>2, <1>3, <1>4, <1>5, <1>6 DEF CallStep

\* Processing a message moves no worker, but may take the last device along.
LEMMA MessageEffect ==
  ASSUME RegistrationInv, NEW p \in Pipelines, MessageStep(p)
  PROVE  /\ NoLeftovers' /\ WorkerHoldsLatestToken'
         /\ LiveCallsOwned' /\ CancelledIsStopped' /\ IdleSeesExpired'
<1> USE DEF RegistrationInv
<1>1. UNCHANGED <<expired, current, worker, call>>
  BY DEF MessageStep, GetDevices, RemoveStale, RefreshMetric, Record, PushOk, PushFail, PushStale
<1>2. LiveCallsOwned' /\ CancelledIsStopped' /\ IdleSeesExpired'
  BY <1>1 DEF LiveCallsOwned, CancelledIsStopped, IdleSeesExpired, Stopped, SeenExpired
<1>3. CASE RemoveStale(p)
  <2>1. /\ devices' \subseteq devices
        /\ \/ devices' = {} /\ reg' = None /\ ckpt' = None
           \/ devices' # {} /\ UNCHANGED <<reg, ckpt>>
    BY <1>3 DEF RemoveStale, UnregisterDevice
  <2> QED BY <1>1, <1>2, <2>1 DEF NoLeftovers, WorkerHoldsLatestToken
<1>4. CASE ~RemoveStale(p)
  <2>1. UNCHANGED <<reg, devices>> /\ (ckpt' = ckpt \/ reg # None)
    BY <1>4 DEF MessageStep, GetDevices, RefreshMetric, Record, PushOk, PushFail, PushStale, store
  <2> QED BY <1>1, <1>2, <2>1 DEF NoLeftovers, WorkerHoldsLatestToken
<1> QED BY <1>3, <1>4

\* stopWorker(), by whoever found the row gone.
LEMMA StopWorkerEffect ==
  ASSUME RegistrationInv, StopWorker, UNCHANGED expired
  PROVE  /\ LiveCallsOwned' /\ CancelledIsStopped' /\ IdleSeesExpired'
<1> USE DEF RegistrationInv
<1>0. None \notin Workers
  BY NoneAssumption
<1>1. CASE current = None
  BY <1>1 DEF StopWorker, LiveCallsOwned, CancelledIsStopped, IdleSeesExpired,
              Stopped, SeenExpired
<1>2. CASE current # None
  <2>1. current' = None /\ worker' = WokenToStop(current) /\ call' = Cancelled(current)
    BY <1>2 DEF StopWorker
  <2>2. \A k \in Calls :
          /\ call'[k].owner = call[k].owner
          /\ call'[k].state = "closed" => call[k].state = "closed"
          /\ call[k].state = "closed" => call'[k].state = "closed"
    BY <2>1 DEF Cancelled, TypeOK, CallState
  <2>3. \A w \in Workers : worker'[w] = worker[w] \/ worker'[w].loop = "none"
    BY <2>1 DEF WokenToStop, NoWorker, TypeOK
  <2>4. LiveCallsOwned'
    BY <2>2 DEF LiveCallsOwned
  <2>5. CancelledIsStopped'
    BY <1>0, <2>1, <2>2, <2>4 DEF LiveCallsOwned, CancelledIsStopped, Stopped
  <2> QED BY <2>3, <2>4, <2>5 DEF IdleSeesExpired, SeenExpired
<1> QED BY <1>1, <1>2

\* POST /v1/register: the new worker starts with the new token, and the one
\* that runs already takes it over, asleep or not.
LEMMA RegisterEffect ==
  ASSUME RegistrationInv, NEW d \in Devices, NEW t \in Tokens, Register(d, t)
  PROVE  /\ NoLeftovers' /\ WorkerHoldsLatestToken'
         /\ LiveCallsOwned' /\ CancelledIsStopped' /\ IdleSeesExpired'
<1> USE DEF RegistrationInv
<1>1. reg' = t /\ t # None /\ devices' # {} /\ UNCHANGED <<expired, call, ckpt>>
  BY KeptWithTyped, NoneAssumption DEF Register, TypeOK
<1>2. /\ current' \in Workers /\ worker'[current'].token = t
      /\ \A w \in Workers \ {current'} : worker'[w] = worker[w]
      /\ worker'[current'].loop = "auth_expired" => SeenExpired(t)
      /\ current # None => UNCHANGED current
      /\ current = None => \A k \in Calls : call[k].owner # current'
  <2>1. CASE current = None
    <3>1. PICK w \in Workers :
            /\ FreeWorker(w) /\ current' = w
            /\ worker' = [worker EXCEPT ![w] = LoopTop(t)]
      BY <2>1 DEF Register
    <3> QED BY <2>1, <3>1 DEF FreeWorker, LoopTop, NoWorker, SeenExpired, TypeOK
  <2>2. CASE current # None
    <3>1. current' = current /\ current \in Workers
          /\ worker' = [worker EXCEPT ![current] =
                          IF Sleeping(current) THEN LoopTop(t)
                          ELSE [worker[current] EXCEPT !.token = t]]
      BY <2>2 DEF Register, TypeOK
    <3>2. CASE Sleeping(current)
      BY <2>2, <3>1, <3>2 DEF LoopTop, NoWorker, SeenExpired, TypeOK
    <3>3. CASE ~Sleeping(current)
      BY <2>2, <3>1, <3>3 DEF Sleeping, TypeOK, WorkerState
    <3> QED BY <3>2, <3>3
  <2> QED BY <2>1, <2>2
<1>3. NoLeftovers' /\ WorkerHoldsLatestToken'
  BY <1>1, <1>2, NoneAssumption DEF NoLeftovers, WorkerHoldsLatestToken
<1>4. LiveCallsOwned' /\ CancelledIsStopped'
  BY <1>1, <1>2 DEF LiveCallsOwned, CancelledIsStopped, Stopped
<1>5. IdleSeesExpired'
  BY <1>1, <1>2 DEF IdleSeesExpired, SeenExpired
<1> QED BY <1>3, <1>4, <1>5

\* A restart begins with the registered authorization, or with nothing.
LEMMA RestartEffect ==
  ASSUME RegistrationInv, Restart
  PROVE  /\ NoLeftovers' /\ WorkerHoldsLatestToken'
         /\ LiveCallsOwned' /\ CancelledIsStopped' /\ IdleSeesExpired'
<1> USE DEF RegistrationInv
<1>1. UNCHANGED <<expired, reg, devices, ckpt>> /\ call' = [k \in Calls |-> NoCall]
  BY DEF Restart, store
<1>2. NoLeftovers' /\ LiveCallsOwned' /\ CancelledIsStopped'
  BY <1>1 DEF NoLeftovers, LiveCallsOwned, CancelledIsStopped, NoCall
<1>3. WorkerHoldsLatestToken' /\ IdleSeesExpired'
  <2>1. CASE reg # None /\ devices # {}
    <3>1. PICK w \in Workers :
            /\ current' = w
            /\ worker' = [v \in Workers |-> IF v = w THEN LoopTop(reg) ELSE NoWorker]
      BY <2>1 DEF Restart
    <3> QED BY <1>1, <3>1, NoneAssumption
            DEF WorkerHoldsLatestToken, IdleSeesExpired, LoopTop, NoWorker, SeenExpired
  <2>2. CASE ~(reg # None /\ devices # {})
    BY <1>1, <2>2 DEF Restart, NoLeftovers, WorkerHoldsLatestToken, IdleSeesExpired,
                      NoWorker
  <2> QED BY <2>1, <2>2
<1> QED BY <1>2, <1>3

(***************************************************************************)
(* The inductive invariant behind the theorems below: rows, worker and     *)
(* token agree between any two awaits of the pipeline (index.js, class     *)
(* WorkerManager; checkpoint-store.js, registrations).                     *)
(***************************************************************************)
THEOREM RegistrationInvariant == Spec => []RegistrationInv
<1>1. Init => RegistrationInv
  <2> SUFFICES ASSUME Init PROVE RegistrationInv
    OBVIOUS
  <2>1. TypeOK
    BY NumbersAssumption, LoopStatesTyped, CallsTyped, JobsTyped DEF Init, TypeOK
  <2> QED BY <2>1 DEF Init, RegistrationInv, NoLeftovers, WorkerHoldsLatestToken,
                      LiveCallsOwned, CancelledIsStopped, IdleSeesExpired,
                      NoWorker, NoCall
<1>2. RegistrationInv /\ TypeOK' /\ [Next]_vars => RegistrationInv'
  <2> DEFINE Rest == /\ NoLeftovers /\ WorkerHoldsLatestToken
                     /\ LiveCallsOwned /\ CancelledIsStopped /\ IdleSeesExpired
  <2> SUFFICES ASSUME RegistrationInv, [Next]_vars PROVE Rest'
    BY DEF RegistrationInv
  <2>1. CASE Post \/ UNCHANGED vars
    BY <2>1 DEF Post, vars, store, memory, past, RegistrationInv, NoLeftovers,
       WorkerHoldsLatestToken, LiveCallsOwned, CancelledIsStopped, IdleSeesExpired,
       Stopped, SeenExpired
  <2>2. ASSUME NEW t \in Tokens, Expire(t) PROVE Rest'
    BY <2>2 DEF Expire, store, memory, past, RegistrationInv, NoLeftovers,
       WorkerHoldsLatestToken, LiveCallsOwned, CancelledIsStopped, IdleSeesExpired,
       Stopped, SeenExpired
  <2>3. ASSUME NEW d \in Devices, Unregister(d) PROVE Rest'
    BY <2>3 DEF Unregister, UnregisterDevice, past, RegistrationInv, NoLeftovers,
       WorkerHoldsLatestToken, LiveCallsOwned, CancelledIsStopped, IdleSeesExpired,
       Stopped, SeenExpired
  <2>4. CASE StopIfUnused
    <3>1. CASE devices = {}
      <4>1. StopWorker /\ UNCHANGED <<expired, store>>
        BY <2>4, <3>1 DEF StopIfUnused
      <4> QED BY <3>1, <4>1, StopWorkerEffect
              DEF RegistrationInv, NoLeftovers, WorkerHoldsLatestToken, store
    <3>2. CASE devices # {}
      BY <2>4, <3>2 DEF StopIfUnused, store, past, RegistrationInv, NoLeftovers,
         WorkerHoldsLatestToken, LiveCallsOwned, CancelledIsStopped,
         IdleSeesExpired, Stopped, SeenExpired
    <3> QED BY <3>1, <3>2
  <2>5. CASE Retain
    BY <2>5, StopWorkerEffect DEF Retain, NoLeftovers, WorkerHoldsLatestToken
  <2>6. CASE Restart
    BY <2>6, RestartEffect
  <2> QED BY <2>1, <2>2, <2>3, <2>4, <2>5, <2>6, RegisterEffect, LoopEffect,
             CallEffect, MessageEffect, EffectKeepsInv DEF Next
<1> QED BY <1>1, <1>2, TypeCorrect, PTL DEF Spec

(***************************************************************************)
(* Deleting a mailbox leaves no row behind, whatever is in flight.         *)
(***************************************************************************)
THEOREM DeletionIsComplete == Spec => []NoLeftovers
<1>1. RegistrationInv => NoLeftovers
  BY DEF RegistrationInv
<1> QED BY <1>1, RegistrationInvariant, PTL

(***************************************************************************)
(* A registered mailbox always has a worker with the token of its latest   *)
(* registration, whichever of its workers and calls are still finishing.   *)
(***************************************************************************)
THEOREM LatestTokenIsUsed == Spec => []WorkerHoldsLatestToken
<1>1. RegistrationInv => WorkerHoldsLatestToken
  BY DEF RegistrationInv
<1> QED BY <1>1, RegistrationInvariant, PTL

(***************************************************************************)
(* A worker with a token that is not known to be expired never idles       *)
(* without a timer.                                                        *)
(***************************************************************************)
THEOREM FreshTokenIsUsed == Spec => []FreshTokenNeverIdle
<1>1. RegistrationInv => FreshTokenNeverIdle
  BY DEF RegistrationInv, WorkerHoldsLatestToken, IdleSeesExpired,
         FreshTokenNeverIdle, TypeOK
<1> QED BY <1>1, RegistrationInvariant, PTL
=============================================================================
