------------------------ MODULE MailboxHistoryProofs ------------------------
(***************************************************************************)
(* What is sent twice, what is sent at all, and what is read again: the    *)
(* order in which one mailbox's messages pass its loops and calls, for     *)
(* every value of the constants and every set of faults.                   *)
(***************************************************************************)
EXTENDS MailboxCheckpointProofs

-----------------------------------------------------------------------------
(* Where loops and calls stand *)

\* A call processes the last message it handed out.
BusyOnTaken == \A k \in Calls : Busy(k) => job[k].msg = call[k].taken

\* Nothing is ahead of the mailbox.
WithinPosted ==
  /\ ckpt # None => ckpt <= posted
  /\ \A w \in Workers : worker[w].cursor <= posted /\ worker[w].upto <= posted
  /\ \A k \in Calls : call[k].taken <= call[k].sent /\ call[k].sent <= posted

PlaceInv ==
  /\ TypeOK /\ BatchIsBusy /\ BusyOnTaken /\ LiveCallsStream /\ WithinPosted

-----------------------------------------------------------------------------
(* What the steps do, place by place *)

OnlyWorker(w) == \A v \in Workers \ {w} : worker'[v] = worker[v]
OnlyCall(k)   == \A j \in Calls \ {k} : call'[j] = call[j]
OnlyJob(p)    == \A q \in Pipelines \ {p} : job'[q] = job[q]

\* Where a loop stands among the messages, or that it stands nowhere.
SamePlace(w) ==
  /\ worker'[w].loop = worker[w].loop /\ worker'[w].cursor = worker[w].cursor
  /\ worker'[w].upto = worker[w].upto /\ worker'[w].catchUp = worker[w].catchUp

Aside == {"none", "getCheckpoint", "retrying", "auth_paused", "auth_expired"}

SetAside(w) ==
  worker'[w].loop \in Aside /\ worker'[w].cursor = 0 /\ worker'[w].upto = 0

\* Worker w asks for the page behind message n ...
Asks(w, n, catchUp) ==
  /\ UNCHANGED call /\ OnlyWorker(w)
  /\ worker'[w].loop = "reading" /\ worker'[w].cursor = n
  /\ worker'[w].upto = 0 /\ worker'[w].catchUp = catchUp

\* ... has caught up with the history, which ends with message n ...
CaughtUp(w, n) ==
  /\ UNCHANGED call /\ OnlyWorker(w)
  /\ worker'[w].loop = "setCheckpoint" /\ worker'[w].cursor = n
  /\ worker'[w].upto = worker[w].upto

\* ... or opens call k behind message n.
Opens(w, k, n) ==
  /\ call[k] = NoCall /\ OnlyCall(k) /\ OnlyWorker(w)
  /\ call'[k].state = "open" /\ call'[k].owner = w
  /\ call'[k].sent = n /\ call'[k].taken = n
  /\ worker'[w].loop = "streaming"
  /\ worker'[w].cursor = 0 /\ worker'[w].upto = 0

LEMMA OpenStreamMoves ==
  ASSUME TypeOK, NEW w \in Workers, NEW n, OpenStream(w, n)
  PROVE  \E k \in Calls : Opens(w, k, n)
<1>1. PICK k \in Calls : OpenStream(w, n)!(k)
  BY DEF OpenStream
<1>2. Opens(w, k, n)
  BY <1>1 DEF Opens, OnlyCall, OnlyWorker, TypeOK, NoCall, NoWorker
<1> QED BY <1>2

LEMMA NextPageMoves ==
  ASSUME TypeOK, NEW w \in Workers, NEW n, NEW more, NEW catchUp,
         NextPage(w, n, more, catchUp)
  PROVE  \/ Asks(w, n, catchUp)
         \/ catchUp /\ CaughtUp(w, n)
         \/ ~catchUp /\ \E k \in Calls : Opens(w, k, n)
<1>1. CASE more
  BY <1>1 DEF NextPage, Reading, Asks, OnlyWorker, TypeOK
<1>2. CASE ~more /\ catchUp
  BY <1>2 DEF NextPage, CaughtUp, OnlyWorker, TypeOK, WorkerState
<1>3. CASE ~more /\ ~catchUp
  BY <1>3, OpenStreamMoves DEF NextPage
<1> QED BY <1>1, <1>2, <1>3

\* The loop is off its place after an iteration that ends early.
LEMMA SetAsideAfter ==
  /\ \A t : /\ LoopTop(t).loop \in Aside
            /\ LoopTop(t).cursor = 0 /\ LoopTop(t).upto = 0
  /\ \A w, t : \A next \in {"retrying", "auth_paused"} :
       /\ LoopEnd(w, next, t).loop \in Aside
       /\ LoopEnd(w, next, t).cursor = 0 /\ LoopEnd(w, next, t).upto = 0
  /\ NoWorker.loop \in Aside /\ NoWorker.cursor = 0 /\ NoWorker.upto = 0
BY DEF LoopTop, LoopEnd, NoWorker, Aside

\* A loop that starts on message n of a page, up to upto.
StartsMessage(w, n, upto) ==
  /\ UNCHANGED call /\ OnlyWorker(w) /\ OnlyJob(w)
  /\ worker'[w].loop = "batch" /\ ~worker'[w].catchUp
  /\ worker'[w].cursor = n - 1 /\ worker'[w].upto = upto
  /\ job'[w] = Begin(n)

\* The steps of a loop: it goes to sleep or wakes up ...
LoopRests(w) ==
  /\ worker[w].loop \in {"reading", "getCheckpoint", "setCheckpoint",
                         "retrying", "auth_paused"}
  /\ UNCHANGED <<store, call, job, past>> /\ OnlyWorker(w) /\ SetAside(w)

\* ... reads where to start ...
LoopStarts(w) ==
  /\ worker[w].loop = "getCheckpoint" /\ UNCHANGED <<store, job, past>>
  /\ \/ ckpt = None /\ Asks(w, 0, TRUE)
     \/ ckpt # None /\ Asks(w, ckpt, FALSE)

\* ... passes over a page of history ...
LoopCatchesUp(w) ==
  /\ worker[w].loop = "reading" /\ worker[w].catchUp
  /\ UNCHANGED <<store, job, past>>
  /\ \E n \in 0..posted : Asks(w, n, TRUE) \/ CaughtUp(w, n)

\* ... and stores where it ended ...
LoopEndsCatchUp(w) ==
  SetCheckpoint(w) /\ \E k \in Calls : Opens(w, k, worker[w].cursor)

\* ... gets an empty page ...
LoopConnects(w) ==
  /\ worker[w].loop = "reading" /\ ~worker[w].catchUp
  /\ UNCHANGED <<store, job, past>>
  /\ \/ Asks(w, worker[w].cursor, FALSE)
     \/ \E k \in Calls : Opens(w, k, worker[w].cursor)

\* ... or begins with the first message of one, goes on with the next ...
LoopBegins(w) ==
  /\ worker[w].loop = "reading" /\ ~worker[w].catchUp
  /\ UNCHANGED <<store, past>>
  /\ worker[w].cursor < MaxMsg
  /\ \E upto \in (worker[w].cursor + 1)..posted :
       StartsMessage(w, worker[w].cursor + 1, upto)

LoopContinues(w) ==
  /\ job[w].stage = "checkMailbox" /\ UNCHANGED <<store, past>>
  /\ worker[w].cursor + 1 < worker[w].upto
  /\ StartsMessage(w, worker[w].cursor + 2, worker[w].upto)

\* ... and leaves the page behind its last one; or it fails on a message.
LoopFinishesPage(w) ==
  /\ job[w].stage = "checkMailbox" /\ UNCHANGED <<store, past>>
  /\ worker[w].cursor + 1 = worker[w].upto
  /\ job'[w] = Idle /\ OnlyJob(w)
  /\ \/ Asks(w, worker[w].cursor + 1, FALSE)
     \/ \E k \in Calls : Opens(w, k, worker[w].cursor + 1)

LoopFails(w) ==
  AbandonMessage(w) /\ UNCHANGED call /\ OnlyWorker(w) /\ SetAside(w)

LoopMove(w) ==
  \/ LoopRests(w) \/ LoopStarts(w) \/ LoopCatchesUp(w) \/ LoopEndsCatchUp(w)
  \/ LoopConnects(w) \/ LoopBegins(w) \/ LoopContinues(w) \/ LoopFinishesPage(w)
  \/ LoopFails(w)

LEMMA LoopMoves ==
  ASSUME PlaceInv, NEW w \in Workers, LoopStep(w)
  PROVE  LoopMove(w)
<1> USE DEF PlaceInv, LoopMove
<1> DEFINE cursor == worker[w].cursor
<1>0. w \in Pipelines /\ cursor \in 0..MaxMsg /\ worker[w].upto \in 0..MaxMsg
      /\ posted \in 0..MaxMsg /\ worker[w].catchUp \in BOOLEAN /\ MaxMsg \in Nat
  BY NumbersAssumption DEF Pipelines, TypeOK, WorkerState
<1>1. CASE ReadFail(w) \/ ReadReject(w) \/ LoopDbError(w) \/ WakeUp(w)
  <2>1. UNCHANGED <<store, call, job, past>> /\ OnlyWorker(w)
    BY <1>1 DEF ReadFail, ReadReject, LoopDbError, WakeUp, OnlyWorker, TypeOK
  <2>2. SetAside(w) /\ worker[w].loop \in {"reading", "getCheckpoint", "setCheckpoint",
                                           "retrying", "auth_paused"}
    BY <1>1, SetAsideAfter DEF ReadFail, ReadReject, LoopDbError, WakeUp, Retry,
       AuthPause, SetAside, TypeOK
  <2> QED BY <2>1, <2>2 DEF LoopRests
<1>2. CASE GetCheckpoint(w)
  <2>1. worker[w].loop = "getCheckpoint" /\ UNCHANGED <<store, job, past, call>>
    BY <1>2 DEF GetCheckpoint
  <2>2. \/ ckpt = None /\ Asks(w, 0, TRUE)
        \/ ckpt # None /\ Asks(w, ckpt, FALSE)
    BY <1>2 DEF GetCheckpoint, Reading, Asks, OnlyWorker, TypeOK
  <2> QED BY <2>1, <2>2 DEF LoopStarts
<1>3. CASE ReadOk(w)
  <2> DEFINE upto == Min({cursor + Batch, posted})
             more == upto < posted
  <2>1. upto \in 0..posted /\ (upto <= cursor => upto = cursor)
    <3>1. cursor + Batch \in Nat /\ posted \in Nat /\ cursor < cursor + Batch
      BY <1>0, NumbersAssumption
    <3> QED BY <1>0, <3>1, MinOfTwo DEF WithinPosted
  <2>2. /\ worker[w].loop = "reading" /\ UNCHANGED <<store, past>>
        /\ \/ /\ worker[w].catchUp \/ upto <= cursor
              /\ NextPage(w, upto, more, worker[w].catchUp)
              /\ UNCHANGED job
           \/ /\ ~worker[w].catchUp /\ upto > cursor
              /\ worker' = [worker EXCEPT ![w] = InBatch(w, upto, more)]
              /\ job' = [job EXCEPT ![w] = Begin(cursor + 1)]
              /\ UNCHANGED call
    BY <1>3 DEF ReadOk
  <2> HIDE DEF upto, more
  <2>3. CASE /\ worker[w].catchUp \/ upto <= cursor
             /\ NextPage(w, upto, more, worker[w].catchUp)
             /\ UNCHANGED job
    <3>1. \/ Asks(w, upto, worker[w].catchUp)
          \/ worker[w].catchUp /\ CaughtUp(w, upto)
          \/ ~worker[w].catchUp /\ \E k \in Calls : Opens(w, k, upto)
      BY <2>3, NextPageMoves
    <3>2. CASE worker[w].catchUp
      <4>1. worker[w].catchUp = TRUE
        BY <1>0, <3>2
      <4> QED BY <2>1, <2>2, <2>3, <3>1, <4>1 DEF LoopCatchesUp
    <3>3. CASE ~worker[w].catchUp
      <4>1. worker[w].catchUp = FALSE /\ upto = cursor
        BY <1>0, <2>1, <2>3, <3>3
      <4> QED BY <2>2, <2>3, <3>1, <4>1 DEF LoopConnects
    <3> QED BY <3>2, <3>3
  <2>4. CASE /\ ~worker[w].catchUp /\ upto > cursor
             /\ worker' = [worker EXCEPT ![w] = InBatch(w, upto, more)]
             /\ job' = [job EXCEPT ![w] = Begin(cursor + 1)]
             /\ UNCHANGED call
    <3>1. upto \in (cursor + 1)..posted /\ cursor < MaxMsg /\ cursor + 1 - 1 = cursor
      BY <1>0, <2>1, <2>4
    <3>2. OnlyWorker(w) /\ OnlyJob(w) /\ job'[w] = Begin(cursor + 1)
      BY <1>0, <2>4 DEF OnlyWorker, OnlyJob, TypeOK
    <3>3. /\ worker'[w].loop = "batch" /\ ~worker'[w].catchUp
          /\ worker'[w].cursor = cursor /\ worker'[w].upto = upto
      BY <2>4 DEF TypeOK, InBatch
    <3>4. StartsMessage(w, cursor + 1, upto)
      BY <1>0, <2>4, <3>1, <3>2, <3>3 DEF StartsMessage
    <3> QED BY <2>2, <2>4, <3>1, <3>4 DEF LoopBegins
  <2> QED BY <2>2, <2>3, <2>4
<1>4. CASE SetCheckpoint(w)
  BY <1>4, OpenStreamMoves DEF SetCheckpoint, LoopEndsCatchUp
<1>5. CASE CheckMailboxInBatch(w)
  <2>1. /\ job[w].stage = "checkMailbox" /\ UNCHANGED <<store, past>>
        /\ \/ /\ cursor + 1 < worker[w].upto
              /\ worker' = [worker EXCEPT ![w].cursor = cursor + 1]
              /\ job' = [job EXCEPT ![w] = Begin(cursor + 1 + 1)]
              /\ UNCHANGED call
           \/ /\ cursor + 1 = worker[w].upto
              /\ job' = [job EXCEPT ![w] = Idle]
              /\ NextPage(w, cursor + 1, worker[w].more, FALSE)
    BY <1>5 DEF CheckMailboxInBatch
  <2>2. CASE /\ cursor + 1 < worker[w].upto
             /\ worker' = [worker EXCEPT ![w].cursor = cursor + 1]
             /\ job' = [job EXCEPT ![w] = Begin(cursor + 1 + 1)]
             /\ UNCHANGED call
    <3>1. cursor + 1 + 1 = cursor + 2 /\ cursor + 2 - 1 = cursor + 1
      BY <1>0
    <3>2. UNCHANGED call /\ OnlyWorker(w) /\ OnlyJob(w) /\ job'[w] = Begin(cursor + 2)
      BY <1>0, <2>2, <3>1 DEF OnlyWorker, OnlyJob, TypeOK
    <3>3. /\ worker'[w].loop = worker[w].loop
          /\ worker'[w].catchUp <=> worker[w].catchUp
          /\ worker'[w].cursor = cursor + 1 /\ worker'[w].upto = worker[w].upto
      BY <2>2 DEF TypeOK, WorkerState
    <3>4. worker[w].loop = "batch" /\ ~worker[w].catchUp
      BY <2>1 DEF BatchIsBusy, Busy
    <3>5. StartsMessage(w, cursor + 2, worker[w].upto)
      BY <1>0, <3>1, <3>2, <3>3, <3>4 DEF StartsMessage
    <3> QED BY <2>1, <2>2, <3>5 DEF LoopContinues
  <2>3. CASE /\ cursor + 1 = worker[w].upto
             /\ job' = [job EXCEPT ![w] = Idle]
             /\ NextPage(w, cursor + 1, worker[w].more, FALSE)
    <3>1. Asks(w, cursor + 1, FALSE) \/ \E k \in Calls : Opens(w, k, cursor + 1)
      BY <2>3, NextPageMoves
    <3>2. job'[w] = Idle /\ OnlyJob(w)
      BY <1>0, <2>3 DEF OnlyJob, TypeOK
    <3> QED BY <2>1, <2>3, <3>1, <3>2 DEF LoopFinishesPage
  <2> QED BY <2>1, <2>2, <2>3
<1>6. CASE DbErrorInBatch(w)
  BY <1>6, SetAsideAfter DEF DbErrorInBatch, Retry, SetAside, OnlyWorker, TypeOK,
     LoopFails
<1> QED BY <1>1, <1>2, <1>3, <1>4, <1>5, <1>6 DEF LoopStep

\* What becomes of a call: it stands where it stood, or it is forgotten.
CallKept(k) ==
  /\ call'[k].owner = call[k].owner
  /\ call'[k].taken = call[k].taken /\ call'[k].sent = call[k].sent

\* A call that is over stays until its buffer is drained.
Closes(k) ==
  /\ OnlyCall(k)
  /\ \/ CallKept(k) /\ call'[k].state = "closed"
     \/ call'[k] = NoCall /\ ~Busy(k)

\* The same for a call that ends with its owner's loop.
Leaves(k) ==
  /\ call[k].state # "closed" /\ call[k].owner \in Workers
  /\ worker[call[k].owner].loop = "streaming"
  /\ OnlyWorker(call[k].owner) /\ SetAside(call[k].owner)

\* Call k takes the next message out of its buffer.
Takes(k) ==
  /\ ~Busy(k) /\ call[k].taken < call[k].sent
  /\ job'[k] = Begin(call[k].taken + 1) /\ OnlyJob(k)
  /\ OnlyCall(k) /\ call'[k].owner = call[k].owner
  /\ call'[k].taken = call[k].taken + 1 /\ call'[k].sent = call[k].sent

\* What a call does behind the message it has finished with.
Resumes(k) ==
  /\ OnlyCall(k)
  /\ \/ call'[k] = call[k]
     \/ call'[k] = NoCall /\ call[k].state = "closed"

LEMMA SettleMoves ==
  ASSUME NEW c, NEW busy
  PROVE  \/ Settle(c, busy) = c
         \/ Settle(c, busy) = NoCall /\ c.state = "closed" /\ ~busy
BY DEF Settle

\* The steps of a call: a message arrives ...
CallReceives(k) ==
  /\ call[k].state = "open" /\ UNCHANGED <<store, worker, job, past>>
  /\ OnlyCall(k) /\ call'[k].state = "open"
  /\ call'[k].owner = call[k].owner /\ call'[k].taken = call[k].taken
  /\ call'[k].sent \in call[k].sent..posted

\* ... is handed out, perhaps the last one of a call that ends with it ...
CallTakes(k) ==
  /\ Takes(k) /\ call'[k].state = call[k].state
  /\ UNCHANGED <<store, worker, past>>

CallTakesLast(k) ==
  /\ Takes(k) /\ Leaves(k) /\ call'[k].state = "closed"
  /\ call[k].taken + 1 = call[k].sent
  /\ UNCHANGED <<store, handled, skipped, pushes>>
  /\ interrupted' = interrupted \cup {call[k].taken + 1}

\* ... or the call ends with what it holds; its handler finishes or fails.
CallEnds(k) ==
  /\ Leaves(k) /\ Closes(k)
  /\ UNCHANGED <<store, job, handled, skipped, pushes>>
  /\ interrupted' = interrupted \cup InFlight(k)

CallFails(k) ==
  AbandonMessage(k) /\ UNCHANGED worker /\ Resumes(k)

CallMove(k) ==
  \/ CallReceives(k) \/ CallTakes(k) \/ CallTakesLast(k) \/ CallEnds(k)
  \/ CheckMailboxInStream(k) \/ CallFails(k)

LEMMA CallMoves ==
  ASSUME PlaceInv, NEW k \in Calls, CallStep(k)
  PROVE  CallMove(k)
<1> USE DEF PlaceInv, CallMove
<1>0. k \in Pipelines
  BY DEF Pipelines
<1>1. CASE Deliver(k) \/ ServerEnds(k)
  <2>1. /\ call[k].state = "open" /\ UNCHANGED <<store, worker, job, past>>
        /\ OnlyCall(k) /\ call'[k].state = "open"
        /\ call'[k].owner = call[k].owner /\ call'[k].taken = call[k].taken
    BY <1>1 DEF Deliver, ServerEnds, OnlyCall, TypeOK, CallState
  <2>2. call[k].sent \in Nat /\ posted \in Nat /\ call[k].sent <= posted
    BY NumbersAssumption DEF TypeOK, CallState, WithinPosted
  <2>3. CASE ServerEnds(k)
    <3>1. call'[k].sent = call[k].sent
      BY <2>3 DEF ServerEnds, TypeOK, CallState
    <3> QED BY <2>1, <2>2, <3>1 DEF CallReceives
  <2>4. CASE Deliver(k)
    <3>1. call'[k].sent = call[k].sent + 1 /\ call[k].sent < posted
      BY <2>4 DEF Deliver, TypeOK, CallState
    <3> QED BY <2>1, <2>2, <3>1 DEF CallReceives
  <2> QED BY <1>1, <2>3, <2>4
<1>2. CASE Data(k)
  <2> DEFINE last == call[k].ended /\ call[k].taken + 1 = call[k].sent
                     /\ call[k].state # "closed"
             c == [call[k] EXCEPT !.taken = @ + 1]
             w == call[k].owner
  <2>1. /\ ~Busy(k) /\ call[k].taken < call[k].sent
        /\ job' = [job EXCEPT ![k] = Begin(c.taken)]
        /\ call' = [call EXCEPT ![k] =
                      IF last THEN [c EXCEPT !.state = "closed"] ELSE c]
        /\ worker' = IF last THEN [worker EXCEPT ![w] = Retry(w)] ELSE worker
        /\ interrupted' = IF last THEN interrupted \cup {c.taken} ELSE interrupted
        /\ UNCHANGED <<store, handled, skipped, pushes>>
    BY <1>2 DEF Data
  <2>2. c.taken = call[k].taken + 1
    BY DEF TypeOK, CallState
  <2>3. /\ OnlyCall(k) /\ call'[k].owner = call[k].owner
        /\ call'[k].taken = call[k].taken + 1 /\ call'[k].sent = call[k].sent
        /\ last => call'[k].state = "closed"
        /\ ~last => call'[k].state = call[k].state
    BY <2>1 DEF OnlyCall, TypeOK, CallState
  <2>4. Takes(k)
    BY <1>0, <2>1, <2>2, <2>3 DEF Takes, OnlyJob, TypeOK
  <2>5. CASE last
    <3>1. w \in Workers /\ worker[w].loop = "streaming" /\ call[k].state # "closed"
          /\ worker' = [worker EXCEPT ![w] = LoopEnd(w, "retrying", None)]
      BY <2>1, <2>5 DEF LiveCallsStream, Retry
    <3>2. Leaves(k)
      BY <3>1, SetAsideAfter DEF Leaves, SetAside, OnlyWorker, TypeOK
    <3> QED BY <2>1, <2>2, <2>3, <2>4, <2>5, <3>2 DEF CallTakesLast
  <2>6. CASE ~last
    BY <2>1, <2>3, <2>4, <2>6 DEF past, CallTakes
  <2> QED BY <2>5, <2>6
<1>3. CASE CallEnd(k) \/ CallError(k) \/ CallReject(k) \/ CallCancelled(k)
  <2>1. /\ call[k].state # "closed"
        /\ \E s : /\ FinishCall(k, s)
                  /\ s.loop \in Aside /\ s.cursor = 0 /\ s.upto = 0
    BY <1>3, SetAsideAfter DEF CallEnd, CallError, CallReject, CallCancelled,
       Retry, AuthPause
  <2>2. PICK s : FinishCall(k, s) /\ s.loop \in Aside /\ s.cursor = 0 /\ s.upto = 0
    BY <2>1
  <2>3. call[k].owner \in Workers /\ worker[call[k].owner].loop = "streaming"
    BY <2>1 DEF LiveCallsStream
  <2>4. Leaves(k)
    BY <2>1, <2>2, <2>3 DEF Leaves, FinishCall, SetAside, OnlyWorker, TypeOK
  <2>5. call'[k] = Settle([call[k] EXCEPT !.state = "closed"], Busy(k)) /\ OnlyCall(k)
    BY <2>2 DEF FinishCall, OnlyCall, TypeOK
  <2>6. Closes(k)
    BY <2>5, SettleMoves DEF Closes, CallKept, TypeOK, CallState
  <2> QED BY <2>2, <2>4, <2>6 DEF FinishCall, CallEnds
<1>4. CASE DbErrorInStream(k)
  <2>1. AbandonMessage(k) /\ UNCHANGED worker
        /\ call' = [call EXCEPT ![k] = Settle(call[k], FALSE)]
    BY <1>4 DEF DbErrorInStream
  <2>2. Resumes(k)
    BY <2>1, SettleMoves DEF Resumes, OnlyCall, TypeOK
  <2> QED BY <2>1, <2>2 DEF CallFails
<1> QED BY <1>1, <1>2, <1>3, <1>4 DEF CallStep

\* A call that is not in use processes nothing.
LEMMA UnusedCallIdle ==
  ASSUME TypeOK, BusyOnTaken, NEW k \in Calls, call[k] = NoCall
  PROVE  ~Busy(k)
<1>1. Busy(k) => job[k].msg \in Msgs
  BY JobsTyped DEF TypeOK, Busy, Pipelines
<1>2. call[k].taken = 0 /\ 0 \notin Msgs
  BY DEF NoCall, Msgs
<1> QED BY <1>1, <1>2 DEF BusyOnTaken

\* The loop of w moves on from anywhere but a stream.
LEMMA LoopMovesCalls ==
  ASSUME PlaceInv, NEW w \in Workers, worker[w].loop # "streaming",
         NEW n \in 0..MaxMsg, n <= posted, UNCHANGED posted,
         \/ UNCHANGED call /\ OnlyWorker(w)
         \/ \E k \in Calls : Opens(w, k, n),
         \A k \in Calls : job'[k] = job[k]
  PROVE  /\ BusyOnTaken' /\ LiveCallsStream'
         /\ \A k \in Calls : call'[k].taken <= call'[k].sent /\ call'[k].sent <= posted'
<1> USE DEF PlaceInv
<1>1. CASE UNCHANGED call /\ OnlyWorker(w)
  BY <1>1 DEF OnlyWorker, BusyOnTaken, Busy, LiveCallsStream, WithinPosted
<1>2. ASSUME NEW k \in Calls, Opens(w, k, n)
      PROVE  /\ BusyOnTaken' /\ LiveCallsStream'
             /\ \A j \in Calls : call'[j].taken <= call'[j].sent /\ call'[j].sent <= posted'
  <2>1. BusyOnTaken'
    BY <1>2, UnusedCallIdle DEF Opens, OnlyCall, BusyOnTaken, Busy
  <2>2. LiveCallsStream'
    BY <1>2 DEF Opens, OnlyCall, OnlyWorker, LiveCallsStream
  <2>3. \A j \in Calls : call'[j].taken <= call'[j].sent /\ call'[j].sent <= posted'
    BY <1>2 DEF Opens, OnlyCall, WithinPosted
  <2> QED BY <2>1, <2>2, <2>3
<1> QED BY <1>1, <1>2

PlacesKept == BatchIsBusy /\ BusyOnTaken /\ LiveCallsStream /\ WithinPosted

\* A step of a worker's loop.
LEMMA LoopKeepsPlaces ==
  ASSUME PlaceInv, NEW w \in Workers, LoopStep(w)
  PROVE  PlacesKept'
<1> USE DEF PlaceInv
<1> DEFINE cursor == worker[w].cursor
<1>0. /\ w \in Pipelines /\ Calls \subseteq Pipelines \ {w}
      /\ Workers \ {w} \subseteq Pipelines \ {w}
      /\ posted \in 0..MaxMsg /\ MaxMsg \in Nat /\ cursor \in 0..posted
      /\ worker[w].upto \in 0..posted
  BY SetsAssumption, NumbersAssumption DEF Pipelines, TypeOK, WorkerState, WithinPosted
<1>1. UNCHANGED posted
  BY DEF LoopStep, GetCheckpoint, ReadOk, ReadFail, ReadReject, SetCheckpoint,
     LoopDbError, WakeUp, CheckMailboxInBatch, DbErrorInBatch, AbandonMessage
<1>3. worker[w].loop = "batch" <=> job[w].stage # "idle"
  BY DEF BatchIsBusy, Busy
<1>4. worker[w].loop # "streaming"
  BY <1>3 DEF LoopStep, GetCheckpoint, ReadOk, ReadFail, ReadReject, SetCheckpoint,
     LoopDbError, WakeUp, CheckMailboxInBatch, DbErrorInBatch, AbandonMessage
\* Off the messages: the rest of the loop's steps.
<1>5. ASSUME UNCHANGED job, worker[w].loop # "batch", NEW n \in 0..posted,
             ckpt' = ckpt \/ ckpt' = n,
             \/ UNCHANGED call /\ OnlyWorker(w) /\ SetAside(w)
             \/ \E catchUp : Asks(w, n, catchUp)
             \/ CaughtUp(w, n)
             \/ \E k \in Calls : Opens(w, k, n)
      PROVE  PlacesKept'
  <2>1. /\ OnlyWorker(w) /\ worker'[w].loop # "batch"
        /\ worker'[w].cursor \in {0, n} /\ worker'[w].upto \in {0, worker[w].upto}
    BY <1>5 DEF SetAside, Aside, Asks, CaughtUp, Opens
  <2>2. BatchIsBusy'
    BY <1>3, <1>5, <2>1 DEF OnlyWorker, BatchIsBusy, Busy
  <2>3. n \in 0..MaxMsg /\ n <= posted
    BY <1>0
  <2>4. (UNCHANGED call /\ OnlyWorker(w)) \/ \E k \in Calls : Opens(w, k, n)
    BY <1>5 DEF Asks, CaughtUp
  <2>5. /\ BusyOnTaken' /\ LiveCallsStream'
        /\ \A k \in Calls : call'[k].taken <= call'[k].sent /\ call'[k].sent <= posted'
    BY <1>1, <1>4, <1>5, <2>3, <2>4, LoopMovesCalls
  <2>6. WithinPosted'
    BY <1>0, <1>1, <1>5, <2>1, <2>5 DEF OnlyWorker, WithinPosted
  <2> QED BY <2>2, <2>5, <2>6 DEF PlacesKept
\* On a message: it begins the next one.
<1>6. ASSUME UNCHANGED ckpt, NEW m \in 1..posted, NEW upto \in m..posted,
             StartsMessage(w, m, upto)
      PROVE  PlacesKept'
  <2>1. job'[w].msg = m /\ job'[w].stage \in {"getDevices", "sending"}
    BY <1>0, <1>6, JobsTyped DEF StartsMessage, Msgs
  <2>2. BatchIsBusy'
    BY <1>0, <1>6, <2>1 DEF StartsMessage, OnlyWorker, OnlyJob, BatchIsBusy, Busy
  <2>3. BusyOnTaken' /\ LiveCallsStream'
    BY <1>0, <1>4, <1>6 DEF StartsMessage, OnlyWorker, OnlyJob, BusyOnTaken, Busy,
                            LiveCallsStream
  <2>4. WithinPosted'
    BY <1>0, <1>1, <1>6 DEF StartsMessage, OnlyWorker, WithinPosted
  <2> QED BY <2>2, <2>3, <2>4 DEF PlacesKept
\* At the end of a page, or of an iteration that failed on a message.
<1>7. ASSUME UNCHANGED ckpt, job'[w] = Idle, OnlyJob(w), NEW n \in 0..posted,
             \/ UNCHANGED call /\ OnlyWorker(w) /\ SetAside(w)
             \/ Asks(w, n, FALSE)
             \/ \E k \in Calls : Opens(w, k, n)
      PROVE  PlacesKept'
  <2>1. /\ OnlyWorker(w) /\ worker'[w].loop # "batch"
        /\ worker'[w].cursor \in {0, n} /\ worker'[w].upto = 0
    BY <1>7 DEF SetAside, Aside, Asks, Opens
  <2>2. BatchIsBusy'
    BY <1>0, <1>7, <2>1 DEF OnlyWorker, OnlyJob, BatchIsBusy, Busy, Idle
  <2>3. n \in 0..MaxMsg /\ n <= posted /\ \A k \in Calls : job'[k] = job[k]
    BY <1>0, <1>7 DEF OnlyJob
  <2>4. (UNCHANGED call /\ OnlyWorker(w)) \/ \E k \in Calls : Opens(w, k, n)
    BY <1>7 DEF Asks
  <2>5. /\ BusyOnTaken' /\ LiveCallsStream'
        /\ \A k \in Calls : call'[k].taken <= call'[k].sent /\ call'[k].sent <= posted'
    BY <1>1, <1>4, <2>3, <2>4, LoopMovesCalls
  <2>6. WithinPosted'
    BY <1>0, <1>1, <1>7, <2>1, <2>5 DEF OnlyWorker, WithinPosted
  <2> QED BY <2>2, <2>5, <2>6 DEF PlacesKept
<1>8. CASE LoopRests(w)
  BY <1>0, <1>5, <1>8 DEF LoopRests, store
<1>9. CASE LoopStarts(w)
  <2>1. 0 \in 0..posted /\ (ckpt # None => ckpt \in 0..posted)
    BY <1>0 DEF WithinPosted, TypeOK
  <2> QED BY <1>5, <1>9, <2>1 DEF LoopStarts, store
<1>10. CASE LoopCatchesUp(w) \/ LoopConnects(w)
  BY <1>0, <1>5, <1>10 DEF LoopCatchesUp, LoopConnects, store
<1>11. CASE LoopEndsCatchUp(w)
  BY <1>0, <1>5, <1>11 DEF LoopEndsCatchUp, SetCheckpoint
<1>12. CASE LoopBegins(w)
  <2>1. PICK upto \in (cursor + 1)..posted : StartsMessage(w, cursor + 1, upto)
    BY <1>12 DEF LoopBegins
  <2>2. cursor + 1 \in 1..posted
    BY <1>0
  <2> QED BY <1>6, <1>12, <2>1, <2>2 DEF LoopBegins, store
<1>13. CASE LoopContinues(w)
  <2>1. cursor + 2 \in 1..posted /\ worker[w].upto \in (cursor + 2)..posted
    BY <1>0, <1>13 DEF LoopContinues
  <2> QED BY <1>6, <1>13, <2>1 DEF LoopContinues, store
<1>14. CASE LoopFinishesPage(w)
  BY <1>0, <1>7, <1>14 DEF LoopFinishesPage, store
<1>15. CASE LoopFails(w)
  <2>1. UNCHANGED ckpt /\ job'[w] = Idle /\ OnlyJob(w)
    BY <1>0, <1>15 DEF LoopFails, AbandonMessage, OnlyJob, TypeOK, store
  <2> QED BY <1>0, <1>7, <1>15, <2>1 DEF LoopFails
<1> QED BY <1>8, <1>9, <1>10, <1>11, <1>12, <1>13, <1>14, <1>15, LoopMoves DEF LoopMove

\* A handler that finished with its message may end the worker of a mailbox
\* that is gone, and cancel its call.
LEMMA StreamHandlerMoves ==
  ASSUME PlaceInv, NEW k \in Calls, CheckMailboxInStream(k)
  PROVE  /\ job[k].stage = "checkMailbox" /\ job'[k] = Idle /\ OnlyJob(k)
         /\ UNCHANGED <<store, past>>
         /\ \A w \in Workers : \/ worker'[w] = worker[w]
                               \/ worker[w].loop \in Aside /\ SetAside(w)
         /\ \A j \in Calls : \/ CallKept(j) /\ (call'[j].state # "closed" => call[j].state # "closed")
                             \/ call'[j] = NoCall /\ j = k
         /\ reg # None => /\ UNCHANGED <<current, worker>> /\ Resumes(k)
<1> USE DEF PlaceInv
<1>1. /\ job[k].stage = "checkMailbox" /\ job'[k] = Idle /\ OnlyJob(k)
      /\ UNCHANGED <<store, past>>
  BY DEF CheckMailboxInStream, OnlyJob, Pipelines, TypeOK
<1>2. \A w \in Workers : \/ worker'[w] = worker[w]
                         \/ worker[w].loop \in Aside /\ SetAside(w)
  <2>1. UNCHANGED worker \/ worker' = WokenToStop(call[k].owner)
    BY DEF CheckMailboxInStream
  <2> QED BY <2>1, SetAsideAfter DEF WokenToStop, Sleeping, SetAside, Aside, TypeOK
<1> DEFINE cancelled == Cancelled(call[k].owner)
<1>3. \A j \in Calls :
        /\ cancelled[j].taken = call[j].taken /\ cancelled[j].sent = call[j].sent
        /\ cancelled[j].owner = call[j].owner
        /\ cancelled[j].state = "closed" <=> call[j].state = "closed"
  BY DEF Cancelled, TypeOK, CallState
<1>4. \/ call' = [cancelled EXCEPT ![k] = Settle(cancelled[k], FALSE)]
      \/ call' = [call EXCEPT ![k] = Settle(call[k], FALSE)]
  BY DEF CheckMailboxInStream
<1>5. cancelled \in [Calls -> CallState] /\ call \in [Calls -> CallState]
  BY CallsTyped DEF TypeOK
<1>6. reg # None => UNCHANGED <<current, worker>>
                    /\ call' = [call EXCEPT ![k] = Settle(call[k], FALSE)]
  BY DEF CheckMailboxInStream
<1> HIDE DEF cancelled
<1>7. \A j \in Calls \ {k} : call'[j] = cancelled[j] \/ call'[j] = call[j]
  BY <1>4, <1>5
<1>8. call'[k] = cancelled[k] \/ call'[k] = call[k] \/ call'[k] = NoCall
  BY <1>4, <1>5 DEF Settle
<1>9. \A j \in Calls : \/ CallKept(j) /\ (call'[j].state # "closed" => call[j].state # "closed")
                       \/ call'[j] = NoCall /\ j = k
  BY <1>3, <1>7, <1>8 DEF CallKept
<1>10. reg # None => Resumes(k)
  BY <1>5, <1>6 DEF Resumes, OnlyCall, Settle
<1> QED BY <1>1, <1>2, <1>6, <1>9, <1>10

\* A step of a call.
LEMMA CallKeepsPlaces ==
  ASSUME PlaceInv, NEW k \in Calls, CallStep(k)
  PROVE  PlacesKept'
<1> USE DEF PlaceInv
<1>0. /\ k \notin Workers /\ k \in Pipelines /\ Workers \subseteq Pipelines \ {k}
      /\ Calls \ {k} \subseteq Pipelines \ {k} /\ Workers \subseteq Pipelines
      /\ NoCall.taken = 0 /\ NoCall.sent = 0 /\ NoCall.state = "closed"
  BY SetsAssumption DEF Pipelines, NoCall
<1>1. UNCHANGED <<posted, ckpt>>
  BY DEF CallStep, Deliver, ServerEnds, Data, CallEnd, CallError, CallReject,
     CallCancelled, FinishCall, CheckMailboxInStream, DbErrorInStream,
     AbandonMessage, store
<1>2. /\ posted \in Nat /\ MaxMsg \in Nat
      /\ call[k].taken \in Nat /\ call[k].sent \in Nat
      /\ call[k].taken <= call[k].sent /\ call[k].sent <= posted /\ posted <= MaxMsg
  BY NumbersAssumption DEF TypeOK, CallState, WithinPosted
<1>3. CASE CallReceives(k)
  <2>1. BatchIsBusy' /\ BusyOnTaken'
    BY <1>3 DEF CallReceives, OnlyCall, BatchIsBusy, BusyOnTaken, Busy
  <2>2. LiveCallsStream'
    BY <1>3, NoNewCall DEF CallReceives, OnlyCall
  <2>3. call'[k].taken <= call'[k].sent /\ call'[k].sent <= posted'
    BY <1>1, <1>2, <1>3 DEF CallReceives
  <2> QED BY <1>1, <1>3, <2>1, <2>2, <2>3 DEF CallReceives, OnlyCall, WithinPosted, PlacesKept
<1>4. ASSUME Takes(k)
      PROVE  /\ BusyOnTaken' /\ \A w \in Workers : job'[w] = job[w]
             /\ \A j \in Calls : call'[j].taken <= call'[j].sent /\ call'[j].sent <= posted'
  <2>1. call[k].taken + 1 \in Msgs /\ call[k].taken + 1 <= call[k].sent
    <3>1. call[k].taken < call[k].sent
      BY <1>4 DEF Takes
    <3> QED BY <1>2, <3>1 DEF Msgs
  <2>2. job'[k].msg = call[k].taken + 1
    BY <1>4, <2>1, JobsTyped DEF Takes
  <2> QED BY <1>0, <1>1, <1>2, <1>4, <2>1, <2>2
          DEF Takes, OnlyJob, OnlyCall, BusyOnTaken, Busy, WithinPosted
<1>5. ASSUME Leaves(k), \A w \in Workers : job'[w] = job[w]
      PROVE  /\ BatchIsBusy'
             /\ \A w \in Workers : worker'[w].cursor <= posted' /\ worker'[w].upto <= posted'
             /\ \A w \in Workers \ {call[k].owner} : worker'[w] = worker[w]
  <2>1. ~Busy(call[k].owner)
    BY <1>5 DEF Leaves, BatchIsBusy
  <2> QED BY <1>1, <1>2, <1>5, <2>1 DEF Leaves, SetAside, Aside, OnlyWorker, BatchIsBusy,
             Busy, WithinPosted
<1>6. ASSUME Leaves(k), OnlyCall(k), call'[k].state = "closed"
      PROVE  LiveCallsStream'
  BY <1>6 DEF Leaves, OnlyCall, OnlyWorker, LiveCallsStream
<1>7. CASE CallTakes(k)
  <2>1. BatchIsBusy'
    BY <1>4, <1>7 DEF CallTakes, BatchIsBusy, Busy
  <2>2. LiveCallsStream'
    BY <1>7, NoNewCall DEF CallTakes, Takes, OnlyCall
  <2>3. WithinPosted'
    BY <1>1, <1>4, <1>7 DEF CallTakes, WithinPosted
  <2> QED BY <1>4, <1>7, <2>1, <2>2, <2>3 DEF CallTakes, PlacesKept
<1>8. CASE CallTakesLast(k)
  <2>1. WithinPosted'
    BY <1>1, <1>4, <1>5, <1>8 DEF CallTakesLast, WithinPosted
  <2> QED BY <1>4, <1>5, <1>6, <1>8, <2>1 DEF CallTakesLast, Takes, PlacesKept
<1>9. CASE CallEnds(k)
  <2>1. OnlyCall(k) /\ call'[k].state = "closed"
        /\ \/ call'[k].taken = call[k].taken /\ call'[k].sent = call[k].sent
           \/ call'[k] = NoCall
    BY <1>0, <1>9 DEF CallEnds, Closes, CallKept
  <2>2. \A p \in Pipelines : job'[p] = job[p]
    BY <1>9 DEF CallEnds
  <2>3. BusyOnTaken'
    <3>1. call'[k].taken = call[k].taken \/ ~Busy(k)
      BY <1>9 DEF CallEnds, Closes, CallKept
    <3> QED BY <1>0, <2>1, <2>2, <3>1 DEF OnlyCall, BusyOnTaken, Busy
  <2>4. WithinPosted'
    BY <1>0, <1>1, <1>2, <1>5, <1>9, <2>1, <2>2 DEF CallEnds, OnlyCall, WithinPosted
  <2> QED BY <1>0, <1>5, <1>6, <1>9, <2>1, <2>2, <2>3, <2>4 DEF CallEnds, PlacesKept
<1>10. ASSUME \A w \in Workers : \/ worker'[w] = worker[w]
                                 \/ worker[w].loop \in Aside /\ SetAside(w),
              job'[k] = Idle, OnlyJob(k), job[k].stage # "idle",
              \A j \in Calls :
                \/ CallKept(j) /\ (call'[j].state # "closed" => call[j].state # "closed")
                \/ call'[j] = NoCall /\ j = k
       PROVE  PlacesKept'
  <2>1. \A w \in Workers : job'[w] = job[w]
    BY <1>0, <1>10 DEF OnlyJob
  <2>2. BatchIsBusy'
    BY <1>10, <2>1 DEF SetAside, Aside, BatchIsBusy, Busy
  <2>3. ~Busy(k)' /\ \A j \in Calls \ {k} : job'[j] = job[j]
    BY <1>0, <1>10 DEF OnlyJob, Idle, Busy
  <2>4. BusyOnTaken'
    BY <1>10, <2>3 DEF CallKept, BusyOnTaken, Busy
  <2>5. \A j \in Calls : call'[j].state # "closed" =>
          call[j].state # "closed" /\ call'[j].owner = call[j].owner
    BY <1>0, <1>10 DEF CallKept
  <2>6. LiveCallsStream'
    BY <1>10, <2>5, NoNewCall DEF SetAside, Aside
  <2>7. WithinPosted'
    BY <1>0, <1>1, <1>2, <1>10 DEF SetAside, CallKept, WithinPosted
  <2> QED BY <2>2, <2>4, <2>6, <2>7 DEF PlacesKept
<1>11. CASE CheckMailboxInStream(k)
  BY <1>10, <1>11, StreamHandlerMoves
<1>12. CASE CallFails(k)
  <2>1. job'[k] = Idle /\ OnlyJob(k) /\ job[k].stage # "idle" /\ UNCHANGED worker
    BY <1>0, <1>12 DEF CallFails, AbandonMessage, OnlyJob, TypeOK
  <2>2. \A j \in Calls :
          \/ CallKept(j) /\ (call'[j].state # "closed" => call[j].state # "closed")
          \/ call'[j] = NoCall /\ j = k
    BY <1>12 DEF CallFails, Resumes, OnlyCall, CallKept
  <2> QED BY <1>10, <2>1, <2>2
<1> QED BY <1>3, <1>7, <1>8, <1>9, <1>11, <1>12, CallMoves DEF CallMove

\* A step of a message: it stays in its pipeline.
LEMMA MessageMoves ==
  ASSUME TypeOK, NEW p \in Pipelines, MessageStep(p)
  PROVE  /\ UNCHANGED <<posted, worker, call, skipped, interrupted>>
         /\ OnlyJob(p) /\ job[p].stage # "idle" /\ job[p].msg \in Msgs
         /\ job'[p].msg = job[p].msg /\ job'[p].stage # "idle"
         /\ job'[p].stage = "checkMailbox" => Record(p)
<1>1. /\ UNCHANGED <<posted, worker, call, skipped, interrupted>>
      /\ job[p].stage \in {"getDevices", "sending", "removeStale", "refreshMetric"}
  BY DEF MessageStep, GetDevices, RemoveStale, RefreshMetric, Record, PushOk, PushFail, PushStale, past
<1>2. job[p] \in BusyState /\ job[p].msg \in Msgs
  BY <1>1, JobsTyped DEF TypeOK
<1>3. OnlyJob(p)
  <2>1. job \in [Pipelines -> JobState]
    BY DEF TypeOK
  <2>2. CASE GetDevices(p) \/ RemoveStale(p) \/ RefreshMetric(p) \/ Record(p)
    BY <2>1, <2>2 DEF GetDevices, RemoveStale, RefreshMetric, Record, OnlyJob
  <2>3. CASE \E d \in Devices : PushOk(p, d) \/ PushFail(p, d) \/ PushStale(p, d)
    BY <2>1, <2>3 DEF PushOk, PushFail, PushStale, OnlyJob
  <2> QED BY <2>2, <2>3 DEF MessageStep
<1>4. /\ job'[p].msg = job[p].msg /\ job'[p].stage # "idle"
      /\ job'[p].stage = "checkMailbox" => Record(p)
  <2>1. job \in [Pipelines -> JobState]
    BY DEF TypeOK
  <2>2. CASE GetDevices(p)
    BY <1>2, <2>1, <2>2 DEF GetDevices, BusyState
  <2>3. CASE RemoveStale(p) \/ RefreshMetric(p)
    BY <1>2, <2>1, <2>3 DEF RemoveStale, RefreshMetric, BusyState
  <2>4. CASE Record(p)
    BY <1>2, <2>1, <2>4 DEF Record, BusyState
  <2>5. ASSUME NEW d \in Devices, PushOk(p, d) \/ PushFail(p, d)
        PROVE  job'[p].msg = job[p].msg /\ job'[p].stage = "sending"
    BY <1>2, <2>1, <2>5 DEF PushOk, PushFail, BusyState
  <2>6. ASSUME NEW d \in Devices, PushStale(p, d)
        PROVE  job'[p].msg = job[p].msg /\ job'[p].stage = "removeStale"
    BY <1>2, <2>1, <2>6 DEF PushStale, BusyState
  <2> QED BY <2>2, <2>3, <2>4, <2>5, <2>6 DEF MessageStep
<1> QED BY <1>1, <1>2, <1>3, <1>4

LEMMA MessageKeepsPlaces ==
  ASSUME PlaceInv, NEW p \in Pipelines, MessageStep(p)
  PROVE  PlacesKept'
<1> USE DEF PlaceInv
<1>1. /\ UNCHANGED <<posted, worker, call>> /\ OnlyJob(p)
      /\ job[p].stage # "idle" /\ job[p].msg \in Msgs
      /\ job'[p].msg = job[p].msg /\ job'[p].stage # "idle"
  BY MessageMoves
<1>2. BatchIsBusy' /\ BusyOnTaken'
  BY <1>1 DEF OnlyJob, BatchIsBusy, BusyOnTaken, Busy, Pipelines
<1>3. LiveCallsStream'
  BY <1>1, NoNewCall
<1>4. job[p].msg <= posted
  <2>1. CASE p \in Workers
    <3>1. job[p].msg = worker[p].cursor + 1 /\ worker[p].cursor < worker[p].upto
          /\ worker[p].upto <= posted
      BY <1>1, <2>1 DEF BatchIsBusy, Busy, WithinPosted
    <3> QED BY <2>1, <3>1, NumbersAssumption DEF TypeOK, WorkerState
  <2>2. CASE p \in Calls
    <3>1. job[p].msg = call[p].taken /\ call[p].taken <= call[p].sent
          /\ call[p].sent <= posted
      BY <1>1, <2>2 DEF BusyOnTaken, Busy, WithinPosted
    <3> QED BY <2>2, <3>1, NumbersAssumption DEF TypeOK, CallState
  <2> QED BY <2>1, <2>2 DEF Pipelines
<1>5. ckpt' \in {ckpt, None, job[p].msg}
  BY DEF MessageStep, GetDevices, RemoveStale, UnregisterDevice, RefreshMetric, Record, PushOk,
         PushFail, PushStale, store
<1>6. WithinPosted'
  BY <1>1, <1>4, <1>5 DEF WithinPosted
<1> QED BY <1>2, <1>3, <1>6 DEF PlacesKept

\* Whatever happens around the mailbox, save a restart: no message moves, and a
\* loop is put aside only where it waits.
LEMMA OthersMove ==
  ASSUME PlaceInv,
         \/ Post \/ \E t \in Tokens : Expire(t)
         \/ \E d \in Devices, t \in Tokens : Register(d, t)
         \/ \E d \in Devices : Unregister(d)
         \/ StopIfUnused \/ Retain \/ UNCHANGED vars
  PROVE  /\ UNCHANGED <<job, past>>
         /\ posted' \in {posted, posted + 1} /\ ckpt' \in {ckpt, None}
         /\ \A w \in Workers : \/ SamePlace(w)
                               \/ worker[w].loop \in Aside /\ SetAside(w)
         /\ \A k \in Calls :
              CallKept(k) /\ (call'[k].state # "closed" => call[k].state # "closed")
<1> USE DEF PlaceInv
<1>1. /\ UNCHANGED <<job, past>>
      /\ posted' \in {posted, posted + 1} /\ ckpt' \in {ckpt, None}
  BY DEF Post, Expire, Register, Unregister, UnregisterDevice, StopIfUnused, Retain,
         vars, store, memory, past
<1>2. \A k \in Calls :
        CallKept(k) /\ (call'[k].state # "closed" => call[k].state # "closed")
  BY DEF Post, Expire, Register, Unregister, StopIfUnused, Retain, StopWorker,
         Cancelled, CallKept, vars, store, memory, TypeOK, CallState
<1>3. \A w \in Workers : SamePlace(w) \/ (worker[w].loop \in Aside /\ SetAside(w))
  <2>1. CASE \E d \in Devices, t \in Tokens : Register(d, t)
    <3>1. PICK d \in Devices, t \in Tokens : Register(d, t)
      BY <2>1
    <3>2. CASE current = None
      <4>1. PICK w \in Workers : FreeWorker(w) /\ worker' = [worker EXCEPT ![w] = LoopTop(t)]
        BY <3>1, <3>2 DEF Register
      <4> QED BY <4>1, SetAsideAfter DEF FreeWorker, SamePlace, SetAside, TypeOK
    <3>3. CASE current # None
      <4>1. worker' = [worker EXCEPT ![current] = IF Sleeping(current) THEN LoopTop(t)
                                 ELSE [worker[current] EXCEPT !.token = t]]
        BY <3>1, <3>3 DEF Register
      <4>2. CASE Sleeping(current)
        BY <4>1, <4>2, SetAsideAfter DEF Sleeping, SamePlace, SetAside, Aside, TypeOK
      <4>3. CASE ~Sleeping(current)
        BY <4>1, <4>3 DEF SamePlace, TypeOK, WorkerState
      <4> QED BY <4>2, <4>3
    <3> QED BY <3>2, <3>3
  <2>2. CASE StopIfUnused \/ Retain
    <3>1. UNCHANGED worker \/ worker' = WokenToStop(current)
      BY <2>2 DEF StopIfUnused, Retain, StopWorker
    <3> QED BY <3>1, SetAsideAfter DEF WokenToStop, Sleeping, SamePlace, SetAside, Aside, TypeOK
  <2>3. CASE \/ Post \/ \E t \in Tokens : Expire(t)
             \/ \E d \in Devices : Unregister(d)
             \/ UNCHANGED vars
    BY <2>3 DEF Post, Expire, Unregister, vars, store, memory, SamePlace
  <2> QED BY <2>1, <2>2, <2>3
<1> QED BY <1>1, <1>2, <1>3

LEMMA OthersKeepPlaces ==
  ASSUME PlaceInv,
         \/ Post \/ \E t \in Tokens : Expire(t)
         \/ \E d \in Devices, t \in Tokens : Register(d, t)
         \/ \E d \in Devices : Unregister(d)
         \/ StopIfUnused \/ Retain \/ UNCHANGED vars
  PROVE  PlacesKept'
<1> USE DEF PlaceInv
<1>1. /\ UNCHANGED <<job, past>>
      /\ posted' \in {posted, posted + 1} /\ ckpt' \in {ckpt, None}
      /\ \A w \in Workers : \/ SamePlace(w)
                            \/ worker[w].loop \in Aside /\ SetAside(w)
      /\ \A k \in Calls :
           CallKept(k) /\ (call'[k].state # "closed" => call[k].state # "closed")
  BY OthersMove
<1>2. BatchIsBusy' /\ BusyOnTaken'
  BY <1>1 DEF SamePlace, SetAside, Aside, CallKept, BatchIsBusy, BusyOnTaken, Busy
<1>3. LiveCallsStream'
  BY <1>1, NoNewCall DEF SamePlace, Aside, CallKept
<1>4. /\ posted \in Nat /\ (ckpt = None \/ ckpt \in Nat)
      /\ \A w \in Workers : worker[w].cursor \in Nat /\ worker[w].upto \in Nat
      /\ \A k \in Calls : call[k].sent \in Nat
  BY NumbersAssumption DEF TypeOK, WorkerState, CallState
<1>5. posted' \in Nat /\ posted <= posted'
  BY <1>1, <1>4
<1>6. ckpt' # None => ckpt' <= posted'
  BY <1>1, <1>4, <1>5 DEF WithinPosted
<1>7. \A w \in Workers : worker'[w].cursor <= posted' /\ worker'[w].upto <= posted'
  BY <1>1, <1>4, <1>5 DEF SamePlace, SetAside, WithinPosted
<1>8. \A k \in Calls : call'[k].taken <= call'[k].sent /\ call'[k].sent <= posted'
  BY <1>1, <1>4, <1>5 DEF CallKept, WithinPosted
<1>9. WithinPosted'
  BY <1>6, <1>7, <1>8 DEF WithinPosted
<1> QED BY <1>2, <1>3, <1>9 DEF PlacesKept

\* After a restart nothing of the process is left.
LEMMA RestartMoves ==
  ASSUME Restart
  PROVE  /\ \A p \in Pipelines : job'[p] = Idle
         /\ \A k \in Calls : call'[k] = NoCall
         /\ \A w \in Workers : SetAside(w)
BY SetAsideAfter DEF Restart, SetAside

LEMMA RestartKeepsPlaces ==
  ASSUME PlaceInv, Restart
  PROVE  PlacesKept'
<1> USE DEF PlaceInv
<1>1. /\ \A p \in Pipelines : job'[p] = Idle
      /\ \A k \in Calls : call'[k] = NoCall
      /\ \A w \in Workers : SetAside(w)
      /\ UNCHANGED <<posted, ckpt>> /\ posted \in Nat
  BY RestartMoves, NumbersAssumption DEF Restart, store, TypeOK
<1>2. BatchIsBusy' /\ BusyOnTaken'
  BY <1>1 DEF SetAside, Aside, Idle, BatchIsBusy, BusyOnTaken, Busy, Pipelines
<1>3. LiveCallsStream' /\ WithinPosted'
  BY <1>1 DEF SetAside, NoCall, LiveCallsStream, WithinPosted
<1> QED BY <1>2, <1>3 DEF PlacesKept

(***************************************************************************)
(* Where every loop and every call stands, whatever is deleted and started *)
(* again meanwhile (index.js, _backfill() and _subscribe()).               *)
(***************************************************************************)
THEOREM PlaceInvariant == Spec => []PlaceInv
<1>1. Init => PlaceInv
  <2> SUFFICES ASSUME Init PROVE PlaceInv
    OBVIOUS
  <2>1. TypeOK
    BY NumbersAssumption, LoopStatesTyped, CallsTyped, JobsTyped DEF Init, TypeOK
  <2> QED BY <2>1, NumbersAssumption DEF Init, PlaceInv, BatchIsBusy, BusyOnTaken, Busy,
             Idle, NoCall, NoWorker, LiveCallsStream, WithinPosted, Pipelines
<1>2. PlaceInv /\ TypeOK' /\ [Next]_vars => PlaceInv'
  <2> SUFFICES ASSUME PlaceInv, [Next]_vars PROVE PlacesKept'
    BY DEF PlaceInv, PlacesKept
  <2> QED BY LoopKeepsPlaces, CallKeepsPlaces, MessageKeepsPlaces, OthersKeepPlaces,
             RestartKeepsPlaces DEF Next
<1> QED BY <1>1, <1>2, TypeCorrect, PTL DEF Spec

(***************************************************************************)
(* No worker ever has two calls that are not over: a retry waits until the *)
(* call it replaces has ended (index.js:940).                              *)
(***************************************************************************)
THEOREM OneCallEach == Spec => []OneCallPerWorker
<1>1. PlaceInv => OneCallPerWorker
  BY DEF PlaceInv, LiveCallsStream, OneCallPerWorker
<1> QED BY <1>1, PlaceInvariant, PTL

-----------------------------------------------------------------------------
(* As long as the mailbox is not deleted *)

(***************************************************************************)
(* The hypothesis of the theorems below: a mailbox that is registered      *)
(* stays so.  Where it is deleted and registered again meanwhile, an old   *)
(* worker may still read and send, and none of the four properties holds.  *)
(***************************************************************************)
Stays        == reg # None => reg' # None
NeverDeleted == [][Stays]_vars

\* There is one worker then, and nobody cancels its call.
SoleWorker ==
  /\ \A w \in Workers : w # current => worker[w] = NoWorker
  /\ \A k \in Calls : call[k].state # "cancelled"
  /\ reg = None => current = None

\* Before there is a checkpoint nothing was passed over, processed or sent;
\* and a loop catches up if, and only if, it started without one.
BeforeCheckpoint ==
  /\ ckpt = None =>
       /\ skipped = {} /\ \A p \in Pipelines : ~Busy(p)
       /\ \A k \in Calls : call[k] = NoCall
       /\ \A x \in Msgs \X Devices : pushes[x] = 0
  /\ \A w \in Workers :
       /\ worker[w].loop = "reading" => (worker[w].catchUp <=> ckpt = None)
       /\ worker[w].loop = "setCheckpoint" => ckpt = None
       /\ worker[w].loop \in {"batch", "streaming"} => ckpt # None

SoleInv == PlaceInv /\ RegistrationInv /\ SoleWorker /\ BeforeCheckpoint

\* What a step can be then: of the one worker, of a call, of a message, ...
CallFinishes(k) ==
  /\ job[k].stage = "checkMailbox" /\ job'[k] = Idle /\ OnlyJob(k)
  /\ UNCHANGED <<store, worker, past>> /\ Resumes(k)

KeptCallMove(k) ==
  \/ CallReceives(k) \/ CallTakes(k) \/ CallTakesLast(k) \/ CallEnds(k)
  \/ CallFinishes(k) \/ CallFails(k)

\* ... or one that touches no message.
Quiet ==
  /\ UNCHANGED <<ckpt, call, job, past>>
  /\ \A w \in Workers : \/ SamePlace(w)
                        \/ worker[w].loop \in Aside /\ SetAside(w)

KeptStep ==
  \/ \E w \in Workers : w = current /\ reg # None /\ LoopMove(w)
  \/ \E k \in Calls : KeptCallMove(k)
  \/ \E p \in Pipelines : MessageStep(p) /\ (UNCHANGED ckpt \/ Record(p))
  \/ Quiet
  \/ Restart

\* What is busy, or has something to do, does so behind a checkpoint.
LEMMA BusyHasCheckpoint ==
  ASSUME SoleInv
  PROVE  /\ \A p \in Pipelines : job[p].stage # "idle" => ckpt # None
         /\ \A k \in Calls : \/ call[k].state # "closed"
                             \/ call[k].taken < call[k].sent
                             => ckpt # None
         /\ ckpt # None => reg # None
         /\ reg # None => current \in Workers
BY DEF SoleInv, BeforeCheckpoint, Busy, NoCall, RegistrationInv, NoLeftovers,
       WorkerHoldsLatestToken, TypeOK

LEMMA LoopStepsKept ==
  ASSUME SoleInv, NEW w \in Workers, LoopStep(w)
  PROVE  w = current /\ LoopMove(w) /\ reg # None /\ UNCHANGED <<reg, current>>
<1> USE DEF SoleInv
<1>1. w \in Pipelines
  BY DEF Pipelines
<1>2. worker[w].loop # "none"
  BY <1>1 DEF LoopStep, GetCheckpoint, ReadOk, ReadFail, ReadReject, SetCheckpoint,
     LoopDbError, WakeUp, CheckMailboxInBatch, DbErrorInBatch, AbandonMessage,
     PlaceInv, BatchIsBusy, Busy
<1>3. w = current /\ reg # None
  BY <1>2, NoneAssumption DEF SoleWorker, NoWorker
<1>4. LoopMove(w)
  BY LoopMoves
<1>5. UNCHANGED <<reg, current>>
  BY <1>3 DEF LoopStep, GetCheckpoint, ReadOk, ReadFail, ReadReject, SetCheckpoint,
     LoopDbError, WakeUp, CheckMailboxInBatch, DbErrorInBatch, AbandonMessage, store
<1> QED BY <1>3, <1>4, <1>5

LEMMA CallStepsKept ==
  ASSUME SoleInv, NEW k \in Calls, CallStep(k)
  PROVE  KeptCallMove(k) /\ UNCHANGED <<reg, current>>
<1> USE DEF SoleInv
<1>1. k \in Pipelines
  BY DEF Pipelines
<1>2. CASE CheckMailboxInStream(k)
  <2>1. job[k].stage = "checkMailbox" /\ reg # None
    BY <1>1, <1>2, BusyHasCheckpoint DEF CheckMailboxInStream
  <2> QED BY <1>2, <2>1, StreamHandlerMoves DEF CallFinishes, KeptCallMove, store
<1>3. CASE ~CheckMailboxInStream(k)
  <2>1. UNCHANGED <<reg, current>>
    BY <1>3 DEF CallStep, Deliver, ServerEnds, Data, CallEnd, CallError, CallReject,
       CallCancelled, FinishCall, DbErrorInStream, AbandonMessage, store
  <2> QED BY <1>3, <2>1, CallMoves DEF CallMove, KeptCallMove
<1> QED BY <1>2, <1>3

LEMMA MessageStepsKept ==
  ASSUME SoleInv, Stays, NEW p \in Pipelines, MessageStep(p)
  PROVE  (UNCHANGED ckpt \/ Record(p)) /\ UNCHANGED <<current>> /\ reg # None
<1>1. reg # None /\ reg' # None
  BY MessageMoves, BusyHasCheckpoint DEF SoleInv, PlaceInv, Stays
<1> QED BY <1>1 DEF MessageStep, GetDevices, RemoveStale, UnregisterDevice, RefreshMetric, Record,
           PushOk, PushFail, PushStale, store

\* Registering starts the one worker, or sees to the one there is.
LEMMA RegisterKept ==
  ASSUME SoleInv, NEW d \in Devices, NEW t \in Tokens, Register(d, t)
  PROVE  SoleWorker' /\ Quiet
<1> USE DEF SoleInv, PlaceInv
<1>1. /\ UNCHANGED <<ckpt, call, job, past>> /\ reg' = t /\ reg' # None
  BY NoneAssumption DEF Register
<1>2. Quiet
  <2>1. Register(d, t) => \E e \in Devices, u \in Tokens : Register(e, u)
    OBVIOUS
  <2> QED BY <1>1, <2>1, OthersMove DEF Quiet
<1>3. CASE current = None
  <2>1. PICK w \in Workers : current' = w /\ worker' = [worker EXCEPT ![w] = LoopTop(t)]
    BY <1>3 DEF Register
  <2> QED BY <1>1, <1>2, <1>3, <2>1, NoneAssumption DEF SoleWorker, TypeOK
<1>4. CASE current # None
  <2>1. current' = current /\ \A w \in Workers \ {current} : worker'[w] = worker[w]
    BY <1>4 DEF Register, TypeOK
  <2> QED BY <1>1, <1>2, <2>1 DEF SoleWorker
<1> QED BY <1>3, <1>4

\* Whatever else happens around the mailbox.
LEMMA OthersKept ==
  ASSUME SoleInv, Stays,
         \/ Post \/ \E t \in Tokens : Expire(t)
         \/ \E d \in Devices : Unregister(d)
         \/ StopIfUnused \/ Retain \/ UNCHANGED vars
  PROVE  SoleWorker' /\ Quiet
<1> USE DEF SoleInv, PlaceInv
<1>1. UNCHANGED <<worker, call, current, ckpt, job, past>> /\ (reg' = None => reg = None)
  <2>1. CASE Post \/ (\E t \in Tokens : Expire(t)) \/ UNCHANGED vars
    BY <2>1 DEF Post, Expire, vars, store, memory, past
  <2>2. CASE \E d \in Devices : Unregister(d)
    <3>1. reg = None => ckpt = None
      BY DEF RegistrationInv, NoLeftovers
    <3> QED BY <2>2, <3>1 DEF Unregister, UnregisterDevice, Stays, past
  <2>3. CASE StopIfUnused
    <3>1. devices = {} => current = None
      BY DEF RegistrationInv, NoLeftovers, SoleWorker
    <3> QED BY <2>3, <3>1 DEF StopIfUnused, StopWorker, store, past
  <2>4. CASE Retain
    <3>1. reg # None
      BY <2>4, NoneAssumption DEF Retain, SeenExpired, TypeOK
    <3> QED BY <2>4, <3>1 DEF Retain, Stays
  <2> QED BY <2>1, <2>2, <2>3, <2>4
<1> QED BY <1>1 DEF SoleWorker, Quiet, SamePlace

LEMMA RestartSole ==
  ASSUME SoleInv, Restart
  PROVE  SoleWorker'
<1>1. UNCHANGED reg /\ call' = [k \in Calls |-> NoCall]
  BY DEF Restart, store
<1>2. \A w \in Workers : w # current' => worker'[w] = NoWorker
  BY DEF Restart
<1>3. reg' = None => current' = None
  BY DEF Restart, store
<1> QED BY <1>1, <1>2, <1>3 DEF SoleWorker, NoCall

\* There stays one worker ...
LEMMA KeptSteps ==
  ASSUME SoleInv, Stays, [Next]_vars
  PROVE  SoleWorker' /\ KeptStep
<1> USE DEF SoleInv
<1>1. ASSUME NEW w \in Workers, LoopStep(w)
      PROVE  SoleWorker' /\ KeptStep
  <2>1. /\ w = current /\ LoopMove(w) /\ reg # None /\ UNCHANGED <<reg, current>>
    BY <1>1, LoopStepsKept
  <2>2. OnlyWorker(w)
    BY <2>1 DEF LoopMove, LoopRests, LoopStarts, LoopCatchesUp, LoopEndsCatchUp,
       LoopConnects, LoopBegins, LoopContinues, LoopFinishesPage, LoopFails, Asks,
       CaughtUp, Opens, StartsMessage
  <2>3. UNCHANGED call \/ \E k \in Calls : OnlyCall(k) /\ call'[k].state = "open"
    BY <2>1 DEF LoopMove, LoopRests, LoopStarts, LoopCatchesUp, LoopEndsCatchUp,
       LoopConnects, LoopBegins, LoopContinues, LoopFinishesPage, LoopFails, Asks,
       CaughtUp, Opens, StartsMessage
  <2> QED BY <2>1, <2>2, <2>3 DEF KeptStep, SoleWorker, OnlyWorker, OnlyCall
<1>2. ASSUME NEW k \in Calls, CallStep(k)
      PROVE  SoleWorker' /\ KeptStep
  <2>1. KeptCallMove(k) /\ UNCHANGED <<reg, current>>
    BY <1>2, CallStepsKept
  <2>2. UNCHANGED worker \/ Leaves(k)
    BY <2>1 DEF KeptCallMove, CallReceives, CallTakes, CallTakesLast, CallEnds,
       CallFinishes, CallFails
  <2>3. OnlyCall(k) /\ call'[k].state # "cancelled"
    <3>1. call[k].state # "cancelled"
      BY DEF SoleWorker
    <3> QED BY <2>1, <3>1 DEF KeptCallMove, CallReceives, CallTakes, CallTakesLast,
            CallEnds, CallFinishes, CallFails, Takes, Closes, Resumes, NoCall
  <2>4. Leaves(k) => call[k].owner = current /\ OnlyWorker(current)
    BY DEF Leaves, SoleWorker, NoWorker
  <2> QED BY <2>1, <2>2, <2>3, <2>4 DEF KeptStep, SoleWorker, OnlyWorker, OnlyCall
<1>3. ASSUME NEW p \in Pipelines, MessageStep(p)
      PROVE  SoleWorker' /\ KeptStep
  <2>1. (UNCHANGED ckpt \/ Record(p)) /\ UNCHANGED current /\ reg' # None
    BY <1>3, MessageStepsKept DEF Stays
  <2>2. UNCHANGED <<worker, call>>
    BY <1>3, MessageMoves DEF PlaceInv
  <2> QED BY <1>3, <2>1, <2>2 DEF KeptStep, SoleWorker
<1>4. ASSUME NEW d \in Devices, NEW t \in Tokens, Register(d, t)
      PROVE  SoleWorker' /\ KeptStep
  BY <1>4, RegisterKept DEF KeptStep
<1>5. CASE \/ Post \/ \E t \in Tokens : Expire(t)
           \/ \E d \in Devices : Unregister(d)
           \/ StopIfUnused \/ Retain \/ UNCHANGED vars
  BY <1>5, OthersKept DEF KeptStep
<1>6. CASE Restart
  BY <1>6, RestartSole DEF KeptStep
<1> QED BY <1>1, <1>2, <1>3, <1>4, <1>5, <1>6 DEF Next

\* ... which catches up only before there is a checkpoint.
LEMMA LoopKeepsCheckpoint ==
  ASSUME SoleInv, NEW w \in Workers, w = current, reg # None, LoopMove(w)
  PROVE  BeforeCheckpoint' /\ (ckpt # None => ckpt' # None)
<1> USE DEF SoleInv
<1>0. w \in Pipelines /\ worker[w].cursor # None
  BY NoneAssumption DEF Pipelines, PlaceInv, TypeOK, WorkerState
<1>1. job[w].stage # "idle" => ckpt # None
  BY <1>0, BusyHasCheckpoint
<1>10. \A v \in Workers \ {w} : worker[v].loop = "none"
  BY DEF SoleWorker, NoWorker
\* Without a checkpoint, and without any move of a message.
<1>2. ASSUME UNCHANGED <<ckpt, call, job, past>>, OnlyWorker(w),
             \/ worker'[w].loop \in Aside
             \/ worker'[w].loop = "reading" /\ (worker'[w].catchUp <=> ckpt = None)
             \/ worker'[w].loop = "setCheckpoint" /\ ckpt = None
      PROVE  BeforeCheckpoint' /\ ckpt' = ckpt
  BY <1>2, <1>10 DEF BeforeCheckpoint, OnlyWorker, Aside, past, Busy
\* With one.
<1>3. ASSUME ckpt' # None, OnlyWorker(w),
             \/ worker'[w].loop \in Aside \cup {"batch", "streaming"}
             \/ worker'[w].loop = "reading" /\ ~worker'[w].catchUp
      PROVE  BeforeCheckpoint' /\ ckpt' # None
  BY <1>3, <1>10 DEF BeforeCheckpoint, OnlyWorker, Aside
<1>4. CASE LoopRests(w)
  BY <1>2, <1>4 DEF LoopRests, store, SetAside
<1>5. CASE LoopStarts(w)
  BY <1>2, <1>5 DEF LoopStarts, store, Asks
<1>6. CASE LoopCatchesUp(w)
  <2>1. ckpt = None
    BY <1>6 DEF LoopCatchesUp, BeforeCheckpoint
  <2> QED BY <1>2, <1>6, <2>1 DEF LoopCatchesUp, store, Asks, CaughtUp
<1>7. CASE LoopEndsCatchUp(w)
  <2>1. ckpt' = worker[w].cursor
    BY <1>7 DEF LoopEndsCatchUp, SetCheckpoint
  <2> QED BY <1>0, <1>3, <1>7, <2>1 DEF LoopEndsCatchUp, Opens
<1>8. CASE LoopConnects(w) \/ LoopBegins(w)
  <2>1. UNCHANGED ckpt /\ ckpt # None
    BY <1>8 DEF LoopConnects, LoopBegins, BeforeCheckpoint, store
  <2> QED BY <1>3, <1>8, <2>1 DEF LoopConnects, LoopBegins, Asks, Opens, StartsMessage
<1>9. CASE LoopContinues(w) \/ LoopFinishesPage(w) \/ LoopFails(w)
  <2>1. UNCHANGED ckpt /\ ckpt # None
    BY <1>1, <1>9 DEF LoopContinues, LoopFinishesPage, LoopFails, AbandonMessage, store
  <2> QED BY <1>3, <1>9, <2>1 DEF LoopContinues, LoopFinishesPage, LoopFails, Asks,
             Opens, StartsMessage, SetAside
<1> QED BY <1>4, <1>5, <1>6, <1>7, <1>8, <1>9 DEF LoopMove

LEMMA StepsKeepCheckpoint ==
  ASSUME SoleInv, KeptStep
  PROVE  BeforeCheckpoint' /\ (ckpt # None => ckpt' # None)
<1> USE DEF SoleInv
<1>1. ASSUME NEW k \in Calls, KeptCallMove(k)
      PROVE  BeforeCheckpoint' /\ ckpt' # None
  <2>1. k \in Pipelines
    BY DEF Pipelines
  <2>2. ckpt # None
    BY <1>1, <2>1, BusyHasCheckpoint DEF KeptCallMove, CallReceives, CallTakes,
       CallTakesLast, Takes, CallEnds, Leaves, CallFinishes, CallFails, AbandonMessage
  <2>3. UNCHANGED ckpt
    BY <1>1 DEF KeptCallMove, CallReceives, CallTakes, CallTakesLast, CallEnds,
       CallFinishes, CallFails, AbandonMessage, store
  <2>4. UNCHANGED worker \/ (OnlyWorker(call[k].owner) /\ SetAside(call[k].owner))
    BY <1>1 DEF KeptCallMove, CallReceives, CallTakes, CallTakesLast, CallEnds, Leaves,
       CallFinishes, CallFails
  <2> QED BY <2>2, <2>3, <2>4 DEF BeforeCheckpoint, OnlyWorker, SetAside, Aside
<1>2. ASSUME NEW p \in Pipelines, MessageStep(p), UNCHANGED ckpt \/ Record(p)
      PROVE  BeforeCheckpoint' /\ ckpt' # None
  <2>1. UNCHANGED worker /\ ckpt # None /\ job[p].msg # None
    BY <1>2, MessageMoves, BusyHasCheckpoint, NoneAssumption DEF PlaceInv, Msgs
  <2>2. ckpt' # None
    BY <1>2, <2>1 DEF Record
  <2> QED BY <2>1, <2>2 DEF BeforeCheckpoint
<1>3. CASE Quiet
  BY <1>3 DEF Quiet, SamePlace, SetAside, Aside, BeforeCheckpoint, past, Busy
<1>4. CASE Restart
  <2>1. UNCHANGED <<ckpt, skipped, pushes>>
    BY <1>4 DEF Restart, store
  <2> QED BY <1>4, <2>1, RestartMoves DEF SetAside, Aside, BeforeCheckpoint, Busy, Idle
<1> QED BY <1>1, <1>2, <1>3, <1>4, LoopKeepsCheckpoint DEF KeptStep

\* A stutter deletes nothing.
LEMMA StaysOrStutters ==
  ASSUME [Stays]_vars
  PROVE  Stays
BY DEF Stays, vars, store

THEOREM SoleInvariant == Spec /\ NeverDeleted => []SoleInv
<1>1. Init /\ PlaceInv /\ RegistrationInv => SoleInv
  BY DEF Init, SoleInv, SoleWorker, BeforeCheckpoint, NoWorker, NoCall, Idle, Busy
<1>2. /\ SoleInv /\ PlaceInv' /\ RegistrationInv' /\ [Next]_vars /\ [Stays]_vars
      => SoleInv'
  BY KeptSteps, StepsKeepCheckpoint, StaysOrStutters DEF SoleInv
<1> QED BY <1>1, <1>2, PlaceInvariant, RegistrationInvariant, PTL DEF Spec, NeverDeleted

(***************************************************************************)
(* Only history is skipped: a mailbox that has a checkpoint is never       *)
(* caught up with in silence again (index.js:895).                         *)
(***************************************************************************)
THEOREM SkipsOnlyHistory == Spec /\ NeverDeleted => OnlyHistorySkipped
<1>1. /\ SoleInv /\ [Next]_vars /\ [Stays]_vars
      => [ckpt # None => skipped' \subseteq skipped \cup 1..ckpt]_vars
  <2> SUFFICES ASSUME SoleInv, [Next]_vars, [Stays]_vars, ckpt # None
               PROVE  skipped' = skipped
    OBVIOUS
  <2>1. KeptStep
    BY KeptSteps, StaysOrStutters
  <2>2. ASSUME NEW w \in Workers, LoopMove(w) PROVE skipped' = skipped
    <3>1. ~LoopEndsCatchUp(w)
      BY <2>2 DEF LoopEndsCatchUp, SetCheckpoint, SoleInv, BeforeCheckpoint
    <3> QED BY <2>2, <3>1 DEF LoopMove, LoopRests, LoopStarts, LoopCatchesUp,
           LoopConnects, LoopBegins, LoopContinues, LoopFinishesPage, LoopFails,
           AbandonMessage, past
  <2>3. ASSUME NEW k \in Calls, KeptCallMove(k) PROVE skipped' = skipped
    BY <2>3 DEF KeptCallMove, CallReceives, CallTakes, CallTakesLast, CallEnds,
       CallFinishes, CallFails, AbandonMessage, past
  <2>4. ASSUME NEW p \in Pipelines, MessageStep(p) PROVE skipped' = skipped
    BY <2>4, MessageMoves DEF SoleInv, PlaceInv
  <2> QED BY <2>1, <2>2, <2>3, <2>4 DEF KeptStep, Quiet, Restart, past
<1> QED BY <1>1, SoleInvariant, PTL DEF Spec, NeverDeleted, OnlyHistorySkipped

-----------------------------------------------------------------------------
(* What is read again *)

\* The grounds for a repetition: a message was in flight, at or before n, when
\* its call or the process died.
Cause(n) == \E i \in interrupted : i <= n

\* A pipeline that takes messages from the server, and the one it is at.
Active(p) ==
  IF p \in Workers
  THEN worker[p].loop \in {"reading", "batch"} /\ ~worker[p].catchUp
  ELSE call[p].state # "closed"

NextOf(p) ==
  IF Busy(p)
  THEN IF job[p].stage = "checkMailbox" THEN job[p].msg + 1 ELSE job[p].msg
  ELSE IF p \in Workers THEN worker[p].cursor + 1 ELSE call[p].taken + 1

\* A call that is over has only messages in flight that were so when it ended.
AfterClose ==
  \A k \in Calls : call[k].state = "closed" => InFlight(k) \subseteq interrupted

\* The pipeline and the stored checkpoint go in step until something dies; from
\* then on whatever is behind, or may be stored, has its grounds.
InStep ==
  /\ \A k \in Calls : call[k].state = "closed" => InFlight(k) = {}
  /\ \A p \in Pipelines : Active(p) => NextOf(p) = ckpt + 1

Excused == Cause(ckpt + 1) /\ \A p \in Pipelines : Active(p) => Cause(NextOf(p))

Order == ckpt # None => InStep \/ Excused

OrderInv == SoleInv /\ AfterClose /\ Order

\* A pipeline is a loop or a call.
LEMMA ActivePlaces ==
  /\ \A w \in Workers :
       Active(w) <=> worker[w].loop \in {"reading", "batch"} /\ ~worker[w].catchUp
  /\ \A k \in Calls : Active(k) <=> call[k].state # "closed"
  /\ \A w \in Workers : ~Busy(w) => NextOf(w) = worker[w].cursor + 1
  /\ \A k \in Calls : ~Busy(k) => NextOf(k) = call[k].taken + 1
  /\ \A p : Busy(p) => NextOf(p) = IF job[p].stage = "checkMailbox"
                                   THEN job[p].msg + 1 ELSE job[p].msg
BY SetsAssumption DEF Active, NextOf

LEMMA ActivePlacesNext ==
  /\ \A w \in Workers :
       Active(w)' <=> worker'[w].loop \in {"reading", "batch"} /\ ~worker'[w].catchUp
  /\ \A k \in Calls : Active(k)' <=> call'[k].state # "closed"
  /\ \A w \in Workers : ~Busy(w)' => NextOf(w)' = worker'[w].cursor + 1
  /\ \A k \in Calls : ~Busy(k)' => NextOf(k)' = call'[k].taken + 1
  /\ \A p : Busy(p)' => NextOf(p)' = IF job'[p].stage = "checkMailbox"
                                     THEN job'[p].msg + 1 ELSE job'[p].msg
BY SetsAssumption DEF Active, NextOf

\* There is at most one of them.
LEMMA ActiveAlone ==
  ASSUME SoleInv, NEW p \in Pipelines, NEW q \in Pipelines, Active(p), Active(q)
  PROVE  p = q
<1>1. \A w \in Workers : Active(w) => w = current
  BY ActivePlaces DEF SoleInv, SoleWorker, NoWorker
<1>2. \A k \in Calls : Active(k) => /\ call[k].owner = current /\ current \in Workers
                                    /\ worker[current].loop = "streaming"
  BY ActivePlaces DEF SoleInv, SoleWorker, NoWorker, PlaceInv, LiveCallsStream
<1>3. CASE p \in Workers
  BY <1>1, <1>2, <1>3, ActivePlaces DEF Pipelines
<1>4. CASE p \in Calls /\ q \in Workers
  BY <1>1, <1>2, <1>4, ActivePlaces
<1>5. CASE p \in Calls /\ q \in Calls
  BY <1>2, <1>5, ActivePlaces DEF SoleInv, PlaceInv, LiveCallsStream
<1> QED BY <1>3, <1>4, <1>5 DEF Pipelines

\* What is busy takes messages, or finishes those of a call that is over.
LEMMA BusyPlaces ==
  ASSUME PlaceInv, NEW p \in Pipelines, Busy(p)
  PROVE  /\ Active(p) \/ (p \in Calls /\ call[p].state = "closed")
         /\ job[p].msg \in InFlight(p)
         /\ job[p].msg \in Nat
<1>1. p \in Workers => Active(p)
  BY ActivePlaces DEF PlaceInv, BatchIsBusy
<1>2. p \in Calls => Active(p) \/ call[p].state = "closed"
  BY ActivePlaces
<1>3. job[p].msg \in InFlight(p)
  BY DEF InFlight, Processing
<1>4. job[p].msg \in Nat
  BY JobsTyped, NumbersAssumption DEF PlaceInv, TypeOK, Busy, Msgs
<1> QED BY <1>1, <1>2, <1>3, <1>4 DEF Pipelines

\* A call that stands where it stood.
LEMMA SameInFlight ==
  ASSUME NEW k \in Calls, call'[k].taken = call[k].taken, call'[k].sent = call[k].sent,
         job'[k] = job[k]
  PROVE  InFlight(k)' = InFlight(k)
BY DEF InFlight, Processing, Busy

LEMMA NothingInFlight ==
  ASSUME NEW k \in Calls, call'[k] = NoCall, ~Busy(k)'
  PROVE  InFlight(k)' = {}
BY DEF InFlight, Processing, NoCall

LEMMA CauseStays ==
  ASSUME interrupted \subseteq interrupted', NEW n, Cause(n)
  PROVE  Cause(n)'
BY DEF Cause

\* As long as the checkpoint stays, everything goes on where something stood.
LEMMA OrderKept ==
  ASSUME ckpt # None => Order, ckpt' = ckpt, interrupted \subseteq interrupted',
         AfterClose,
         \A p \in Pipelines : Active(p)' =>
           \/ NextOf(p)' = ckpt + 1
           \/ \E q \in Pipelines : Active(q) /\ NextOf(p)' = NextOf(q),
         \A k \in Calls : call'[k].state = "closed" =>
           \/ InFlight(k)' = {}
           \/ call[k].state = "closed" /\ InFlight(k)' \subseteq InFlight(k)
  PROVE  AfterClose' /\ Order'
<1>1. AfterClose'
  BY DEF AfterClose
<1>2. CASE ckpt # None /\ InStep
  <2>1. InStep'
    BY <1>2 DEF InStep
  <2> QED BY <1>1, <2>1 DEF Order
<1>3. CASE ckpt # None /\ Excused
  <2>1. Cause(ckpt + 1)'
    BY <1>3 DEF Excused, Cause
  <2>2. ASSUME NEW p \in Pipelines, Active(p)' PROVE Cause(NextOf(p))'
    <3>1. CASE NextOf(p)' = ckpt + 1
      BY <2>1, <3>1 DEF Cause
    <3>2. ASSUME NEW q \in Pipelines, Active(q), NextOf(p)' = NextOf(q)
          PROVE  Cause(NextOf(p))'
      BY <1>3, <3>2 DEF Excused, Cause
    <3> QED BY <2>2, <3>1, <3>2
  <2>3. Excused'
    BY <2>1, <2>2 DEF Excused
  <2> QED BY <1>1, <2>3 DEF Order
<1>4. CASE ckpt = None
  BY <1>1, <1>4 DEF Order
<1> QED BY <1>2, <1>3, <1>4 DEF Order

\* A loop's step: it stops taking messages, goes on where it stood, or hands
\* its place to a call.
LEMMA LoopKeepsOrder ==
  ASSUME OrderInv, NEW w \in Workers, w = current, reg # None, LoopMove(w)
  PROVE  AfterClose' /\ Order'
<1> USE DEF OrderInv
<1> DEFINE cursor == worker[w].cursor
<1>0. /\ w \in Pipelines /\ \A k \in Calls : k \in Pipelines /\ k # w
      /\ \A p \in Pipelines : p \in Workers \/ p \in Calls
  BY SetsAssumption DEF Pipelines
<1>1. cursor \in Nat /\ cursor \in 0..MaxMsg
  BY NumbersAssumption DEF SoleInv, PlaceInv, TypeOK, WorkerState
<1>2. ASSUME OnlyWorker(w)
      PROVE  \A v \in Workers \ {w} : ~Active(v)'
  <2>1. \A v \in Workers \ {w} : worker'[v].loop = "none"
    BY <1>2 DEF OnlyWorker, SoleInv, SoleWorker, NoWorker
  <2> QED BY <2>1, ActivePlacesNext
<1>3. ASSUME NEW k \in Calls, call'[k] = call[k], job'[k] = job[k]
      PROVE  /\ Active(k)' <=> Active(k)
             /\ NextOf(k)' = NextOf(k) /\ InFlight(k)' = InFlight(k)
  BY <1>0, <1>3, SameInFlight, SetsAssumption DEF Active, NextOf, Busy
\* It goes on, or not.
<1>4. ASSUME UNCHANGED <<ckpt, call>>, interrupted \subseteq interrupted',
             OnlyWorker(w), \A k \in Calls : job'[k] = job[k],
             Active(w)' => NextOf(w)' = ckpt + 1
                           \/ (Active(w) /\ NextOf(w)' = NextOf(w))
      PROVE  AfterClose' /\ Order'
  <2>1. \A p \in Pipelines : Active(p)' =>
           \/ NextOf(p)' = ckpt + 1
           \/ \E q \in Pipelines : Active(q) /\ NextOf(p)' = NextOf(q)
    BY <1>0, <1>2, <1>3, <1>4
  <2>2. \A k \in Calls : call'[k].state = "closed" =>
           call[k].state = "closed" /\ InFlight(k)' \subseteq InFlight(k)
    BY <1>3, <1>4
  <2> QED BY <1>4, <2>1, <2>2, OrderKept
\* It opens a call.
<1>5. ASSUME NEW k \in Calls, NEW n \in Nat, Opens(w, k, n),
             \A j \in Calls : job'[j] = job[j]
      PROVE  /\ NextOf(k)' = n + 1
             /\ \A p \in Pipelines : Active(p)' => p = k \/ (Active(p) /\ NextOf(p)' = NextOf(p))
             /\ \A j \in Calls : call'[j].state = "closed" =>
                  call[j].state = "closed" /\ InFlight(j)' = InFlight(j)
  <2>1. ~Busy(k)' /\ call'[k].taken = n /\ call'[k].state = "open"
    BY <1>5, UnusedCallIdle DEF Opens, Busy, SoleInv, PlaceInv
  <2>2. ~Active(w)'
    BY <1>0, <1>5, ActivePlacesNext DEF Opens
  <2>3. \A j \in Calls \ {k} : call'[j] = call[j] /\ job'[j] = job[j]
    BY <1>5 DEF Opens, OnlyCall
  <2> QED BY <1>0, <1>2, <1>3, <1>5, <2>1, <2>2, <2>3, ActivePlacesNext DEF Opens
<1>6. ASSUME UNCHANGED ckpt, interrupted \subseteq interrupted',
             NEW k \in Calls, NEW n \in Nat, Opens(w, k, n),
             \A j \in Calls : job'[j] = job[j],
             Active(w), NextOf(w) = n + 1
      PROVE  AfterClose' /\ Order'
  BY <1>0, <1>5, <1>6, OrderKept
<1>7. job[w].stage # "idle" => worker[w].loop = "batch" /\ Active(w)
                              /\ job[w].msg = cursor + 1
  BY <1>0, ActivePlaces DEF SoleInv, PlaceInv, BatchIsBusy, Busy
<1>8. worker[w].loop # "batch" => ~Busy(w)
  BY <1>0 DEF SoleInv, PlaceInv, BatchIsBusy
<1>9. CASE LoopRests(w) \/ LoopCatchesUp(w)
  <2>1. ~Active(w)'
    BY <1>0, <1>9, ActivePlacesNext DEF LoopRests, LoopCatchesUp, SetAside, Aside, Asks,
       CaughtUp
  <2> QED BY <1>4, <1>9, <2>1 DEF LoopRests, LoopCatchesUp, SetAside, Asks, CaughtUp,
         store, past
<1>10. CASE LoopStarts(w)
  <2>1. ckpt # None => ~Busy(w)' /\ worker'[w].cursor = ckpt
    BY <1>8, <1>10 DEF LoopStarts, Asks, Busy
  <2>2. ckpt = None => ~Active(w)'
    BY <1>0, <1>10, ActivePlacesNext DEF LoopStarts, Asks
  <2>3. Active(w)' => NextOf(w)' = ckpt + 1
    BY <1>0, <2>1, <2>2, ActivePlacesNext
  <2> QED BY <1>4, <1>10, <2>3 DEF LoopStarts, Asks, store, past
<1>11. CASE LoopEndsCatchUp(w)
  <2>1. /\ ckpt = None /\ UNCHANGED <<job, interrupted>> /\ ckpt' = cursor
        /\ \E k \in Calls : Opens(w, k, cursor)
    BY <1>11 DEF LoopEndsCatchUp, SetCheckpoint, SoleInv, BeforeCheckpoint
  <2>2. PICK k \in Calls : Opens(w, k, cursor)
    BY <2>1
  <2>3. \A j \in Calls : InFlight(j) = {} /\ call[j].state = "closed"
    <3>1. \A j \in Calls : call[j] = NoCall /\ ~Busy(j)
      BY <1>0, <2>1 DEF SoleInv, BeforeCheckpoint
    <3> QED BY <3>1 DEF InFlight, Processing, NoCall
  <2>4. \A p \in Pipelines : ~Active(p)
    <3>1. ~Active(w) /\ \A v \in Workers \ {w} : ~Active(v)
      BY <1>11, ActivePlaces DEF LoopEndsCatchUp, SetCheckpoint, SoleInv, SoleWorker, NoWorker
    <3> QED BY <1>0, <2>3, <3>1, ActivePlaces
  <2>5. \A p \in Pipelines : Active(p)' => NextOf(p)' = ckpt' + 1
    BY <1>1, <1>5, <2>1, <2>2, <2>4
  <2>6. \A j \in Calls : call'[j].state = "closed" => InFlight(j)' = {}
    BY <1>1, <1>5, <2>1, <2>2, <2>3
  <2> QED BY <2>5, <2>6 DEF Order, InStep, AfterClose
<1>12. CASE LoopConnects(w)
  <2>1. Active(w) /\ NextOf(w) = cursor + 1
    BY <1>0, <1>8, <1>12, ActivePlaces DEF LoopConnects
  <2>2. Asks(w, cursor, FALSE) => NextOf(w)' = cursor + 1
    BY <1>0, <1>8, <1>12, ActivePlacesNext DEF LoopConnects, Asks, Busy
  <2> QED BY <1>1, <1>4, <1>6, <1>12, <2>1, <2>2 DEF LoopConnects, Asks, store, past
<1>13. CASE LoopBegins(w) \/ LoopContinues(w)
  <2> DEFINE m == NextOf(w)
  <2>1. PICK upto : StartsMessage(w, m, upto) /\ Active(w) /\ m \in Msgs
    <3>1. CASE LoopBegins(w)
      <4>1. Active(w) /\ m = cursor + 1 /\ cursor < MaxMsg
        BY <1>0, <1>8, <3>1, ActivePlaces DEF LoopBegins
      <4>2. cursor + 1 \in Msgs
        BY <1>1, <4>1, NumbersAssumption DEF Msgs
      <4> QED BY <3>1, <4>1, <4>2 DEF LoopBegins
    <3>2. CASE LoopContinues(w)
      <4>1. Active(w) /\ m = cursor + 1 + 1 /\ cursor + 1 < worker[w].upto
        BY <1>0, <1>7, <3>2, ActivePlaces DEF LoopContinues, Busy
      <4>2. worker[w].upto \in 0..MaxMsg
        BY DEF SoleInv, PlaceInv, TypeOK, WorkerState
      <4>3. cursor + 1 + 1 = cursor + 2 /\ cursor + 2 \in Msgs
        BY <1>1, <4>1, <4>2, NumbersAssumption DEF Msgs
      <4> QED BY <3>2, <4>1, <4>3 DEF LoopContinues
    <3> QED BY <1>13, <3>1, <3>2
  <2> HIDE DEF m
  <2>2. job'[w].msg = m /\ job'[w].stage \in {"getDevices", "sending"}
    BY <2>1, JobsTyped DEF StartsMessage
  <2>3. NextOf(w)' = m
    BY <2>2, ActivePlacesNext DEF Busy
  <2>4. UNCHANGED <<ckpt, call, interrupted>> /\ OnlyWorker(w)
        /\ \A k \in Calls : job'[k] = job[k]
    BY <1>0, <1>13, <2>1 DEF LoopBegins, LoopContinues, StartsMessage, OnlyJob, store, past
  <2> QED BY <1>4, <2>1, <2>3, <2>4 DEF m
<1>14. CASE LoopFinishesPage(w)
  <2>1. Active(w) /\ NextOf(w) = cursor + 1 + 1 /\ ~Busy(w)'
    BY <1>7, <1>14, ActivePlaces DEF LoopFinishesPage, Busy, Idle
  <2>2. Asks(w, cursor + 1, FALSE) => NextOf(w)' = cursor + 1 + 1
    BY <1>0, <2>1, ActivePlacesNext DEF Asks
  <2>3. UNCHANGED <<ckpt, interrupted>> /\ \A k \in Calls : job'[k] = job[k]
    BY <1>0, <1>14 DEF LoopFinishesPage, OnlyJob, store, past
  <2>4. cursor + 1 \in Nat
    BY <1>1
  <2> QED BY <1>4, <1>6, <1>14, <2>1, <2>2, <2>3, <2>4 DEF LoopFinishesPage, Asks
<1>15. CASE LoopFails(w)
  <2>1. ~Active(w)'
    BY <1>0, <1>15, ActivePlacesNext DEF LoopFails, SetAside, Aside
  <2>2. /\ UNCHANGED <<ckpt, call>> /\ interrupted \subseteq interrupted'
        /\ OnlyWorker(w) /\ \A k \in Calls : job'[k] = job[k]
    BY <1>0, <1>15 DEF LoopFails, AbandonMessage, store, SoleInv, PlaceInv, TypeOK
  <2> QED BY <1>4, <2>1, <2>2
<1> QED BY <1>9, <1>10, <1>11, <1>12, <1>13, <1>14, <1>15 DEF LoopMove

\* A call's step: it goes on where it stood, or ends with grounds for what it
\* leaves in flight.
LEMMA CallKeepsOrder ==
  ASSUME OrderInv, NEW k \in Calls, KeptCallMove(k)
  PROVE  AfterClose' /\ Order'
<1> USE DEF OrderInv
<1>0. /\ k \in Pipelines /\ \A w \in Workers : w # k
      /\ \A p \in Pipelines : p \in Workers \/ p \in Calls
      /\ UNCHANGED ckpt /\ interrupted \subseteq interrupted'
  BY SetsAssumption DEF Pipelines, KeptCallMove, CallReceives, CallTakes, CallTakesLast,
     CallEnds, CallFinishes, CallFails, AbandonMessage, store, past
<1>1. call[k].taken \in Nat /\ call[k].sent \in Nat /\ call[k].sent \in 0..MaxMsg
  BY NumbersAssumption DEF SoleInv, PlaceInv, TypeOK, CallState
<1>2. OnlyCall(k) /\ \A p \in Pipelines \ {k} : job'[p] = job[p]
  BY <1>0 DEF KeptCallMove, CallReceives, CallTakes, CallTakesLast, CallEnds,
     CallFinishes, CallFails, AbandonMessage, Takes, Closes, Resumes, OnlyJob,
     SoleInv, PlaceInv, TypeOK
<1>3. \A w \in Workers : Active(w)' => Active(w) /\ NextOf(w)' = NextOf(w)
  <2>1. \A w \in Workers : worker'[w] = worker[w] \/ SetAside(w)
    BY DEF KeptCallMove, CallReceives, CallTakes, CallTakesLast, CallEnds,
       CallFinishes, CallFails, Leaves, OnlyWorker
  <2> QED BY <1>0, <1>2, <2>1 DEF Active, NextOf, Busy, SetAside, Aside, Pipelines
<1>4. \A j \in Calls \ {k} : /\ Active(j)' => Active(j) /\ NextOf(j)' = NextOf(j)
                             /\ call'[j].state = call[j].state
                             /\ InFlight(j)' = InFlight(j)
  BY <1>2, SameInFlight, SetsAssumption DEF OnlyCall, Active, NextOf, Busy, Pipelines
\* It goes on.
<1>5. ASSUME Active(k)' => Active(k) /\ NextOf(k)' = NextOf(k),
             call'[k].state = "closed" =>
               \/ InFlight(k)' = {}
               \/ call[k].state = "closed" /\ InFlight(k)' \subseteq InFlight(k)
      PROVE  AfterClose' /\ Order'
  <2>1. \A p \in Pipelines : Active(p)' => Active(p) /\ NextOf(p)' = NextOf(p)
    BY <1>0, <1>3, <1>4, <1>5
  <2>2. \A j \in Calls : call'[j].state = "closed" =>
          \/ InFlight(j)' = {}
          \/ call[j].state = "closed" /\ InFlight(j)' \subseteq InFlight(j)
    BY <1>4, <1>5
  <2> QED BY <1>0, <2>1, <2>2, OrderKept
\* It is the active one, and some message in flight gives grounds.
<1>6. ASSUME Active(k), NEW i \in interrupted', i <= NextOf(k),
             Active(k)' => Cause(NextOf(k))',
             call'[k].state = "closed" => InFlight(k)' \subseteq interrupted'
      PROVE  AfterClose' /\ Order'
  <2>1. \A p \in Pipelines : Active(p)' => p = k
    BY <1>0, <1>3, <1>4, <1>6, ActiveAlone
  <2>2. AfterClose'
    BY <1>0, <1>4, <1>6 DEF AfterClose
  <2>3. ckpt # None => Cause(ckpt + 1)'
    BY <1>0, <1>6 DEF Order, InStep, Excused, Cause
  <2>4. Active(k)' => Cause(NextOf(k))'
    BY <1>6
  <2> QED BY <1>0, <2>1, <2>2, <2>3, <2>4 DEF Order, Excused
<1>7. CASE CallReceives(k)
  <2>1. Active(k) /\ call'[k].state = "open"
    BY <1>7, ActivePlaces DEF CallReceives
  <2>2. NextOf(k)' = NextOf(k)
    BY <1>0, <1>7 DEF CallReceives, NextOf, Busy
  <2> QED BY <1>5, <2>1, <2>2
<1>8. ASSUME Takes(k)
      PROVE  /\ NextOf(k) = call[k].taken + 1 /\ NextOf(k)' = call[k].taken + 1
             /\ InFlight(k)' = {call[k].taken + 1} \cup (call[k].taken + 2)..call[k].sent
             /\ InFlight(k)' \subseteq InFlight(k)
  <2> DEFINE m == call[k].taken + 1
  <2>1. /\ ~Busy(k) /\ call[k].taken < call[k].sent
        /\ job'[k] = Begin(m)
        /\ call'[k].taken = m /\ call'[k].sent = call[k].sent
    BY <1>8 DEF Takes
  <2>2. m \in Msgs /\ m + 1 = call[k].taken + 2
    BY <1>1, <2>1, NumbersAssumption DEF Msgs
  <2>3. job'[k].msg = m /\ job'[k].stage \in {"getDevices", "sending"}
    BY <2>1, <2>2, JobsTyped
  <2>4. Busy(k)' /\ NextOf(k)' = m
    BY <2>3, ActivePlacesNext DEF Busy
  <2>5. NextOf(k) = m
    BY <2>1, ActivePlaces
  <2>6. InFlight(k)' = {m} \cup (m + 1)..call[k].sent
    BY <2>1, <2>3, <2>4 DEF InFlight, Processing
  <2>7. InFlight(k) = m..call[k].sent
    BY <2>1 DEF InFlight, Processing
  <2> QED BY <1>1, <2>1, <2>2, <2>4, <2>5, <2>6, <2>7
<1>9. CASE CallTakes(k)
  <2>1. Active(k)' <=> Active(k)
    BY <1>9, ActivePlaces, ActivePlacesNext DEF CallTakes
  <2> QED BY <1>5, <1>8, <1>9, <2>1 DEF CallTakes
<1>10. CASE CallTakesLast(k)
  <2>1. Active(k) /\ ~Active(k)' /\ call[k].taken + 1 = call[k].sent
        /\ call[k].taken + 1 \in interrupted'
    BY <1>10, ActivePlaces, ActivePlacesNext DEF CallTakesLast, Leaves
  <2>2. InFlight(k)' = {call[k].taken + 1}
    BY <1>1, <1>8, <1>10, <2>1 DEF CallTakesLast
  <2>3. call[k].taken + 1 <= NextOf(k)
    BY <1>1, <1>8, <1>10 DEF CallTakesLast
  <2> QED BY <1>6, <2>1, <2>2, <2>3
<1>11. CASE CallEnds(k)
  <2>1. Active(k) /\ ~Active(k)' /\ InFlight(k) \subseteq interrupted'
    BY <1>11, ActivePlaces, ActivePlacesNext DEF CallEnds, Leaves, Closes, NoCall
  <2>2. InFlight(k)' = InFlight(k) \/ InFlight(k)' = {}
    <3>1. job'[k] = job[k]
      BY <1>0, <1>11 DEF CallEnds
    <3> QED BY <1>11, <3>1, SameInFlight, NothingInFlight DEF CallEnds, Closes, CallKept, Busy
  <2>3. CASE InFlight(k)' = {}
    BY <1>5, <2>1, <2>3
  <2>4. CASE InFlight(k)' = InFlight(k) /\ InFlight(k) # {}
    <3>1. PICK i \in InFlight(k) : i <= NextOf(k)
      <4>1. CASE Busy(k)
        <5>1. job[k].msg \in InFlight(k) /\ job[k].msg \in Nat
          BY <1>0, <4>1, BusyPlaces DEF SoleInv
        <5>2. NextOf(k) \in {job[k].msg, job[k].msg + 1}
          BY <4>1, ActivePlaces
        <5> QED BY <5>1, <5>2
      <4>2. CASE ~Busy(k)
        <5>1. InFlight(k) = (call[k].taken + 1)..call[k].sent
          BY <4>2 DEF InFlight, Processing
        <5>2. PICK i \in InFlight(k) : TRUE
          BY <2>4
        <5>3. call[k].taken + 1 \in InFlight(k)
          BY <1>1, <5>1, <5>2
        <5>4. NextOf(k) = call[k].taken + 1 /\ NextOf(k) \in Nat
          BY <1>1, <4>2, ActivePlaces
        <5> QED BY <5>3, <5>4
      <4> QED BY <4>1, <4>2
    <3> QED BY <1>6, <2>1, <2>4, <3>1
  <2> QED BY <2>2, <2>3, <2>4
<1>12. ASSUME job'[k] = Idle, Resumes(k)
       PROVE  /\ ~Busy(k)' /\ InFlight(k)' \subseteq InFlight(k)
              /\ Active(k)' => Active(k) /\ NextOf(k)' = call[k].taken + 1
              /\ call'[k].state = "closed" => call[k].state = "closed"
  <2>1. ~Busy(k)'
    BY <1>12 DEF Busy, Idle
  <2>2. CASE call'[k] = call[k]
    <3>1. InFlight(k)' \subseteq InFlight(k)
      BY <2>1, <2>2 DEF InFlight, Processing
    <3> QED BY <2>1, <2>2, <3>1, ActivePlaces, ActivePlacesNext
  <2>3. CASE call'[k] = NoCall /\ call[k].state = "closed"
    <3>1. ~Active(k)'
      BY <2>3, ActivePlacesNext DEF NoCall
    <3>2. InFlight(k)' = {}
      BY <2>1, <2>3, NothingInFlight
    <3> QED BY <2>1, <2>3, <3>1, <3>2
  <2> QED BY <1>12, <2>2, <2>3 DEF Resumes
<1>13. CASE CallFinishes(k)
  <2>1. NextOf(k) = call[k].taken + 1
    BY <1>13, ActivePlaces DEF CallFinishes, SoleInv, PlaceInv, BusyOnTaken, Busy
  <2> QED BY <1>5, <1>12, <1>13, <2>1 DEF CallFinishes
<1>14. CASE CallFails(k)
  <2>1. /\ Busy(k) /\ job'[k] = Idle /\ Resumes(k)
        /\ interrupted' = interrupted \cup {job[k].msg}
    BY <1>0, <1>14 DEF CallFails, AbandonMessage, Busy, SoleInv, PlaceInv, TypeOK
  <2>2. job[k].msg = call[k].taken /\ NextOf(k) \in {job[k].msg, job[k].msg + 1}
    BY <2>1, ActivePlaces DEF SoleInv, PlaceInv, BusyOnTaken
  <2>3. job[k].msg <= NextOf(k) /\ job[k].msg <= call[k].taken + 1
    BY <1>1, <2>2
  <2>4. CASE Active(k)
    <3>1. Active(k)' => Cause(NextOf(k))'
      BY <1>12, <2>1, <2>3 DEF Cause
    <3>2. call'[k].state # "closed"
      BY <1>12, <2>1, <2>4, ActivePlaces
    <3> QED BY <1>6, <2>1, <2>3, <2>4, <3>1, <3>2
  <2>5. CASE ~Active(k)
    BY <1>5, <1>12, <2>1, <2>5, ActivePlaces
  <2> QED BY <2>4, <2>5
<1> QED BY <1>7, <1>9, <1>10, <1>11, <1>13, <1>14 DEF KeptCallMove

\* A message that is recorded was the next one, or has its grounds.
LEMMA RecordHasCause ==
  ASSUME OrderInv, NEW p \in Pipelines, Record(p)
  PROVE  /\ ckpt' = job[p].msg
         /\ \/ InStep /\ Active(p) /\ job[p].msg = ckpt + 1
            \/ Cause(job[p].msg) /\ Excused
<1> USE DEF OrderInv
<1>1. Busy(p) /\ NextOf(p) = job[p].msg
  BY ActivePlaces DEF Record, Busy
<1>2. ckpt # None /\ reg # None
  BY <1>1, BusyHasCheckpoint DEF Busy
<1>3. ckpt' = job[p].msg
  BY <1>2 DEF Record
<1>4. CASE Active(p)
  BY <1>1, <1>2, <1>3, <1>4 DEF Order, InStep, Excused
<1>5. CASE ~Active(p)
  <2>1. p \in Calls /\ call[p].state = "closed" /\ job[p].msg \in InFlight(p)
        /\ job[p].msg \in Nat
    BY <1>1, <1>5, BusyPlaces DEF SoleInv
  <2>2. ~InStep
    BY <2>1 DEF InStep
  <2>3. Cause(job[p].msg)
    BY <2>1 DEF AfterClose, Cause
  <2> QED BY <1>2, <1>3, <2>2, <2>3 DEF Order
<1> QED BY <1>4, <1>5

LEMMA MessageKeepsOrder ==
  ASSUME OrderInv, NEW p \in Pipelines, MessageStep(p), UNCHANGED ckpt \/ Record(p)
  PROVE  AfterClose' /\ Order'
<1> USE DEF OrderInv
<1>1. /\ UNCHANGED <<worker, call, interrupted>> /\ OnlyJob(p)
      /\ job[p].stage # "idle" /\ job[p].msg \in Msgs
      /\ job'[p].msg = job[p].msg /\ job'[p].stage # "idle"
      /\ job'[p].stage = "checkMailbox" => Record(p)
  BY MessageMoves DEF SoleInv, PlaceInv
<1>2. job[p].stage # "checkMailbox"
  BY DEF MessageStep, GetDevices, RemoveStale, RefreshMetric, Record, PushOk, PushFail, PushStale
<1>3. \A q \in Pipelines : Active(q)' <=> Active(q)
  BY <1>1 DEF Active
<1>4. \A q \in Pipelines \ {p} : NextOf(q)' = NextOf(q)
  BY <1>1 DEF NextOf, OnlyJob, Busy
<1>5. \A k \in Calls : InFlight(k)' = InFlight(k)
  BY <1>1 DEF InFlight, Processing, OnlyJob, Busy, Pipelines
<1>6. NextOf(p) = job[p].msg
  BY <1>1, <1>2, ActivePlaces DEF Busy
<1>7. CASE job'[p].stage # "checkMailbox" /\ UNCHANGED ckpt
  <2>1. NextOf(p)' = job[p].msg
    BY <1>1, <1>7, ActivePlacesNext DEF Busy
  <2> QED BY <1>1, <1>3, <1>4, <1>5, <1>6, <1>7, <2>1, OrderKept
<1>8. CASE Record(p)
  <2>1. NextOf(p)' = ckpt' + 1
    <3>1. job'[p].stage = "checkMailbox"
      BY <1>1, <1>8, JobsTyped DEF Record, SoleInv, PlaceInv, TypeOK, BusyState
    <3> QED BY <1>1, <1>8, <3>1, RecordHasCause, ActivePlacesNext DEF Busy
  <2>2. AfterClose'
    BY <1>1, <1>5 DEF AfterClose
  <2>3. CASE InStep /\ Active(p) /\ job[p].msg = ckpt + 1
    <3>1. \A q \in Pipelines : Active(q)' => NextOf(q)' = ckpt' + 1
      BY <1>3, <2>1, <2>3, ActiveAlone
    <3> QED BY <1>1, <1>5, <2>2, <2>3, <3>1 DEF Order, InStep
  <2>4. CASE Cause(job[p].msg) /\ Excused
    <3>1. PICK i \in interrupted : i <= job[p].msg
      BY <2>4 DEF Cause
    <3>2. ckpt' = job[p].msg
      BY <1>8, RecordHasCause
    <3>3. job[p].msg \in Nat /\ i \in Nat
      BY <1>1, <3>1, NumbersAssumption DEF Msgs, SoleInv, PlaceInv, TypeOK
    <3>4. Cause(ckpt + 1)' /\ Cause(NextOf(p))'
      BY <1>1, <2>1, <3>1, <3>2, <3>3 DEF Cause
    <3>5. \A q \in Pipelines : Active(q)' => Cause(NextOf(q))'
      BY <1>1, <1>3, <1>4, <2>4, <3>4 DEF Excused, Cause
    <3> QED BY <2>2, <3>4, <3>5 DEF Order, Excused
  <2> QED BY <1>8, <2>3, <2>4, RecordHasCause
<1> QED BY <1>1, <1>7, <1>8

LEMMA StepKeepsOrder ==
  ASSUME OrderInv, KeptStep
  PROVE  AfterClose' /\ Order'
<1> USE DEF OrderInv
<1>1. CASE Quiet
  <2>1. UNCHANGED <<ckpt, call, job, interrupted>>
    BY <1>1 DEF Quiet, past
  <2>2. \A w \in Workers : Active(w)' => Active(w) /\ NextOf(w)' = NextOf(w)
    BY <1>1, <2>1 DEF Quiet, SamePlace, SetAside, Aside, Active, NextOf, Busy
  <2>3. \A k \in Calls : Active(k)' => Active(k) /\ NextOf(k)' = NextOf(k)
    BY <2>1, SetsAssumption DEF Active, NextOf, Busy
  <2>4. \A k \in Calls : InFlight(k)' = InFlight(k)
    BY <2>1 DEF InFlight, Processing, Busy
  <2> QED BY <2>1, <2>2, <2>3, <2>4, OrderKept DEF Pipelines
<1>2. CASE Restart
  <2>1. \A p \in Pipelines : ~Busy(p)' /\ ~Active(p)'
    BY <1>2, RestartMoves DEF Busy, Idle, Active, NoCall, SetAside, Aside, Pipelines
  <2>2. \A k \in Calls : InFlight(k)' = {}
    BY <1>2, <2>1, RestartMoves, NothingInFlight DEF Pipelines
  <2> QED BY <2>1, <2>2 DEF Order, InStep, AfterClose
<1> QED BY <1>1, <1>2, LoopKeepsOrder, CallKeepsOrder, MessageKeepsOrder DEF KeptStep

THEOREM OrderInvariant == Spec /\ NeverDeleted => []OrderInv
<1>1. Init /\ SoleInv => OrderInv
  BY DEF Init, OrderInv, Order, AfterClose, InFlight, Processing, Busy, Idle, NoCall, Pipelines
<1>2. OrderInv /\ SoleInv' /\ [Next]_vars /\ [Stays]_vars => OrderInv'
  BY KeptSteps, StepKeepsOrder, StaysOrStutters DEF OrderInv
<1> QED BY <1>1, <1>2, SoleInvariant, PTL DEF Spec, NeverDeleted

(***************************************************************************)
(* The checkpoint of a mailbox goes back only to a message that was in     *)
(* flight when its call or the process died, or to one behind it           *)
(* (index.js:682, "to avoid repeated delivery attempts").                  *)
(***************************************************************************)
THEOREM RewindsHaveCause == Spec /\ NeverDeleted => RewindsOnlyToInterrupted
<1>1. /\ OrderInv /\ [Next]_vars /\ [Stays]_vars
      => [ckpt # None /\ ckpt' # None /\ ckpt' < ckpt
            => \E i \in interrupted : i <= ckpt']_vars
  <2> SUFFICES ASSUME OrderInv, [Next]_vars, [Stays]_vars,
                      ckpt # None, ckpt' # None, ckpt' < ckpt
               PROVE  Cause(ckpt')
    BY DEF Cause
  <2>1. ckpt \in Nat /\ ~(ckpt < ckpt) /\ ~(ckpt + 1 < ckpt)
    BY NumbersAssumption DEF OrderInv, SoleInv, PlaceInv, TypeOK
  <2>2. KeptStep
    BY KeptSteps, StaysOrStutters DEF OrderInv
  <2>3. ASSUME NEW w \in Workers, LoopMove(w) PROVE UNCHANGED ckpt
    <3>1. ~LoopEndsCatchUp(w)
      BY <2>3 DEF LoopEndsCatchUp, SetCheckpoint, OrderInv, SoleInv, BeforeCheckpoint
    <3> QED BY <2>3, <3>1 DEF LoopMove, LoopRests, LoopStarts, LoopCatchesUp,
           LoopConnects, LoopBegins, LoopContinues, LoopFinishesPage, LoopFails,
           AbandonMessage, store
  <2>4. ASSUME NEW k \in Calls, KeptCallMove(k) PROVE UNCHANGED ckpt
    BY <2>4 DEF KeptCallMove, CallReceives, CallTakes, CallTakesLast, CallEnds,
       CallFinishes, CallFails, AbandonMessage, store
  <2>5. PICK p \in Pipelines : Record(p)
    BY <2>1, <2>2, <2>3, <2>4 DEF KeptStep, Quiet, Restart, store
  <2> QED BY <2>1, <2>5, RecordHasCause
<1> QED BY <1>1, OrderInvariant, PTL DEF Spec, NeverDeleted, RewindsOnlyToInterrupted

-----------------------------------------------------------------------------
(* What is sent twice *)

Sending(p) == job[p].stage \in {"sending", "removeStale", "refreshMetric"}

\* What APNs was sent once has its grounds to be sent again, or is behind the
\* checkpoint, or is being processed and will not be sent by that pipeline again.
Pushed ==
  \A m \in Msgs, d \in Devices : pushes[<<m, d>>] > 0 =>
    \/ Cause(m)
    \/ ckpt # None /\ m <= ckpt
    \/ \E p \in Pipelines : Sending(p) /\ job[p].msg = m /\ d \notin job[p].todo

RepeatInv == OrderInv /\ Pushed /\ RepeatsOnlyInterrupted

\* A step that sends nothing, and neither records nor forgets what was sent.
LEMMA PushedKept ==
  ASSUME RepeatInv, UNCHANGED pushes, interrupted \subseteq interrupted',
         ckpt # None => ckpt' = ckpt,
         \A p \in Pipelines : Sending(p) =>
           \/ /\ Sending(p)' /\ job'[p].msg = job[p].msg
              /\ job'[p].todo \subseteq job[p].todo
           \/ job[p].msg \in interrupted'
  PROVE  Pushed' /\ RepeatsOnlyInterrupted'
<1> USE DEF RepeatInv
<1>1. RepeatsOnlyInterrupted'
  BY DEF RepeatsOnlyInterrupted
<1>2. ASSUME NEW m \in Msgs, NEW d \in Devices, pushes'[<<m, d>>] > 0
      PROVE  \/ Cause(m)'
             \/ (ckpt # None /\ m <= ckpt)'
             \/ \E p \in Pipelines :
                  Sending(p)' /\ job'[p].msg = m /\ d \notin job'[p].todo
  <2>1. m \in Nat
    BY NumbersAssumption DEF Msgs
  <2>2. CASE Cause(m) \/ (ckpt # None /\ m <= ckpt)
    BY <2>2 DEF Cause
  <2>3. ASSUME NEW p \in Pipelines, Sending(p), job[p].msg = m, d \notin job[p].todo
        PROVE  \/ Cause(m)'
               \/ \E q \in Pipelines :
                    Sending(q)' /\ job'[q].msg = m /\ d \notin job'[q].todo
    BY <2>1, <2>3 DEF Cause
  <2> QED BY <1>2, <2>2, <2>3 DEF Pushed
<1>3. Pushed'
  BY <1>2 DEF Pushed
<1> QED BY <1>1, <1>3

LEMMA LoopKeepsPushed ==
  ASSUME RepeatInv, NEW w \in Workers, LoopMove(w)
  PROVE  Pushed' /\ RepeatsOnlyInterrupted'
<1> USE DEF RepeatInv, OrderInv, SoleInv, PlaceInv
<1>1. w \in Pipelines
  BY DEF Pipelines
<1>2. UNCHANGED pushes /\ interrupted \subseteq interrupted' /\ (ckpt # None => ckpt' = ckpt)
  BY DEF LoopMove, LoopRests, LoopStarts, LoopCatchesUp, LoopConnects, LoopBegins,
     LoopContinues, LoopFinishesPage, LoopFails, AbandonMessage, LoopEndsCatchUp,
     SetCheckpoint, BeforeCheckpoint, store, past
<1>3. OnlyJob(w)
  BY DEF LoopMove, LoopRests, LoopStarts, LoopCatchesUp, LoopConnects, LoopBegins,
     LoopContinues, LoopFinishesPage, LoopFails, AbandonMessage, LoopEndsCatchUp,
     SetCheckpoint, StartsMessage, OnlyJob, TypeOK
<1>4. \/ UNCHANGED job \/ job[w].msg \in interrupted'
      \/ job[w].stage \in {"idle", "checkMailbox"}
  BY <1>1 DEF LoopMove, LoopRests, LoopStarts, LoopCatchesUp, LoopConnects, LoopBegins,
     LoopContinues, LoopFinishesPage, LoopFails, AbandonMessage, LoopEndsCatchUp,
     SetCheckpoint, BatchIsBusy, Busy
<1> QED BY <1>2, <1>3, <1>4, PushedKept DEF OnlyJob, Sending

LEMMA CallKeepsPushed ==
  ASSUME RepeatInv, NEW k \in Calls, KeptCallMove(k)
  PROVE  Pushed' /\ RepeatsOnlyInterrupted'
<1> USE DEF RepeatInv, OrderInv, SoleInv, PlaceInv
<1>1. k \in Pipelines
  BY DEF Pipelines
<1>2. UNCHANGED <<pushes, ckpt>> /\ interrupted \subseteq interrupted'
  BY DEF KeptCallMove, CallReceives, CallTakes, CallTakesLast, CallEnds, CallFinishes,
     CallFails, AbandonMessage, store, past
<1>3. OnlyJob(k)
  BY DEF KeptCallMove, CallReceives, CallTakes, CallTakesLast, CallEnds, CallFinishes,
     CallFails, AbandonMessage, Takes, OnlyJob, TypeOK
<1>4. \/ UNCHANGED job \/ job[k].msg \in interrupted'
      \/ job[k].stage \in {"idle", "checkMailbox"}
  BY DEF KeptCallMove, CallReceives, CallTakes, CallTakesLast, CallEnds, CallFinishes,
     CallFails, AbandonMessage, Takes, Busy
<1> QED BY <1>2, <1>3, <1>4, PushedKept DEF OnlyJob, Sending

\* A notification goes out a second time only on such grounds.
LEMMA PushHasCause ==
  ASSUME RepeatInv, NEW p \in Pipelines, NEW d \in Devices, PushOk(p, d),
         pushes[<<job[p].msg, d>>] > 0
  PROVE  Cause(job[p].msg)
<1> USE DEF RepeatInv, OrderInv
<1> DEFINE m == job[p].msg
<1>1. Busy(p) /\ NextOf(p) = m /\ d \in job[p].todo
  BY ActivePlaces DEF PushOk, Busy
<1>2. m \in Msgs /\ m \in Nat /\ ckpt # None
  BY <1>1, BusyHasCheckpoint, JobsTyped, NumbersAssumption
     DEF Busy, SoleInv, PlaceInv, TypeOK, Msgs
<1>3. ASSUME NEW q \in Pipelines, Busy(q), job[q].msg = m, ~Active(q)
      PROVE  Cause(m)
  BY <1>2, <1>3, BusyPlaces DEF SoleInv, AfterClose, Cause
<1>4. Active(p) => m = ckpt + 1 \/ Cause(m)
  BY <1>1, <1>2 DEF Order, InStep, Excused
<1>5. CASE m <= ckpt
  <2>1. m # ckpt + 1
    BY <1>2, <1>5, NumbersAssumption DEF SoleInv, PlaceInv, TypeOK
  <2> QED BY <1>1, <1>3, <1>4, <2>1
<1>6. ASSUME NEW q \in Pipelines, Sending(q), job[q].msg = m, d \notin job[q].todo
      PROVE  Cause(m)
  <2>1. q # p /\ Busy(q)
    BY <1>1, <1>6 DEF Sending, Busy
  <2> QED BY <1>1, <1>3, <1>6, <2>1, ActiveAlone
<1> QED BY <1>2, <1>5, <1>6 DEF Pushed

LEMMA PushKeepsPushed ==
  ASSUME RepeatInv, NEW p \in Pipelines, NEW d \in Devices, PushOk(p, d)
  PROVE  Pushed' /\ RepeatsOnlyInterrupted'
<1> USE DEF RepeatInv, OrderInv, SoleInv, PlaceInv
<1> DEFINE m == job[p].msg
           x == <<m, d>>
<1>1. /\ job[p].stage = "sending" /\ d \in job[p].todo
      /\ UNCHANGED <<ckpt, interrupted>> /\ OnlyJob(p)
      /\ pushes' = [pushes EXCEPT ![x] = Min({@ + 1, 2})]
  BY DEF PushOk, OnlyJob, TypeOK, store
<1>2. job[p] \in BusyState /\ m \in Msgs /\ x \in Msgs \X Devices
  BY <1>1, JobsTyped DEF TypeOK
<1>3. /\ Sending(p)' /\ job'[p].msg = m /\ job'[p].todo = job[p].todo \ {d}
  BY <1>1, <1>2 DEF PushOk, TypeOK, BusyState, Sending
<1>4. \A y \in Msgs \X Devices : y # x => pushes'[y] = pushes[y]
  BY <1>1, <1>2 DEF TypeOK
<1>5. pushes'[x] = 2 => pushes[x] > 0
  <2>1. pushes[x] \in 0..2 /\ pushes'[x] = Min({pushes[x] + 1, 2})
    BY <1>1, <1>2 DEF TypeOK
  <2>2. pushes[x] = 0 => Min({pushes[x] + 1, 2}) = 1
    BY MinOfTwo
  <2> QED BY <2>1, <2>2
<1>6. RepeatsOnlyInterrupted'
  <2> SUFFICES ASSUME NEW y \in Msgs \X Devices, pushes'[y] = 2
               PROVE  \E i \in interrupted : i <= y[1]
    BY <1>1 DEF RepeatsOnlyInterrupted
  <2>1. CASE y # x
    BY <1>4, <2>1 DEF RepeatsOnlyInterrupted
  <2>2. CASE y = x
    BY <1>5, <2>2, PushHasCause DEF Cause
  <2> QED BY <2>1, <2>2
<1>7. Pushed'
  <2> SUFFICES ASSUME NEW n \in Msgs, NEW e \in Devices, pushes'[<<n, e>>] > 0
               PROVE  \/ Cause(n)
                      \/ ckpt # None /\ n <= ckpt
                      \/ \E q \in Pipelines :
                           Sending(q)' /\ job'[q].msg = n /\ e \notin job'[q].todo
    BY <1>1 DEF Pushed, Cause
  <2>1. CASE <<n, e>> = x
    BY <1>3, <2>1
  <2>2. CASE <<n, e>> # x
    <3>1. pushes[<<n, e>>] > 0
      BY <1>4, <2>2
    <3>2. ASSUME NEW q \in Pipelines, Sending(q), job[q].msg = n, e \notin job[q].todo
          PROVE  Sending(q)' /\ job'[q].msg = n /\ e \notin job'[q].todo
      BY <1>1, <1>3, <3>2 DEF OnlyJob, Sending
    <3> QED BY <3>1, <3>2 DEF Pushed
  <2> QED BY <2>1, <2>2
<1> QED BY <1>6, <1>7

LEMMA RecordKeepsPushed ==
  ASSUME RepeatInv, NEW p \in Pipelines, Record(p)
  PROVE  Pushed' /\ RepeatsOnlyInterrupted'
<1> USE DEF RepeatInv, OrderInv, SoleInv, PlaceInv
<1>1. UNCHANGED <<pushes, interrupted>> /\ OnlyJob(p) /\ Busy(p)
  BY DEF Record, OnlyJob, TypeOK, Busy
<1>2. /\ ckpt' = job[p].msg /\ job[p].msg \in Nat /\ ckpt' # None
      /\ ckpt # None /\ ckpt \in Nat
      /\ job[p].msg = ckpt + 1 \/ Cause(job[p].msg)
  BY <1>1, RecordHasCause, BusyPlaces, BusyHasCheckpoint, NoneAssumption, NumbersAssumption
     DEF TypeOK, Busy
<1>3. RepeatsOnlyInterrupted'
  BY <1>1 DEF RepeatsOnlyInterrupted
<1>4. Pushed'
  <2> SUFFICES ASSUME NEW n \in Msgs, NEW e \in Devices, pushes'[<<n, e>>] > 0
               PROVE  \/ Cause(n) \/ n <= ckpt'
                      \/ \E q \in Pipelines :
                           Sending(q)' /\ job'[q].msg = n /\ e \notin job'[q].todo
    BY <1>1, <1>2 DEF Pushed, Cause
  <2>1. n \in Nat /\ \A i \in interrupted : i \in Nat
    BY NumbersAssumption DEF Msgs, TypeOK
  <2>2. CASE n <= ckpt
    <3>1. CASE job[p].msg = ckpt + 1
      BY <1>2, <2>1, <2>2, <3>1
    <3>2. CASE Cause(job[p].msg)
      BY <1>2, <2>1, <2>2, <3>2 DEF Cause
    <3> QED BY <1>2, <3>1, <3>2
  <2>3. ASSUME NEW q \in Pipelines, Sending(q), job[q].msg = n, e \notin job[q].todo
        PROVE  \/ n <= ckpt'
               \/ Sending(q)' /\ job'[q].msg = n /\ e \notin job'[q].todo
    <3>1. CASE q = p
      BY <1>2, <2>1, <2>3, <3>1
    <3>2. CASE q # p
      BY <1>1, <2>3, <3>2 DEF OnlyJob, Sending
    <3> QED BY <3>1, <3>2
  <2>4. CASE Cause(n)
    BY <2>4
  <2> QED BY <1>1, <2>2, <2>3, <2>4 DEF Pushed
<1> QED BY <1>3, <1>4

LEMMA MessageKeepsPushed ==
  ASSUME RepeatInv, NEW p \in Pipelines, MessageStep(p), UNCHANGED ckpt \/ Record(p)
  PROVE  Pushed' /\ RepeatsOnlyInterrupted'
<1>1. CASE \/ GetDevices(p) \/ RemoveStale(p) \/ RefreshMetric(p)
           \/ \E d \in Devices : PushFail(p, d) \/ PushStale(p, d)
  <2>1. UNCHANGED <<pushes, interrupted>> /\ OnlyJob(p)
    BY <1>1 DEF GetDevices, RemoveStale, RefreshMetric, PushFail, PushStale, past, OnlyJob, RepeatInv,
       OrderInv, SoleInv, PlaceInv, TypeOK
  <2>2. UNCHANGED ckpt
    BY <1>1 DEF GetDevices, RemoveStale, RefreshMetric, PushFail, PushStale, Record, store
  <2>3. Sending(p) => /\ Sending(p)' /\ job'[p].msg = job[p].msg
                      /\ job'[p].todo \subseteq job[p].todo
    <3>1. Sending(p) => job[p] \in BusyState
      BY JobsTyped DEF Sending, RepeatInv, OrderInv, SoleInv, PlaceInv, TypeOK
    <3>2. job \in [Pipelines -> JobState]
      BY DEF RepeatInv, OrderInv, SoleInv, PlaceInv, TypeOK
    <3>3. CASE GetDevices(p)
      BY <3>3 DEF GetDevices, Sending
    <3>4. CASE RemoveStale(p)
      <4>1. job'[p] = [job[p] EXCEPT !.stage = "refreshMetric", !.device = None]
        BY <3>2, <3>4 DEF RemoveStale
      <4> QED BY <3>1, <4>1 DEF BusyState, Sending
    <3>5. ASSUME NEW d \in Devices, PushFail(p, d)
          PROVE  /\ Sending(p)' /\ job'[p].msg = job[p].msg
                 /\ job'[p].todo \subseteq job[p].todo
      <4>1. job'[p] = [job[p] EXCEPT !.todo = job[p].todo \ {d}]
            /\ job[p].stage = "sending"
        BY <3>2, <3>5 DEF PushFail
      <4> QED BY <3>1, <4>1 DEF BusyState, Sending
    <3>6. ASSUME NEW d \in Devices, PushStale(p, d)
          PROVE  /\ Sending(p)' /\ job'[p].msg = job[p].msg
                 /\ job'[p].todo \subseteq job[p].todo
      <4>1. job'[p] = [job[p] EXCEPT !.stage = "removeStale", !.device = d,
                                     !.todo = job[p].todo \ {d}]
            /\ job[p].stage = "sending"
        BY <3>2, <3>6 DEF PushStale
      <4> QED BY <3>1, <4>1 DEF BusyState, Sending
    <3>7. CASE RefreshMetric(p)
      <4>1. job'[p] = [job[p] EXCEPT !.stage = "sending"]
        BY <3>2, <3>7 DEF RefreshMetric
      <4> QED BY <3>1, <4>1 DEF BusyState, Sending
    <3> QED BY <1>1, <3>3, <3>4, <3>5, <3>6, <3>7
  <2> QED BY <2>1, <2>2, <2>3, PushedKept DEF OnlyJob, Sending
<1> QED BY <1>1, PushKeepsPushed, RecordKeepsPushed DEF MessageStep

LEMMA StepKeepsPushed ==
  ASSUME RepeatInv, KeptStep
  PROVE  Pushed' /\ RepeatsOnlyInterrupted'
<1>1. CASE Quiet
  BY <1>1, PushedKept DEF Quiet, past, Sending
<1>2. CASE Restart
  <2>1. /\ UNCHANGED <<pushes, ckpt>> /\ interrupted \subseteq interrupted'
        /\ \A p \in Pipelines : Busy(p) => job[p].msg \in interrupted'
    BY <1>2 DEF Restart, store, Processing
  <2> QED BY <2>1, PushedKept DEF Busy, Sending
<1> QED BY <1>1, <1>2, LoopKeepsPushed, CallKeepsPushed, MessageKeepsPushed DEF KeptStep

THEOREM RepeatInvariant == Spec /\ NeverDeleted => []RepeatInv
<1>1. Init /\ OrderInv => RepeatInv
  BY DEF Init, RepeatInv, Pushed, RepeatsOnlyInterrupted
<1>2. RepeatInv /\ OrderInv' /\ [Next]_vars /\ [Stays]_vars => RepeatInv'
  <2> SUFFICES ASSUME RepeatInv, OrderInv', [Next]_vars, [Stays]_vars PROVE RepeatInv'
    OBVIOUS
  <2>1. KeptStep
    BY KeptSteps, StaysOrStutters DEF RepeatInv, OrderInv
  <2> QED BY <2>1, StepKeepsPushed DEF RepeatInv
<1> QED BY <1>1, <1>2, OrderInvariant, PTL DEF Spec, NeverDeleted

(***************************************************************************)
(* A device is notified of a message a second time only because a message  *)
(* was in flight when its call or the process died (index.js:682).         *)
(***************************************************************************)
THEOREM RepeatsHaveCause == Spec /\ NeverDeleted => []RepeatsOnlyInterrupted
<1>1. RepeatInv => RepeatsOnlyInterrupted
  BY DEF RepeatInv
<1> QED BY <1>1, RepeatInvariant, PTL

-----------------------------------------------------------------------------
(* What is never sent *)

\* Everything that goes on does so behind the history that was passed over.
Behind(s) ==
  /\ ckpt # None /\ s <= ckpt
  /\ \A p \in Pipelines : Busy(p) => s < job[p].msg
  /\ \A k \in Calls : call[k] # NoCall => s <= call[k].taken
  /\ \A w \in Workers : worker[w].loop \in {"reading", "batch"} => s <= worker[w].cursor

SilentInv == SoleInv /\ (\A s \in skipped : Behind(s)) /\ HistoryIsSilent

LEMMA LoopStaysBehind ==
  ASSUME SilentInv, NEW w \in Workers, LoopMove(w), ckpt # None, NEW s \in skipped
  PROVE  Behind(s)' /\ skipped' = skipped
<1> USE DEF SilentInv, SoleInv, PlaceInv
<1> DEFINE cursor == worker[w].cursor
<1>0. /\ w \in Pipelines /\ cursor \in 0..MaxMsg /\ worker[w].upto \in 0..MaxMsg
      /\ MaxMsg \in Nat /\ s \in Nat
      /\ \A k \in Calls : k \in Pipelines /\ k # w
      /\ \A v \in Workers : v \in Pipelines
  BY SetsAssumption, NumbersAssumption DEF Pipelines, TypeOK, WorkerState, Msgs
<1>1. /\ s <= ckpt
      /\ \A p \in Pipelines : Busy(p) => s < job[p].msg
      /\ \A k \in Calls : call[k] # NoCall => s <= call[k].taken
      /\ \A v \in Workers : worker[v].loop \in {"reading", "batch"} => s <= worker[v].cursor
  BY DEF Behind
\* The rest stands where it stood.
<1>2. ASSUME UNCHANGED ckpt, OnlyWorker(w), OnlyJob(w),
             worker'[w].loop \in {"reading", "batch"} => s <= worker'[w].cursor,
             job'[w].stage # "idle" => s < job'[w].msg,
             UNCHANGED call \/ \E k \in Calls : OnlyCall(k) /\ s <= call'[k].taken
      PROVE  Behind(s)'
  BY <1>0, <1>1, <1>2 DEF Behind, OnlyWorker, OnlyJob, OnlyCall, Busy
<1>3. ~LoopEndsCatchUp(w)
  BY DEF LoopEndsCatchUp, SetCheckpoint, BeforeCheckpoint
<1>4. UNCHANGED <<ckpt, skipped>> /\ OnlyWorker(w)
  BY <1>3 DEF LoopMove, LoopRests, LoopStarts, LoopCatchesUp, LoopConnects, LoopBegins,
     LoopContinues, LoopFinishesPage, LoopFails, AbandonMessage, Asks, CaughtUp, Opens,
     StartsMessage, store, past
<1>5. OnlyJob(w)
  BY <1>3 DEF LoopMove, LoopRests, LoopStarts, LoopCatchesUp, LoopConnects, LoopBegins,
     LoopContinues, LoopFinishesPage, LoopFails, AbandonMessage, StartsMessage, OnlyJob,
     TypeOK
<1>6. job[w].stage # "idle" <=> worker[w].loop = "batch"
  BY DEF BatchIsBusy, Busy
<1>7. CASE LoopRests(w) \/ LoopStarts(w) \/ LoopCatchesUp(w)
  <2>1. UNCHANGED <<job, call>> /\ job[w].stage = "idle"
    BY <1>6, <1>7 DEF LoopRests, LoopStarts, LoopCatchesUp, Asks, CaughtUp
  <2>2. worker'[w].loop \in {"reading", "batch"} => s <= worker'[w].cursor
    <3>1. ~LoopCatchesUp(w)
      BY DEF LoopCatchesUp, BeforeCheckpoint
    <3> QED BY <1>1, <1>7, <3>1 DEF LoopRests, LoopStarts, SetAside, Aside, Asks
  <2> QED BY <1>2, <1>4, <1>5, <2>1, <2>2
<1>8. CASE LoopConnects(w)
  <2>1. UNCHANGED job /\ job[w].stage = "idle" /\ s <= cursor
    BY <1>1, <1>6, <1>8 DEF LoopConnects
  <2> QED BY <1>2, <1>4, <1>5, <1>8, <2>1 DEF LoopConnects, Asks, Opens
<1>9. CASE LoopBegins(w) \/ LoopContinues(w)
  <2>1. \E n, upto : StartsMessage(w, n, upto) /\ n \in Msgs /\ s <= n - 1
    <3>1. CASE LoopBegins(w)
      <4>1. s <= cursor /\ cursor < MaxMsg
        BY <1>1, <3>1 DEF LoopBegins
      <4>2. cursor + 1 \in Msgs /\ s <= (cursor + 1) - 1
        BY <1>0, <4>1 DEF Msgs
      <4>3. PICK upto : StartsMessage(w, cursor + 1, upto)
        BY <3>1 DEF LoopBegins
      <4> WITNESS cursor + 1, upto
      <4> QED BY <4>2, <4>3
    <3>2. CASE LoopContinues(w)
      <4>1. s <= cursor /\ cursor + 1 < worker[w].upto
        BY <1>1, <1>6, <3>2 DEF LoopContinues
      <4>2. cursor + 2 \in Msgs /\ s <= (cursor + 2) - 1
        BY <1>0, <4>1 DEF Msgs
      <4>3. StartsMessage(w, cursor + 2, worker[w].upto)
        BY <3>2 DEF LoopContinues
      <4> WITNESS cursor + 2, worker[w].upto
      <4> QED BY <4>2, <4>3
    <3> QED BY <1>9, <3>1, <3>2
  <2>2. PICK n \in Msgs : \E upto : StartsMessage(w, n, upto) /\ s <= n - 1
    BY <2>1
  <2>3. job'[w].msg = n /\ worker'[w].cursor = n - 1 /\ UNCHANGED call
    BY <2>2, JobsTyped DEF StartsMessage
  <2>4. s < n
    BY <1>0, <2>2 DEF Msgs
  <2> QED BY <1>2, <1>4, <1>5, <2>2, <2>3, <2>4
<1>10. CASE LoopFinishesPage(w)
  <2>1. job'[w].stage = "idle" /\ s <= cursor
    BY <1>1, <1>6, <1>10 DEF LoopFinishesPage, Idle
  <2>2. s <= cursor + 1
    BY <1>0, <2>1
  <2> QED BY <1>2, <1>4, <1>5, <1>10, <2>1, <2>2 DEF LoopFinishesPage, Asks, Opens
<1>11. CASE LoopFails(w)
  <2>1. job'[w].stage = "idle" /\ UNCHANGED call /\ worker'[w].loop \in Aside
    BY <1>0, <1>11 DEF LoopFails, AbandonMessage, SetAside, Idle, TypeOK
  <2> QED BY <1>2, <1>4, <1>5, <2>1 DEF Aside
<1> QED BY <1>3, <1>4, <1>7, <1>8, <1>9, <1>10, <1>11 DEF LoopMove

LEMMA CallStaysBehind ==
  ASSUME SilentInv, NEW k \in Calls, KeptCallMove(k), NEW s \in skipped
  PROVE  Behind(s)' /\ skipped' = skipped
<1> USE DEF SilentInv, SoleInv, PlaceInv
<1>0. /\ k \in Pipelines /\ s \in Nat /\ MaxMsg \in Nat
      /\ call[k].taken \in 0..MaxMsg /\ call[k].sent \in 0..MaxMsg
  BY NumbersAssumption DEF Pipelines, TypeOK, CallState, Msgs
<1>1. /\ ckpt # None /\ s <= ckpt
      /\ \A p \in Pipelines : Busy(p) => s < job[p].msg
      /\ \A j \in Calls : call[j] # NoCall => s <= call[j].taken
      /\ \A v \in Workers : worker[v].loop \in {"reading", "batch"} => s <= worker[v].cursor
  BY DEF Behind
<1>2. UNCHANGED <<ckpt, skipped>> /\ OnlyCall(k) /\ OnlyJob(k)
  BY DEF KeptCallMove, CallReceives, CallTakes, CallTakesLast, CallEnds, CallFinishes,
     CallFails, AbandonMessage, Takes, Closes, Resumes, OnlyJob, TypeOK, store, past
<1>3. \A w \in Workers : worker'[w] = worker[w] \/ worker'[w].loop \in Aside
  BY DEF KeptCallMove, CallReceives, CallTakes, CallTakesLast, CallEnds, CallFinishes,
     CallFails, Leaves, OnlyWorker, SetAside
<1>4. ASSUME job'[k].stage # "idle" => s < job'[k].msg,
             call'[k] # NoCall => s <= call'[k].taken
      PROVE  Behind(s)'
  BY <1>1, <1>2, <1>3, <1>4 DEF Behind, OnlyCall, OnlyJob, Busy, Aside
<1>5. CASE CallReceives(k) \/ CallEnds(k)
  <2>1. job'[k] = job[k]
    BY <1>0, <1>5 DEF CallReceives, CallEnds
  <2>2. call'[k] # NoCall => s <= call'[k].taken
    BY <1>1, <1>5 DEF CallReceives, CallEnds, Leaves, Closes, CallKept, NoCall
  <2> QED BY <1>0, <1>1, <1>2, <1>4, <2>1, <2>2 DEF Busy
<1>6. CASE CallTakes(k) \/ CallTakesLast(k)
  <2>1. /\ call[k].taken < call[k].sent
        /\ job'[k] = Begin(call[k].taken + 1) /\ call'[k].taken = call[k].taken + 1
    BY <1>6 DEF CallTakes, CallTakesLast, Takes
  <2>2. call[k].taken + 1 \in Msgs /\ call[k] # NoCall
    BY <1>0, <2>1 DEF Msgs, NoCall
  <2>3. s <= call[k].taken /\ job'[k].msg = call[k].taken + 1
    BY <1>1, <2>1, <2>2, JobsTyped
  <2>4. s < call[k].taken + 1 /\ s <= call[k].taken + 1
    BY <1>0, <2>3
  <2> QED BY <1>2, <1>4, <2>1, <2>3, <2>4
<1>7. CASE CallFinishes(k) \/ CallFails(k)
  <2>1. job'[k] = Idle /\ (call'[k] = call[k] \/ call'[k] = NoCall)
    BY <1>0, <1>7 DEF CallFinishes, CallFails, AbandonMessage, Resumes, TypeOK
  <2> QED BY <1>1, <1>2, <1>4, <2>1 DEF Idle
<1> QED BY <1>5, <1>6, <1>7 DEF KeptCallMove

LEMMA MessageStaysBehind ==
  ASSUME SilentInv, NEW p \in Pipelines, MessageStep(p), UNCHANGED ckpt \/ Record(p),
         NEW s \in skipped
  PROVE  Behind(s)' /\ skipped' = skipped
<1> USE DEF SilentInv, SoleInv, PlaceInv
<1>1. /\ UNCHANGED <<worker, call, skipped>> /\ OnlyJob(p)
      /\ Busy(p) /\ job'[p].msg = job[p].msg /\ job[p].msg \in Nat /\ s \in Nat
  BY MessageMoves, NumbersAssumption DEF Busy, TypeOK, Msgs
<1>2. s < job[p].msg /\ ckpt # None /\ s <= ckpt
  BY <1>1 DEF Behind
<1>3. ckpt' # None /\ s <= ckpt'
  <2>1. ckpt' = ckpt \/ ckpt' = job[p].msg
    BY DEF Record
  <2> QED BY <1>1, <1>2, <2>1, NoneAssumption
<1>4. \A q \in Pipelines : Busy(q)' => s < job'[q].msg
  BY <1>1, <1>2 DEF Behind, OnlyJob, Busy
<1> QED BY <1>1, <1>3, <1>4 DEF Behind

\* Without a checkpoint there is no history yet.
LEMMA NoHistoryYet ==
  ASSUME SilentInv, NEW s \in skipped
  PROVE  ckpt # None
BY DEF SilentInv, SoleInv, BeforeCheckpoint

\* The end of a catch-up, with everything still to come.
LEMMA CatchUpEndsBehind ==
  ASSUME SilentInv, NEW w \in Workers, w = current, LoopEndsCatchUp(w), reg # None
  PROVE  /\ \A s \in skipped' : Behind(s)'
         /\ HistoryIsSilent'
<1> USE DEF SilentInv, SoleInv, PlaceInv
<1>1. /\ ckpt = None /\ skipped = {} /\ \A p \in Pipelines : ~Busy(p)
      /\ \A k \in Calls : call[k] = NoCall
      /\ \A x \in Msgs \X Devices : pushes[x] = 0
  BY DEF LoopEndsCatchUp, SetCheckpoint, BeforeCheckpoint
<1>2. /\ UNCHANGED <<job, pushes>> /\ ckpt' = worker[w].cursor
      /\ skipped' = 1..worker[w].cursor
  BY <1>1 DEF LoopEndsCatchUp, SetCheckpoint
<1>3. PICK k \in Calls : Opens(w, k, worker[w].cursor)
  BY DEF LoopEndsCatchUp
<1>4. worker[w].cursor \in Nat /\ worker[w].cursor # None
  BY NumbersAssumption, NoneAssumption DEF TypeOK, WorkerState
<1>5. \A v \in Workers : worker'[v].loop \notin {"reading", "batch"}
  BY <1>3 DEF Opens, OnlyWorker, SoleWorker, NoWorker
<1>6. \A j \in Calls : call'[j] = NoCall \/ call'[j].taken = worker[w].cursor
  BY <1>1, <1>3 DEF Opens, OnlyCall
<1>7. \A p \in Pipelines : ~Busy(p)'
  BY <1>1, <1>2 DEF Busy
<1>8. \A s \in skipped' : Behind(s)'
  BY <1>2, <1>4, <1>5, <1>6, <1>7 DEF Behind
<1>9. HistoryIsSilent'
  BY <1>1, <1>2 DEF HistoryIsSilent
<1> QED BY <1>8, <1>9

\* Whatever is sent comes behind the history.
LEMMA PushIsBehind ==
  ASSUME SilentInv, NEW p \in Pipelines, NEW d \in Devices, PushOk(p, d)
  PROVE  HistoryIsSilent'
<1> USE DEF SilentInv, SoleInv, PlaceInv
<1>1. /\ Busy(p) /\ UNCHANGED skipped
      /\ \A x \in Msgs \X Devices : x # <<job[p].msg, d>> => pushes'[x] = pushes[x]
  BY DEF PushOk, Busy, TypeOK
<1>2. job[p].msg \notin skipped
  <2>1. \A s \in skipped : s \in Nat /\ s < job[p].msg
    BY <1>1, NumbersAssumption DEF Behind, TypeOK, Msgs
  <2> QED BY <2>1
<1> QED BY <1>1, <1>2 DEF HistoryIsSilent

LEMMA StepStaysSilent ==
  ASSUME SilentInv, KeptStep
  PROVE  /\ \A s \in skipped' : Behind(s)'
         /\ HistoryIsSilent'
<1>1. ASSUME UNCHANGED <<skipped, pushes>>, \A s \in skipped : Behind(s)'
      PROVE  (\A s \in skipped' : Behind(s)') /\ HistoryIsSilent'
  BY <1>1 DEF SilentInv, HistoryIsSilent
<1>2. ASSUME NEW w \in Workers, w = current, reg # None, LoopMove(w)
      PROVE  (\A s \in skipped' : Behind(s)') /\ HistoryIsSilent'
  <2>1. CASE ~LoopEndsCatchUp(w)
    <3>1. UNCHANGED <<skipped, pushes>>
      BY <1>2, <2>1 DEF LoopMove, LoopRests, LoopStarts, LoopCatchesUp, LoopConnects,
         LoopBegins, LoopContinues, LoopFinishesPage, LoopFails, AbandonMessage, past
    <3> QED BY <1>1, <1>2, <3>1, LoopStaysBehind, NoHistoryYet
  <2> QED BY <1>2, <2>1, CatchUpEndsBehind
<1>3. ASSUME NEW k \in Calls, KeptCallMove(k)
      PROVE  (\A s \in skipped' : Behind(s)') /\ HistoryIsSilent'
  <2>1. UNCHANGED <<skipped, pushes>>
    BY <1>3 DEF KeptCallMove, CallReceives, CallTakes, CallTakesLast, CallEnds,
       CallFinishes, CallFails, AbandonMessage, past
  <2> QED BY <1>1, <1>3, <2>1, CallStaysBehind
<1>4. ASSUME NEW p \in Pipelines, MessageStep(p), UNCHANGED ckpt \/ Record(p)
      PROVE  (\A s \in skipped' : Behind(s)') /\ HistoryIsSilent'
  <2>1. UNCHANGED skipped /\ \A s \in skipped : Behind(s)'
    BY <1>4, MessageStaysBehind, MessageMoves DEF SilentInv, SoleInv, PlaceInv
  <2>2. UNCHANGED pushes \/ \E d \in Devices : PushOk(p, d)
    BY <1>4 DEF MessageStep, GetDevices, RemoveStale, RefreshMetric, Record, PushFail, PushStale, past
  <2> QED BY <1>1, <2>1, <2>2, PushIsBehind
<1>5. CASE Quiet
  <2>1. UNCHANGED <<ckpt, call, job, past>>
        /\ \A w \in Workers : worker'[w].loop \in {"reading", "batch"} =>
             worker'[w].loop = worker[w].loop /\ worker'[w].cursor = worker[w].cursor
    BY <1>5 DEF Quiet, SamePlace, SetAside, Aside
  <2>2. \A s \in skipped : Behind(s)'
    BY <2>1 DEF SilentInv, Behind, Busy
  <2> QED BY <1>1, <2>1, <2>2 DEF past
<1>6. CASE Restart
  <2>1. UNCHANGED <<ckpt, skipped, pushes>>
    BY <1>6 DEF Restart, store
  <2>2. \A s \in skipped : Behind(s)'
    BY <1>6, <2>1, RestartMoves DEF SilentInv, Behind, Busy, Idle, SetAside, Aside
  <2> QED BY <1>1, <2>1, <2>2
<1> QED BY <1>2, <1>3, <1>4, <1>5, <1>6 DEF KeptStep

THEOREM SilentInvariant == Spec /\ NeverDeleted => []SilentInv
<1>1. Init /\ SoleInv => SilentInv
  BY DEF Init, SilentInv, HistoryIsSilent
<1>2. SilentInv /\ SoleInv' /\ [Next]_vars /\ [Stays]_vars => SilentInv'
  <2> SUFFICES ASSUME SilentInv, SoleInv', [Next]_vars, [Stays]_vars PROVE SilentInv'
    OBVIOUS
  <2>1. KeptStep
    BY KeptSteps, StaysOrStutters DEF SilentInv
  <2> QED BY <2>1, StepStaysSilent DEF SilentInv
<1> QED BY <1>1, <1>2, SoleInvariant, PTL DEF Spec, NeverDeleted

(***************************************************************************)
(* No message that a catch-up passed over is ever sent, before or after    *)
(* (README, "caught up silently").                                         *)
(***************************************************************************)
THEOREM HistoryStaysSilent == Spec /\ NeverDeleted => []HistoryIsSilent
<1>1. SilentInv => HistoryIsSilent
  BY DEF SilentInv
<1> QED BY <1>1, SilentInvariant, PTL
=============================================================================
