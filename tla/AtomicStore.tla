---------------------------- MODULE AtomicStore -----------------------------
(***************************************************************************)
(* What the checkpoint store promises its callers: writes take effect one  *)
(* after the other in the order they were asked for, each completely or    *)
(* not at all, and a caller is told which; a crash loses the answers and   *)
(* the writes that were still waiting, of which the first may have been    *)
(* done, and nothing else.                                                 *)
(***************************************************************************)
EXTENDS StoreRows, Sequences

CONSTANT Requests \* identities of the calls that are ever made

VARIABLES
  disk,   \* the committed database
  queue,  \* calls waiting for their answer, in the order they were made
  write,  \* what each call asked for
  status  \* what became of each call

vars == <<disk, queue, write, status>>

Submit(r, w) ==
  /\ status[r] = "unused"
  /\ status' = [status EXCEPT ![r] = "waiting"]
  /\ write' = [write EXCEPT ![r] = w]
  /\ queue' = Append(queue, r)
  /\ UNCHANGED disk

Answer(result) ==
  /\ queue # <<>>
  /\ queue' = Tail(queue)
  /\ status' = [status EXCEPT ![Head(queue)] = result]
  /\ UNCHANGED write

Succeed ==
  /\ Answer("ok")
  /\ disk' \in Effect(disk, write[Head(queue)])

Fail ==
  /\ Answer("failed")
  /\ UNCHANGED disk

Crash ==
  /\ disk' \in {disk} \cup IF queue = <<>> THEN {}
                           ELSE Effect(disk, write[Head(queue)])
  /\ queue' = <<>>
  /\ status' = [r \in Requests |-> IF status[r] = "waiting" THEN "lost"
                                                            ELSE status[r]]
  /\ UNCHANGED write

Init ==
  /\ disk \in Database
  /\ queue = <<>>
  /\ write = [r \in Requests |-> None]
  /\ status = [r \in Requests |-> "unused"]

Next ==
  \/ \E r \in Requests, w \in Writes : Submit(r, w)
  \/ Succeed
  \/ Fail
  \/ Crash

Spec == Init /\ [][Next]_vars
=============================================================================
