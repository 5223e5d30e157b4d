---------------------------- MODULE Registration ----------------------------
(***************************************************************************)
(* The registration API over all mailboxes: POST and DELETE /v1/register   *)
(* with the steps their awaits separate, the workers they start and stop,  *)
(* and the limit on mailboxes.  What one worker does is the subject of     *)
(* MailboxWorker.                                                          *)
(*                                                                         *)
(* All calls share one database connection: a count that is read while the *)
(* transaction of another call is open sees its uncommitted rows, and the  *)
(* transaction may still be rolled back.  That the rollback fails, too, is  *)
(* left to RelayStore.                                                     *)
(*                                                                         *)
(* A mailbox has one device here: a mailbox without a device has no rows.  *)
(***************************************************************************)
EXTENDS ApnsSender, Integers, FiniteSets

CONSTANTS
  Mailboxes,
  Tokens,       \* authorizations, each with an expiry of its own
  Servers,      \* Ark servers
  AllowLists,   \* bound: the allow lists that are ever configured
  ServerOf,     \* the ark_addr that comes with each token
  Requests,     \* bound: registrations in flight at a time
  MaxMailboxes, \* config.maxMailboxes, 0 for no limit
  Offered,      \* bound: the tokens registered for each mailbox
  Active,       \* bound: the mailboxes that are woken and leave again
  None,
  Faults        \* what the environment may do: "db_error", "restart"

ASSUME RegistrationAssumption ==
  /\ IsFiniteSet(Mailboxes) /\ IsFiniteSet(Requests)
  /\ ServerOf \in [Tokens -> Servers]
  /\ Offered \in [Mailboxes -> SUBSET Tokens]
  /\ AllowLists \subseteq SUBSET Servers
  /\ MaxMailboxes \in Nat
  /\ Active \subseteq Mailboxes /\ Devices \subseteq Mailboxes
  /\ None \notin Tokens \cup Mailboxes \cup [server: Servers, token: Tokens]
  /\ None \notin [Mailboxes -> Tokens \cup {None}]
  /\ Faults \subseteq {"db_error", "restart"}

VARIABLES
  allowed,  \* config.arkAddrAllowlist
  reg,      \* the stored authorization of each mailbox, None without a device
  open,     \* the rows as the open transaction has changed them, or None
  removing, \* the mailbox whose device the open transaction removes, or None
  worker,   \* the worker of each mailbox: its server and its token
  request,  \* the registrations in flight
  stopping, \* mailboxes a DELETE has left, before it counts their devices
  misled    \* history: mailboxes whose worker an uncommitted removal stopped

vars == <<allowed, reg, open, removing, worker, request, stopping, misled, apns>>

Idle == [at |-> "idle", mailbox |-> None, token |-> None]

\* What a SELECT returns.
Rows == IF open = None THEN reg ELSE open

Registered == {m \in Mailboxes : reg[m] # None}

Stages == {"idle", "countDevices", "countMailboxes", "validate", "register", "commit"}

TypeOK ==
  /\ ApnsTypeOK
  /\ allowed \subseteq Servers
  /\ reg \in [Mailboxes -> Tokens \cup {None}]
  /\ open \in [Mailboxes -> Tokens \cup {None}] \cup {None}
  /\ removing \in Mailboxes \cup {None}
  /\ worker \in [Mailboxes -> [server: Servers, token: Tokens] \cup {None}]
  /\ request \in [Requests -> [at: Stages, mailbox: Mailboxes \cup {None},
                               token: Tokens \cup {None}]]
  /\ stopping \subseteq Mailboxes /\ misled \subseteq Mailboxes

-----------------------------------------------------------------------------
(* POST /v1/register *)

IsAllowedArkAddr(server, allowlist) == server \in allowlist

At(r, stage) == request[r].at = stage
MailboxOf(r) == request[r].mailbox

Goes(r, stage) == request' = [request EXCEPT ![r].at = stage]

\* The request is answered with a rejection or has nothing left to do.
Done(r) == request' = [request EXCEPT ![r] = Idle]

\* The fields, the allow list and the expiry are checked when it arrives; it is
\* the app of the mailbox's device that sends it.
Arrive(r, m, t) ==
  /\ At(r, "idle") /\ IsAllowedArkAddr(ServerOf[t], allowed)
  /\ m \in Devices => home[m] # "gone"
  /\ request' = [request EXCEPT ![r] =
       [at |-> IF MaxMailboxes > 0 THEN "countDevices" ELSE "validate",
        mailbox |-> m, token |-> t]]
  /\ UNCHANGED <<allowed, reg, open, removing, worker, stopping, misled, apns>>

\* A mailbox that has a device is not held to the limit.
CountDevices(r) ==
  /\ At(r, "countDevices")
  /\ Goes(r, IF Rows[MailboxOf(r)] = None THEN "countMailboxes" ELSE "validate")
  /\ UNCHANGED <<allowed, reg, open, removing, worker, stopping, misled, apns>>

Counted == Cardinality({m \in Mailboxes : Rows[m] # None})

\* Mutant: the relay is full one mailbox too late.
FullTooLate == Counted > MaxMailboxes

Full == Counted >= MaxMailboxes

CountMailboxes(r) ==
  /\ At(r, "countMailboxes")
  /\ IF Full THEN Done(r) ELSE Goes(r, "validate")
  /\ UNCHANGED <<allowed, reg, open, removing, worker, stopping, misled, apns>>

\* The round trip to the Ark server, which accepts the token, and the reads
\* around it have no effect here.
Validate(r) ==
  /\ At(r, "validate")
  /\ Goes(r, "register")
  /\ UNCHANGED <<allowed, reg, open, removing, worker, stopping, misled, apns>>

\* The statements of registerDevice(), once no other transaction is open.
RegisterDevice(r) ==
  /\ At(r, "register") /\ open = None
  /\ open' = [reg EXCEPT ![MailboxOf(r)] = request[r].token]
  /\ Goes(r, "commit")
  /\ UNCHANGED <<allowed, reg, removing, worker, stopping, misled, apns>>

\* Mutant: the arguments of a new worker are exchanged.
EnsureWorkerSwapped(m, t) ==
  /\ worker' = [worker EXCEPT ![m] =
       IF @ = None THEN [server |-> t, token |-> ServerOf[t]] ELSE [@ EXCEPT !.token = t]]
  /\ misled' = misled \ {m}

\* ensureWorker(): a running worker keeps its server and gets the token.
EnsureWorker(m, t) ==
  /\ worker' = [worker EXCEPT ![m] =
       IF @ = None THEN [server |-> ServerOf[t], token |-> t] ELSE [@ EXCEPT !.token = t]]
  /\ misled' = misled \ {m}

Commit == reg' = open /\ open' = None

\* COMMIT, and ensureWorker() right after it.  The counts that follow are for
\* the answer: the registration stands without it.
Register(r) ==
  /\ At(r, "commit")
  /\ Commit
  /\ EnsureWorker(MailboxOf(r), request[r].token)
  /\ Done(r)
  /\ UNCHANGED <<allowed, removing, stopping, apns>>

\* A statement of the transaction fails, or its COMMIT.
RegisterFails(r) ==
  /\ At(r, "commit") /\ "db_error" \in Faults
  /\ open' = None
  /\ Done(r)
  /\ UNCHANGED <<allowed, reg, removing, worker, stopping, misled, apns>>

\* The Ark server rejects the token, or a read fails.
Reject(r) ==
  /\ \/ At(r, "validate")
     \/ "db_error" \in Faults /\ request[r].at \notin {"idle", "commit"}
  /\ Done(r)
  /\ UNCHANGED <<allowed, reg, open, removing, worker, stopping, misled, apns>>

-----------------------------------------------------------------------------
(* DELETE /v1/register and the removal of a stale device *)

\* The statements of unregisterDevice(), once no other transaction is open: the
\* last device goes, and its mailbox's rows with it.
UnregisterDevice(m) ==
  /\ open = None
  /\ open' = [reg EXCEPT ![m] = None]
  /\ removing' = m
  /\ UNCHANGED <<allowed, reg, worker, request, stopping, misled>>

Unregister(m) == m \notin stopping /\ UnregisterDevice(m) /\ UNCHANGED apns

\* onStaleDevice(), some time after the answer.
RemoveStaleDevice(m) ==
  /\ m \in stale
  /\ stale' = stale \ {m}
  /\ UnregisterDevice(m)
  /\ UNCHANGED home

Removed ==
  /\ removing # None
  /\ Commit
  /\ removing' = None
  /\ stopping' = stopping \cup {removing}
  /\ UNCHANGED <<allowed, worker, request, misled, apns>>

\* A statement of the transaction fails, or its COMMIT: nothing is counted then.
RemovalFails ==
  /\ removing # None /\ "db_error" \in Faults
  /\ open' = None /\ removing' = None
  /\ UNCHANGED <<allowed, reg, worker, request, stopping, misled, apns>>

\* Mutant: the worker is stopped without counting the devices again.
StopInAnyCase(m) ==
  /\ stopping' = stopping \ {m}
  /\ worker' = [worker EXCEPT ![m] = None]
  /\ UNCHANGED <<allowed, reg, open, removing, request, misled, apns>>

\* countDevices(), and stopWorker() if none is left.
StopIfUnused(m) ==
  /\ stopping' = stopping \ {m}
  /\ worker' = [worker EXCEPT ![m] = IF Rows[m] = None THEN None ELSE @]
  /\ misled' = IF Rows[m] = None /\ reg[m] # None THEN misled \cup {m} ELSE misled
  /\ UNCHANGED <<allowed, reg, open, removing, request, apns>>

\* The count fails, and the worker goes on.
CountFails(m) ==
  /\ "db_error" \in Faults
  /\ stopping' = stopping \ {m}
  /\ UNCHANGED <<allowed, reg, open, removing, worker, request, misled, apns>>

-----------------------------------------------------------------------------
(* The process and the devices *)

\* Mutant: the allow list is not consulted at the start.
StartsAny(m) == reg[m] # None

\* The workers a process starts with: startAll().
Starts(m) == reg[m] # None /\ IsAllowedArkAddr(ServerOf[reg[m]], allowed')

\* A new process, perhaps with another allow list; it serves no request before
\* its workers run.  An open transaction is lost.
Restart ==
  /\ "restart" \in Faults
  /\ allowed' \in AllowLists
  /\ worker' = [m \in Mailboxes |->
       IF Starts(m) THEN [server |-> ServerOf[reg[m]], token |-> reg[m]] ELSE None]
  /\ request' = [r \in Requests |-> Idle]
  /\ open' = None /\ removing' = None
  /\ stopping' = {} /\ misled' = {}
  /\ stale' = {}
  /\ UNCHANGED <<reg, home>>

Push(d) ==
  /\ reg[d] # None /\ SendPush(d)
  /\ UNCHANGED <<allowed, reg, open, removing, worker, request, stopping, misled>>

AppRemoved(d) ==
  /\ Uninstall(d)
  /\ UNCHANGED <<allowed, reg, open, removing, worker, request, stopping, misled>>

Init ==
  /\ allowed \in AllowLists
  /\ reg = [m \in Mailboxes |-> None]
  /\ open = None /\ removing = None
  /\ worker = [m \in Mailboxes |-> None]
  /\ request = [r \in Requests |-> Idle]
  /\ stopping = {} /\ misled = {}
  /\ ApnsInit

Post(r) ==
  \/ \E m \in Mailboxes : \E t \in Offered[m] : Arrive(r, m, t)
  \/ CountDevices(r) \/ CountMailboxes(r) \/ Validate(r)
  \/ RegisterDevice(r) \/ Register(r) \/ RegisterFails(r) \/ Reject(r)

Next ==
  \/ \E r \in Requests : Post(r)
  \/ \E m \in Active : Unregister(m)
  \/ Removed \/ RemovalFails
  \/ \E m \in stopping : StopIfUnused(m) \/ CountFails(m)
  \/ \E d \in Devices : Push(d) \/ AppRemoved(d) \/ RemoveStaleDevice(d)
  \/ Restart

Spec == Init /\ [][Next]_vars

-----------------------------------------------------------------------------
(* Properties *)

\* MAX_MAILBOXES is the most mailboxes the relay serves (README.md:73): the
\* check at index.js:1183 and the registration behind it are not one step.
MailboxLimit == MaxMailboxes > 0 => Cardinality(Registered) <= MaxMailboxes

\* How far MAX_MAILBOXES can be exceeded: by one mailbox for each registration in
\* flight, also when what their checks counted was removed at that moment and
\* the removal is undone (the counts at index.js:1184 see uncommitted rows).
OverrunIsBounded ==
  MaxMailboxes > 0 => Cardinality(Registered) <= MaxMailboxes + Cardinality(Requests)

\* No worker is connected to a server the allow list does not name, whatever
\* was registered under an earlier list and whoever registers again since.
AllowedServersOnly ==
  \A m \in Mailboxes : worker[m] # None => worker[m].server \in allowed

\* A registered mailbox of an allowed server is served with the stored
\* authorization, however registrations, removals and restarts overlap, unless
\* its worker was stopped by a count that saw a removal not yet committed.
RegisteredIsServed ==
  \A m \in Mailboxes \ misled :
    reg[m] # None /\ ServerOf[reg[m]] \in allowed =>
      worker[m] # None /\ worker[m].token = reg[m]
=============================================================================
