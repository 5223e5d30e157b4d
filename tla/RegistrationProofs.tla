------------------------- MODULE RegistrationProofs -------------------------
(***************************************************************************)
(* Proofs about Registration and ApnsSender, for every value of their      *)
(* constants.                                                              *)
(***************************************************************************)
EXTENDS Registration, FiniteSetTheorems, TLAPS

USE RegistrationAssumption, ApnsAssumption

-----------------------------------------------------------------------------
(* The inductive invariant *)

\* A request in flight is for a server on the list.
Served(q) ==
  q.at # "idle" =>
    q.mailbox \in Mailboxes /\ q.token \in Tokens /\ ServerOf[q.token] \in allowed

RequestInv == \A r \in Requests : Served(request[r])

Committing(r) == At(r, "commit")

\* At most one transaction is open, and what it has changed so far.
TransactionInv ==
  /\ open = None => removing = None /\ \A r \in Requests : ~Committing(r)
  /\ open # None => removing # None \/ \E r \in Requests : Committing(r)
  /\ removing # None =>
       /\ open = [reg EXCEPT ![removing] = None]
       /\ \A r \in Requests : ~Committing(r)
  /\ \A r \in Requests : Committing(r) =>
       /\ open = [reg EXCEPT ![MailboxOf(r)] = request[r].token]
       /\ \A q \in Requests : Committing(q) => q = r

HasPassed(q) == q.at \in {"validate", "register", "commit"}
Passed == {r \in Requests : HasPassed(request[r])}

\* The mailboxes that are registered or that the limit no longer stops.
Taken == Registered \cup {MailboxOf(r) : r \in Passed}

LimitInv == MaxMailboxes > 0 => Cardinality(Taken) <= MaxMailboxes + Cardinality(Requests)

RegInv ==
  /\ TypeOK
  /\ RequestInv /\ TransactionInv
  /\ LimitInv
  /\ AllowedServersOnly /\ RegisteredIsServed
  /\ OnlyDeadDevicesAreStale

-----------------------------------------------------------------------------
(* A push to one device *)

LEMMA OppositeEnvironment ==
  /\ FallbackEnvironment \in Environments \ {PrimaryEnvironment}
  /\ Environments = {PrimaryEnvironment, FallbackEnvironment}
<1>1. \E e \in Environments : e # PrimaryEnvironment
  BY DEF Environments
<1>2. FallbackEnvironment \in Environments \ {PrimaryEnvironment}
  BY <1>1 DEF FallbackEnvironment
<1> QED
  BY <1>2 DEF Environments

\* No environment calls a device of its own stale.
LEMMA HomeIsNotStale ==
  ASSUME NEW d, NEW e \in Environments, home[d] = e
  PROVE  Answers(d, e) \cap StaleReasons = {}
BY DEF Answers, StaleReasons, Environments

\* A push that fails for good was to a device no environment delivers to.
LEMMA StaleIsDead ==
  ASSUME NEW d, Outcomes(d) \cap StaleReasons # {}
  PROVE  home[d] \notin Usable
<1>1. PICK answer \in Answers(d, PrimaryEnvironment), last \in StaleReasons :
        last \in IF CanTryFallback(answer) THEN Answers(d, FallbackEnvironment) ELSE {answer}
  BY DEF Outcomes
<1>2. answer \in StaleReasons /\ home[d] # PrimaryEnvironment
  BY <1>1, HomeIsNotStale, OppositeEnvironment DEF CanTryFallback
<1>3. CASE AllowBoth
  <2>1. home[d] # FallbackEnvironment
    BY <1>1, <1>2, <1>3, HomeIsNotStale, OppositeEnvironment DEF CanTryFallback
  <2> QED
    BY <1>2, <1>3, <2>1, OppositeEnvironment DEF Usable
<1>4. CASE ~AllowBoth
  BY <1>2, <1>4 DEF Usable
<1> QED
  BY <1>3, <1>4

\* The steps of ApnsSender keep its types and remove no device in use.
LEMMA ApnsSteps ==
  ASSUME ApnsTypeOK, OnlyDeadDevicesAreStale, NEW d \in Devices,
         \/ SendPush(d)
         \/ Uninstall(d)
         \/ stale' \subseteq stale /\ UNCHANGED home
  PROVE  ApnsTypeOK' /\ OnlyDeadDevicesAreStale'
<1>1. CASE SendPush(d)
  BY <1>1, StaleIsDead DEF SendPush, ApnsTypeOK, OnlyDeadDevicesAreStale, Usable
<1>2. CASE Uninstall(d)
  BY <1>2 DEF Uninstall, ApnsTypeOK, OnlyDeadDevicesAreStale, Usable, Environments
<1>3. CASE stale' \subseteq stale /\ UNCHANGED home
  BY <1>3 DEF ApnsTypeOK, OnlyDeadDevicesAreStale, Usable
<1> QED
  BY <1>1, <1>2, <1>3

-----------------------------------------------------------------------------
(* The limit on mailboxes *)

LEMMA TakenIsFinite ==
  ASSUME TypeOK, RequestInv
  PROVE  /\ Taken \subseteq Mailboxes
         /\ IsFiniteSet(Taken) /\ Cardinality(Taken) \in Nat
<1>1. Taken \subseteq Mailboxes
  BY DEF Taken, Registered, Passed, HasPassed, MailboxOf, RequestInv, Served
<1> QED
  BY <1>1, FS_Subset, FS_CardinalityType

\* A step that takes no further mailbox keeps the limit.
LEMMA NothingTaken ==
  ASSUME TypeOK, RequestInv, TypeOK', RequestInv', LimitInv, Taken' \subseteq Taken
  PROVE  LimitInv'
<1>1. Cardinality(Taken') <= Cardinality(Taken) /\ Cardinality(Taken') \in Nat
  BY TakenIsFinite, FS_Subset, FS_CardinalityType
<1> QED
  BY <1>1, TakenIsFinite, FS_CardinalityType DEF LimitInv

LEMMA UnionBound ==
  ASSUME NEW S, IsFiniteSet(S), NEW T, IsFiniteSet(T)
  PROVE  Cardinality(S \cup T) <= Cardinality(S) + Cardinality(T)
<1>1. IsFiniteSet(S \cap T) /\ IsFiniteSet(S \cup T)
  BY FS_Intersection, FS_Union
<1>2. /\ Cardinality(S) \in Nat /\ Cardinality(T) \in Nat
      /\ Cardinality(S \cap T) \in Nat /\ Cardinality(S \cup T) \in Nat
  BY <1>1, FS_CardinalityType
<1>3. Cardinality(S \cup T) = Cardinality(S) + Cardinality(T) - Cardinality(S \cap T)
  BY FS_Union
<1> QED
  BY <1>2, <1>3

\* The registrations in flight take at most one mailbox each.
LEMMA TakenBound ==
  ASSUME TypeOK, RequestInv
  PROVE  Cardinality(Taken) <= Cardinality(Registered) + Cardinality(Requests)
<1> DEFINE Of == [r \in Passed |-> MailboxOf(r)]
           InFlight == {MailboxOf(r) : r \in Passed}
<1>1. IsFiniteSet(Passed) /\ Cardinality(Passed) <= Cardinality(Requests)
  BY FS_Subset DEF Passed
<1>2. Of \in Surjection(Passed, InFlight)
  BY DEF Surjection
<1>3. IsFiniteSet(InFlight) /\ Cardinality(InFlight) <= Cardinality(Passed)
  BY <1>1, <1>2, FS_Surjection
<1>4. IsFiniteSet(Registered)
  BY FS_Subset DEF Registered
<1>5. Cardinality(Taken) <= Cardinality(Registered) + Cardinality(InFlight)
  BY <1>3, <1>4, UnionBound DEF Taken
<1>6. /\ Cardinality(Registered) \in Nat /\ Cardinality(InFlight) \in Nat
      /\ Cardinality(Requests) \in Nat /\ Cardinality(Passed) \in Nat
      /\ Cardinality(Taken) \in Nat
  BY <1>1, <1>3, <1>4, TakenIsFinite, FS_CardinalityType
<1> QED
  BY <1>1, <1>3, <1>5, <1>6

\* A count that sees an open removal misses one mailbox at most.
LEMMA CountBound ==
  ASSUME RegInv
  PROVE  Cardinality(Registered) <= Counted + 1
<1> DEFINE Seen == {m \in Mailboxes : Rows[m] # None}
<1>1. \E m : Registered \subseteq Seen \cup {m}
  <2>1. CASE open = None
    BY <2>1 DEF Rows, Registered
  <2>2. CASE removing # None
    <3>1. \A m \in Mailboxes \ {removing} : Rows[m] = reg[m]
      BY <2>2 DEF RegInv, TransactionInv, TypeOK, Rows
    <3> QED
      BY <3>1 DEF Registered
  <2>3. ASSUME NEW r \in Requests, Committing(r) PROVE Registered \subseteq Seen
    <3>1. open # None /\ request[r].token # None
      BY <2>3 DEF RegInv, TransactionInv, RequestInv, Served, Committing, At
    <3>2. \A m \in Mailboxes : reg[m] # None => Rows[m] # None
      BY <2>3, <3>1 DEF RegInv, TransactionInv, TypeOK, Rows
    <3> QED
      BY <3>2 DEF Registered
  <2> QED
    BY <2>1, <2>2, <2>3 DEF RegInv, TransactionInv
<1>2. PICK m : Registered \subseteq Seen \cup {m}
  BY <1>1
<1>3. IsFiniteSet(Seen) /\ Cardinality(Seen) = Counted
  BY FS_Subset DEF Counted
<1>4. IsFiniteSet({m}) /\ Cardinality({m}) = 1
  BY FS_Singleton
<1>5. Cardinality(Seen \cup {m}) <= Counted + 1 /\ IsFiniteSet(Seen \cup {m})
  BY <1>3, <1>4, UnionBound, FS_Union
<1>6. Cardinality(Registered) <= Cardinality(Seen \cup {m})
  BY <1>2, <1>5, FS_Subset
<1>7. /\ Cardinality(Registered) \in Nat /\ Cardinality(Seen \cup {m}) \in Nat
      /\ Counted \in Nat
  BY <1>3, <1>5, FS_Subset, FS_CardinalityType DEF Registered
<1> QED
  BY <1>5, <1>6, <1>7

-----------------------------------------------------------------------------
(* The steps of a request *)

Request == [at: Stages, mailbox: Mailboxes \cup {None}, token: Tokens \cup {None}]

others == <<allowed, reg, open, removing, worker, stopping, misled, apns>>

\* What a step of one request takes: nothing new, or a mailbox there is room for.
LEMMA TakenByOne ==
  ASSUME RegInv, TypeOK', RequestInv', NEW r \in Requests, NEW q,
         request' = [request EXCEPT ![r] = q], UNCHANGED reg,
         MaxMailboxes > 0 /\ HasPassed(q) => q.mailbox \in Taken \/ ~Full
  PROVE  LimitInv'
<1>1. UNCHANGED Registered
  BY DEF Registered
<1>2. CASE ~HasPassed(q) \/ q.mailbox \in Taken
  <2> SUFFICES Taken' \subseteq Taken
    BY NothingTaken DEF RegInv
  <2>1. \A o \in Requests : request'[o] = IF o = r THEN q ELSE request[o]
    BY DEF RegInv, TypeOK
  <2>2. ASSUME NEW o \in Passed'
        PROVE  request'[o].mailbox \in Taken
    <3>1. CASE o = r
      BY <1>2, <2>1, <2>2, <3>1 DEF Passed
    <3>2. CASE o # r
      BY <2>1, <2>2, <3>2 DEF Passed, Taken, MailboxOf
    <3> QED
      BY <3>1, <3>2
  <2> QED
    BY <1>1, <2>2 DEF Taken, MailboxOf
<1>3. ASSUME ~Full, MaxMailboxes > 0
      PROVE  LimitInv'
  <2>1. IsFiniteSet(Registered)
    BY FS_Subset DEF Registered
  <2>2. Counted \in Nat
    <3>1. IsFiniteSet({m \in Mailboxes : Rows[m] # None})
      BY FS_Subset
    <3> QED
      BY <3>1, FS_CardinalityType DEF Counted
  <2>3. Cardinality(Registered) <= MaxMailboxes /\ Cardinality(Registered) \in Nat
    BY <1>3, <2>1, <2>2, CountBound, FS_CardinalityType DEF Full
  <2>4. (Cardinality(Taken) <= Cardinality(Registered) + Cardinality(Requests))'
    BY TakenBound, PTL
  <2>5. (Cardinality(Taken) \in Nat)'
    BY TakenIsFinite, PTL
  <2>6. Cardinality(Requests) \in Nat
    BY FS_CardinalityType
  <2> QED
    BY <1>1, <2>3, <2>4, <2>5, <2>6 DEF LimitInv
<1> QED
  BY <1>2, <1>3 DEF LimitInv

\* A step of one request outside its transaction changes nothing else.
LEMMA OneRequest ==
  ASSUME RegInv, NEW r \in Requests, NEW q \in Request,
         request' = [request EXCEPT ![r] = q], UNCHANGED others,
         Served(q), q.at # "commit", ~Committing(r),
         MaxMailboxes > 0 /\ HasPassed(q) => q.mailbox \in Taken \/ ~Full
  PROVE  RegInv'
<1>1. TypeOK'
  BY DEF RegInv, TypeOK, Request, others, ApnsTypeOK, apns
<1>2. \A o \in Requests : request'[o] = IF o = r THEN q ELSE request[o]
  BY DEF RegInv, TypeOK
<1>3. RequestInv'
  BY <1>2 DEF RegInv, RequestInv, Served, others
<1>4. TransactionInv'
  <2>1. \A o \in Requests : Committing(o)' <=> Committing(o)
    BY <1>2 DEF Committing, At
  <2>2. \A o \in Requests : Committing(o) => request'[o] = request[o]
    BY <1>2
  <2> QED
    BY <2>1, <2>2 DEF RegInv, TransactionInv, others, MailboxOf
<1>5. LimitInv'
  BY <1>1, <1>3, TakenByOne DEF others
<1>6. AllowedServersOnly' /\ RegisteredIsServed' /\ OnlyDeadDevicesAreStale'
  BY DEF RegInv, AllowedServersOnly, RegisteredIsServed, OnlyDeadDevicesAreStale, others, apns, Usable
<1> QED
  BY <1>1, <1>3, <1>4, <1>5, <1>6 DEF RegInv

\* The transaction of a registration begins.
LEMMA RegisterDeviceStep ==
  ASSUME RegInv, NEW r \in Requests, RegisterDevice(r)
  PROVE  RegInv'
<1> DEFINE q == [request[r] EXCEPT !.at = "commit"]
<1>1. /\ request[r] \in Request /\ request[r].at = "register" /\ open = None
      /\ request[r].mailbox \in Mailboxes /\ request[r].token \in Tokens
      /\ ServerOf[request[r].token] \in allowed
  BY DEF RegInv, TypeOK, RequestInv, Request, Served, RegisterDevice, At
<1>2. q \in Request /\ q.at = "commit" /\ q.mailbox = request[r].mailbox /\ q.token = request[r].token
  BY <1>1 DEF Request, Stages
<1>3. \A o \in Requests : request'[o] = IF o = r THEN q ELSE request[o]
  BY DEF RegInv, TypeOK, RegisterDevice, Goes
<1>4. open' = [reg EXCEPT ![MailboxOf(r)] = request[r].token]
      /\ UNCHANGED <<allowed, reg, removing, worker, stopping, misled, home, stale>>
  BY DEF RegisterDevice, apns
<1>5. open' \in [Mailboxes -> Tokens \cup {None}] /\ open' # None
  BY <1>1, <1>4 DEF RegInv, TypeOK, MailboxOf
<1>6. TypeOK'
  <2>1. request' \in [Requests -> Request]
    BY <1>2, <1>3 DEF RegInv, TypeOK, Request, RegisterDevice, Goes
  <2> QED
    BY <1>4, <1>5, <2>1 DEF RegInv, TypeOK, Request, ApnsTypeOK
<1>7. RequestInv'
  BY <1>1, <1>2, <1>3, <1>4 DEF RegInv, RequestInv, Served
<1>8. TransactionInv'
  <2>1. removing = None /\ \A o \in Requests : ~Committing(o)
    BY <1>1 DEF RegInv, TransactionInv
  <2>2. \A o \in Requests : Committing(o)' <=> o = r
    BY <1>2, <1>3, <2>1 DEF Committing, At
  <2>3. request'[r] = q
    BY <1>3
  <2> QED
    BY <1>2, <1>4, <1>5, <2>1, <2>2, <2>3 DEF TransactionInv, MailboxOf
<1>9. LimitInv'
  <2>1. q.mailbox \in Taken
    BY <1>1, <1>2 DEF Taken, Passed, HasPassed, MailboxOf
  <2>2. request' = [request EXCEPT ![r] = q]
    BY DEF RegisterDevice, Goes
  <2> QED
    BY <1>4, <1>6, <1>7, <2>1, <2>2, TakenByOne
<1>10. AllowedServersOnly' /\ RegisteredIsServed' /\ OnlyDeadDevicesAreStale'
  BY <1>4 DEF RegInv, AllowedServersOnly, RegisteredIsServed, OnlyDeadDevicesAreStale, Usable
<1> QED
  BY <1>6, <1>7, <1>8, <1>9, <1>10 DEF RegInv

LEMMA IdleRequest ==
  Idle \in Request /\ Served(Idle) /\ ~HasPassed(Idle) /\ Idle.at # "commit"
BY DEF Idle, Request, Stages, Served, HasPassed

\* The request that commits is the only one, and done with it.
LEMMA LastStep ==
  ASSUME RegInv, NEW r \in Requests, Committing(r), Done(r), open' = None,
         UNCHANGED <<allowed, removing>>
  PROVE  RequestInv' /\ TransactionInv'
<1>1. \A o \in Requests : request'[o] = IF o = r THEN Idle ELSE request[o]
  BY DEF RegInv, TypeOK, Done
<1>2. \A o \in Requests : ~Committing(o)'
  BY <1>1, IdleRequest DEF RegInv, TransactionInv, Committing, At
<1>3. removing' = None
  BY DEF RegInv, TransactionInv
<1> QED
  BY <1>1, <1>2, <1>3, IdleRequest DEF RegInv, RequestInv, Served, TransactionInv

\* A registration commits: its mailbox was taken already, and its worker gets
\* the authorization that is stored.
LEMMA RegisterStep ==
  ASSUME RegInv, NEW r \in Requests, Register(r)
  PROVE  RegInv'
<1> DEFINE m == MailboxOf(r)
           t == request[r].token
<1>1. /\ m \in Mailboxes /\ t \in Tokens /\ ServerOf[t] \in allowed
      /\ ServerOf[t] \in Servers /\ t # None /\ m # None /\ Committing(r)
  BY DEF RegInv, RequestInv, Served, Register, At, MailboxOf, Committing
<1>2. /\ reg' = [reg EXCEPT ![m] = t] /\ open' = None
      /\ worker' = [worker EXCEPT ![m] =
           IF @ = None THEN [server |-> ServerOf[t], token |-> t] ELSE [@ EXCEPT !.token = t]]
      /\ misled' = misled \ {m}
      /\ UNCHANGED <<allowed, removing, stopping, home, stale>>
  BY <1>1 DEF Register, Commit, EnsureWorker, apns, RegInv, TransactionInv
<1>3. \A o \in Requests : request'[o] = IF o = r THEN Idle ELSE request[o]
  BY DEF RegInv, TypeOK, Register, Done
<1>4. TypeOK'
  <2>1. request' \in [Requests -> Request]
    BY IdleRequest DEF RegInv, TypeOK, Request, Register, Done
  <2>2. worker' \in [Mailboxes -> [server: Servers, token: Tokens] \cup {None}]
    BY <1>1, <1>2 DEF RegInv, TypeOK
  <2> QED
    BY <1>1, <1>2, <2>1, <2>2 DEF RegInv, TypeOK, Request, ApnsTypeOK
<1>5. RequestInv' /\ TransactionInv'
  BY <1>1, <1>2, LastStep DEF Register
<1>6. LimitInv'
  <2>1. Registered' \subseteq Taken
    <3>1. m \in Taken
      BY <1>1 DEF Committing, At, Passed, HasPassed, Taken
    <3> QED
      BY <1>2, <3>1 DEF Registered, Taken, RegInv, TypeOK
  <2>2. ASSUME NEW o \in Passed' PROVE request'[o].mailbox \in Taken
    BY <1>3, <2>2, IdleRequest DEF Passed, Taken, MailboxOf
  <2>3. Taken' \subseteq Taken
    BY <2>1, <2>2 DEF Taken, MailboxOf
  <2> QED
    BY <1>4, <1>5, <2>3, NothingTaken DEF RegInv
<1>7. AllowedServersOnly' /\ RegisteredIsServed'
  BY <1>1, <1>2, <1>4 DEF RegInv, TypeOK, AllowedServersOnly, RegisteredIsServed
<1>8. OnlyDeadDevicesAreStale'
  BY <1>2 DEF RegInv, OnlyDeadDevicesAreStale, Usable
<1> QED
  BY <1>4, <1>5, <1>6, <1>7, <1>8 DEF RegInv

\* A registration is rolled back.
LEMMA RegisterFailsStep ==
  ASSUME RegInv, NEW r \in Requests, RegisterFails(r)
  PROVE  RegInv'
<1>1. /\ Committing(r) /\ Done(r) /\ open' = None
      /\ UNCHANGED <<allowed, reg, removing, worker, stopping, misled, home, stale>>
  BY DEF RegisterFails, Committing, apns
<1>2. TypeOK'
  BY <1>1, IdleRequest DEF RegInv, TypeOK, Request, Done, ApnsTypeOK
<1>3. RequestInv' /\ TransactionInv'
  BY <1>1, LastStep
<1>4. LimitInv'
  BY <1>1, <1>2, <1>3, IdleRequest, TakenByOne DEF Done
<1>5. AllowedServersOnly' /\ RegisteredIsServed' /\ OnlyDeadDevicesAreStale'
  BY <1>1 DEF RegInv, AllowedServersOnly, RegisteredIsServed, OnlyDeadDevicesAreStale, Usable
<1> QED
  BY <1>2, <1>3, <1>4, <1>5 DEF RegInv

\* Every step of a request keeps the invariant.
LEMMA PostStep ==
  ASSUME RegInv, NEW r \in Requests, Post(r)
  PROVE  RegInv'
<1> DEFINE q == request[r]
<1>1. q \in Request /\ Served(q)
  BY DEF RegInv, TypeOK, RequestInv, Request
<1>2. ASSUME NEW m \in Mailboxes, NEW t \in Offered[m], Arrive(r, m, t)
      PROVE  RegInv'
  <2> DEFINE new == [at |-> IF MaxMailboxes > 0 THEN "countDevices" ELSE "validate",
                     mailbox |-> m, token |-> t]
  <2>1. t \in Tokens /\ ServerOf[t] \in allowed /\ ~Committing(r)
    BY <1>2 DEF Arrive, IsAllowedArkAddr, Committing, At
  <2>2. new \in Request
    BY <2>1 DEF Request, Stages
  <2>3. Served(new) /\ new.at # "commit" /\ (MaxMailboxes > 0 => ~HasPassed(new))
    BY <2>1 DEF Served, HasPassed
  <2>4. request' = [request EXCEPT ![r] = new] /\ UNCHANGED others
    BY <1>2 DEF Arrive, others
  <2> QED
    BY <2>1, <2>2, <2>3, <2>4, OneRequest
\* The request goes on to the next stage, with nothing else read.
<1>3. ASSUME NEW stage \in {"countMailboxes", "validate", "register"},
             q.at \notin {"idle", "commit"}, Goes(r, stage), UNCHANGED others,
             MaxMailboxes > 0 /\ stage # "countMailboxes" => q.mailbox \in Taken \/ ~Full
      PROVE  RegInv'
  <2> DEFINE new == [q EXCEPT !.at = stage]
  <2>1. new \in Request
    BY <1>1 DEF Request, Stages
  <2>2. new.at = stage /\ new.mailbox = q.mailbox /\ new.token = q.token
    BY <1>1 DEF Request
  <2>3. Served(new) /\ new.at # "commit" /\ (HasPassed(new) => stage # "countMailboxes")
    BY <1>1, <1>3, <2>2 DEF Served, HasPassed
  <2>4. request' = [request EXCEPT ![r] = new] /\ ~Committing(r)
    BY <1>3 DEF Goes, Committing, At
  <2> QED
    BY <1>3, <2>1, <2>2, <2>3, <2>4, OneRequest
<1>4. ASSUME Done(r), UNCHANGED others, q.at # "commit"
      PROVE  RegInv'
  BY <1>4, IdleRequest, OneRequest DEF Done, Committing, At
<1>5. CASE CountDevices(r)
  <2>1. q.at = "countDevices" /\ UNCHANGED others /\ q.mailbox \in Mailboxes
    BY <1>1, <1>5 DEF CountDevices, At, others, Served
  <2>2. CASE Rows[MailboxOf(r)] = None
    BY <1>3, <1>5, <2>1, <2>2 DEF CountDevices
  <2>3. CASE Rows[MailboxOf(r)] # None
    <3>1. q.mailbox \in Taken
      <4>1. CASE reg[q.mailbox] # None
        BY <2>1, <4>1 DEF Registered, Taken
      <4>2. CASE reg[q.mailbox] = None
        <5>1. open # None /\ open[q.mailbox] # None
          BY <2>3, <4>2 DEF Rows, MailboxOf
        <5>2. removing = None
          BY <2>1, <4>2, <5>1 DEF RegInv, TransactionInv, TypeOK
        <5>3. PICK o \in Requests : Committing(o)
          BY <5>1, <5>2 DEF RegInv, TransactionInv
        <5>4. q.mailbox = MailboxOf(o)
          BY <2>1, <4>2, <5>1, <5>3 DEF RegInv, TransactionInv, TypeOK
        <5> QED
          BY <5>3, <5>4 DEF Taken, Passed, HasPassed, Committing, At
      <4> QED
        BY <4>1, <4>2
    <3> QED
      BY <1>3, <1>5, <2>1, <2>3, <3>1 DEF CountDevices
  <2> QED
    BY <2>2, <2>3
<1>6. CASE CountMailboxes(r)
  <2>1. q.at = "countMailboxes" /\ UNCHANGED others
    BY <1>6 DEF CountMailboxes, At, others
  <2>2. CASE Full
    BY <1>4, <1>6, <2>1, <2>2 DEF CountMailboxes
  <2>3. CASE ~Full
    BY <1>3, <1>6, <2>1, <2>3 DEF CountMailboxes
  <2> QED
    BY <2>2, <2>3
<1>7. CASE Validate(r)
  <2>1. q.at = "validate" /\ UNCHANGED others /\ Goes(r, "register")
    BY <1>7 DEF Validate, At, others
  <2>2. q.mailbox \in Taken
    BY <2>1 DEF Taken, Passed, HasPassed, MailboxOf
  <2> QED
    BY <1>3, <2>1, <2>2
<1>8. CASE Reject(r)
  <2>1. q.at # "commit" /\ Done(r) /\ UNCHANGED others
    BY <1>8 DEF Reject, At, others
  <2> QED
    BY <1>4, <2>1
<1> QED
  BY <1>2, <1>5, <1>6, <1>7, <1>8, RegisterDeviceStep, RegisterStep, RegisterFailsStep DEF Post

-----------------------------------------------------------------------------
(* The other steps *)

\* What the requests and the limit depend on may only be cleared by a step of
\* another part.
LEMMA OtherStep ==
  ASSUME RegInv, TypeOK', UNCHANGED <<allowed, request>>,
         \A m \in Mailboxes : reg'[m] \in {reg[m], None},
         TransactionInv', AllowedServersOnly', RegisteredIsServed', OnlyDeadDevicesAreStale'
  PROVE  RegInv'
<1>1. RequestInv'
  BY DEF RegInv, RequestInv, Served
<1>2. Registered' \subseteq Registered /\ Passed' = Passed
  BY DEF Registered, Passed
<1>3. Taken' \subseteq Taken
  BY <1>2 DEF Taken, MailboxOf
<1> QED
  BY <1>1, <1>3, NothingTaken DEF RegInv

LEMMA SameTransaction ==
  ASSUME TransactionInv, UNCHANGED <<reg, open, removing, request>>
  PROVE  TransactionInv'
BY DEF TransactionInv, Committing, At, MailboxOf

\* The transaction of a removal begins.
LEMMA UnregisterStep ==
  ASSUME RegInv, NEW m \in Mailboxes, UnregisterDevice(m), UNCHANGED home, stale' \subseteq stale
  PROVE  RegInv'
<1>1. /\ open' = [reg EXCEPT ![m] = None] /\ removing' = m /\ open = None
      /\ UNCHANGED <<allowed, reg, worker, request, stopping, misled>>
  BY DEF UnregisterDevice
<1>2. open' \in [Mailboxes -> Tokens \cup {None}] /\ open' # None /\ m # None
  BY <1>1 DEF RegInv, TypeOK
<1>3. TypeOK'
  BY <1>1, <1>2 DEF RegInv, TypeOK, ApnsTypeOK
<1>4. TransactionInv'
  BY <1>1, <1>2 DEF RegInv, TransactionInv, Committing, At, MailboxOf
<1>5. AllowedServersOnly' /\ RegisteredIsServed' /\ OnlyDeadDevicesAreStale'
  BY <1>1 DEF RegInv, AllowedServersOnly, RegisteredIsServed, OnlyDeadDevicesAreStale, Usable
<1> QED
  BY <1>1, <1>3, <1>4, <1>5, OtherStep

\* The removal commits, or is undone.
LEMMA RemovalStep ==
  ASSUME RegInv, Removed \/ RemovalFails
  PROVE  RegInv'
<1>1. /\ removing # None /\ removing' = None /\ open' = None
      /\ UNCHANGED <<allowed, worker, request, misled, home, stale>>
  BY DEF Removed, RemovalFails, Commit, apns
<1>2. reg' = reg \/ reg' = [reg EXCEPT ![removing] = None]
  BY <1>1 DEF Removed, RemovalFails, Commit, RegInv, TransactionInv
<1>3. TypeOK'
  <2>1. stopping' \subseteq Mailboxes
    BY <1>1 DEF Removed, RemovalFails, RegInv, TypeOK
  <2> QED
    BY <1>1, <1>2, <2>1 DEF RegInv, TypeOK, ApnsTypeOK
<1>4. TransactionInv'
  BY <1>1 DEF RegInv, TransactionInv, Committing, At
<1>5. AllowedServersOnly' /\ RegisteredIsServed' /\ OnlyDeadDevicesAreStale'
  BY <1>1, <1>2 DEF RegInv, TypeOK, AllowedServersOnly, RegisteredIsServed,
                    OnlyDeadDevicesAreStale, Usable
<1>6. \A m \in Mailboxes : reg'[m] \in {reg[m], None}
  BY <1>1, <1>2 DEF RegInv, TypeOK
<1> QED
  BY <1>1, <1>3, <1>4, <1>5, <1>6, OtherStep

\* The worker of a mailbox without a device is stopped.
LEMMA StopStep ==
  ASSUME RegInv, NEW m \in stopping, StopIfUnused(m) \/ CountFails(m)
  PROVE  RegInv'
<1>1. /\ UNCHANGED <<allowed, reg, open, removing, request, home, stale>>
      /\ stopping' \subseteq stopping /\ m \in Mailboxes
      /\ \/ UNCHANGED <<worker, misled>>
         \/ /\ worker' = [worker EXCEPT ![m] = None]
            /\ misled' = IF reg[m] # None THEN misled \cup {m} ELSE misled
  <2>1. CASE CountFails(m)
    BY <2>1 DEF CountFails, apns, RegInv, TypeOK
  <2>2. CASE StopIfUnused(m)
    <3>1. CASE Rows[m] = None
      BY <2>2, <3>1 DEF StopIfUnused, apns, RegInv, TypeOK
    <3>2. CASE Rows[m] # None
      <4>1. worker' = [worker EXCEPT ![m] = worker[m]]
        BY <2>2, <3>2 DEF StopIfUnused
      <4>2. worker' = worker
        BY <4>1 DEF RegInv, TypeOK
      <4> QED
        BY <2>2, <3>2, <4>2 DEF StopIfUnused, apns, RegInv, TypeOK
    <3> QED
      BY <3>1, <3>2
  <2> QED
    BY <2>1, <2>2
<1>2. TypeOK'
  BY <1>1 DEF RegInv, TypeOK, ApnsTypeOK
<1>3. AllowedServersOnly' /\ RegisteredIsServed'
  BY <1>1 DEF RegInv, TypeOK, AllowedServersOnly, RegisteredIsServed
<1>4. TransactionInv' /\ OnlyDeadDevicesAreStale'
  BY <1>1, SameTransaction DEF RegInv, OnlyDeadDevicesAreStale, Usable
<1> QED
  BY <1>1, <1>2, <1>3, <1>4, OtherStep

\* A new process starts the workers of the allowed servers, and no request of
\* the old one is left.
LEMMA RestartStep ==
  ASSUME RegInv, Restart
  PROVE  RegInv'
<1>1. \A r \in Requests : request'[r] = Idle
  BY DEF Restart
<1>2. TypeOK'
  <2>1. request' \in [Requests -> Request] /\ allowed' \subseteq Servers
    BY IdleRequest DEF Restart
  <2>2. worker' \in [Mailboxes -> [server: Servers, token: Tokens] \cup {None}]
    BY DEF Restart, Starts, RegInv, TypeOK
  <2> QED
    BY <2>1, <2>2 DEF Restart, RegInv, TypeOK, Request, ApnsTypeOK
<1>3. RequestInv' /\ TransactionInv'
  BY <1>1, IdleRequest DEF Restart, RequestInv, TransactionInv, Committing, At, Served, Idle
<1>4. Taken' \subseteq Taken
  <2>1. Passed' = {}
    BY <1>1, IdleRequest DEF Passed
  <2> QED
    BY <2>1 DEF Taken, Registered, Restart
<1>5. LimitInv'
  BY <1>2, <1>3, <1>4, NothingTaken DEF RegInv
<1>6. AllowedServersOnly' /\ RegisteredIsServed'
  BY <1>2 DEF Restart, Starts, IsAllowedArkAddr, AllowedServersOnly, RegisteredIsServed,
              RegInv, TypeOK
<1>7. OnlyDeadDevicesAreStale'
  BY DEF Restart, OnlyDeadDevicesAreStale
<1> QED
  BY <1>2, <1>3, <1>5, <1>6, <1>7 DEF RegInv

\* A push, or the app removed from a device.
LEMMA DeviceStep ==
  ASSUME RegInv, NEW d \in Devices, Push(d) \/ AppRemoved(d)
  PROVE  RegInv'
<1>1. /\ UNCHANGED <<allowed, reg, open, removing, worker, request, stopping, misled>>
      /\ SendPush(d) \/ Uninstall(d)
  BY DEF Push, AppRemoved
<1>2. ApnsTypeOK' /\ OnlyDeadDevicesAreStale'
  BY <1>1, ApnsSteps DEF RegInv, TypeOK
<1>3. TypeOK' /\ TransactionInv'
  BY <1>1, <1>2, SameTransaction DEF RegInv, TypeOK
<1>4. AllowedServersOnly' /\ RegisteredIsServed'
  BY <1>1 DEF RegInv, AllowedServersOnly, RegisteredIsServed
<1> QED
  BY <1>1, <1>2, <1>3, <1>4, OtherStep

-----------------------------------------------------------------------------
(* The theorem *)

LEMMA RegInit == Init => RegInv
<1> SUFFICES ASSUME Init PROVE RegInv
  OBVIOUS
<1>1. \A r \in Requests : request[r] = Idle
  BY DEF Init
<1>2. TypeOK
  BY IdleRequest DEF Init, TypeOK, Request, ApnsInit, ApnsTypeOK
<1>3. RequestInv /\ TransactionInv
  BY <1>1, IdleRequest DEF Init, RequestInv, TransactionInv, Committing, At
<1>4. LimitInv
  <2>1. Taken = {}
    BY <1>1, IdleRequest DEF Taken, Registered, Passed, Init
  <2>2. Cardinality(Taken) = 0 /\ Cardinality(Requests) \in Nat
    BY <2>1, FS_EmptySet, FS_CardinalityType
  <2> QED
    BY <2>2 DEF LimitInv
<1>5. AllowedServersOnly /\ RegisteredIsServed /\ OnlyDeadDevicesAreStale
  BY DEF Init, AllowedServersOnly, RegisteredIsServed, ApnsInit, OnlyDeadDevicesAreStale
<1> QED
  BY <1>2, <1>3, <1>4, <1>5 DEF RegInv

LEMMA RegNext == RegInv /\ [Next]_vars => RegInv'
<1> SUFFICES ASSUME RegInv, [Next]_vars PROVE RegInv'
  OBVIOUS
<1>1. CASE UNCHANGED vars
  <2>1. UNCHANGED <<allowed, reg, open, removing, worker, request, stopping, misled, home, stale>>
    BY <1>1 DEF vars, apns
  <2>2. TransactionInv'
    BY <2>1, SameTransaction DEF RegInv
  <2> QED
    BY <2>1, <2>2, OtherStep DEF RegInv, TypeOK, ApnsTypeOK, AllowedServersOnly,
                                 RegisteredIsServed, OnlyDeadDevicesAreStale, Usable
<1>2. ASSUME NEW m \in Active, Unregister(m) PROVE RegInv'
  BY <1>2, UnregisterStep DEF Unregister, apns
<1>3. ASSUME NEW d \in Devices, RemoveStaleDevice(d) PROVE RegInv'
  <2>1. UnregisterDevice(d) /\ UNCHANGED home /\ stale' \subseteq stale
    BY <1>3 DEF RemoveStaleDevice
  <2> QED
    BY <2>1, UnregisterStep
<1> QED
  BY <1>1, <1>2, <1>3, PostStep, RemovalStep, StopStep, RestartStep, DeviceStep DEF Next

LEMMA RegInvariant == Spec => []RegInv
BY RegInit, RegNext, PTL DEF Spec

\* Every step keeps the types of the tables, the requests and the workers.
THEOREM RegistrationTypeCorrect == Spec => []TypeOK
<1>1. RegInv => TypeOK
  BY DEF RegInv
<1> QED
  BY <1>1, RegInvariant, PTL

\* Workers are connected to servers of the present allow list, whatever was
\* allowed when their mailboxes were registered.
THEOREM AllowListKept == Spec => []AllowedServersOnly
<1>1. RegInv => AllowedServersOnly
  BY DEF RegInv
<1> QED
  BY <1>1, RegInvariant, PTL

\* However registrations, removals and restarts of however many mailboxes
\* overlap, each that is registered is served with what is stored, unless a
\* count that saw a removal not yet committed stopped its worker.
THEOREM RegisteredServed == Spec => []RegisteredIsServed
<1>1. RegInv => RegisteredIsServed
  BY DEF RegInv
<1> QED
  BY <1>1, RegInvariant, PTL

\* However large the limit, and whatever the counts have seen of transactions
\* that are undone, the registrations in flight exceed it by at most their
\* number.
THEOREM LimitKept == Spec => []OverrunIsBounded
<1>1. RegInv => OverrunIsBounded
  <2> SUFFICES ASSUME RegInv, MaxMailboxes > 0
               PROVE  Cardinality(Registered) <= MaxMailboxes + Cardinality(Requests)
    BY DEF OverrunIsBounded
  <2>1. IsFiniteSet(Taken) /\ Cardinality(Taken) \in Nat
    BY TakenIsFinite DEF RegInv
  <2>2. Cardinality(Registered) <= Cardinality(Taken) /\ Cardinality(Registered) \in Nat
    BY <2>1, FS_Subset, FS_CardinalityType DEF Taken
  <2>3. Cardinality(Requests) \in Nat
    BY FS_CardinalityType
  <2> QED
    BY <2>1, <2>2, <2>3 DEF RegInv, LimitInv
<1> QED
  BY <1>1, RegInvariant, PTL

\* With one or both APNs environments in use, a device is removed only when
\* none of them delivers to it.
THEOREM WorkingDevicesStay == Spec => []OnlyDeadDevicesAreStale
<1>1. RegInv => OnlyDeadDevicesAreStale
  BY DEF RegInv
<1> QED
  BY <1>1, RegInvariant, PTL
=============================================================================
