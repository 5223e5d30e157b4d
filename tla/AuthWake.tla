------------------------------ MODULE AuthWake ------------------------------
(***************************************************************************)
(* The auth wake scheduler: one pass a minute over every mailbox with      *)
(* devices, which sends a silent push to those whose authorization is      *)
(* about to expire or has, and counts it in the auth_wake table.  A pass   *)
(* works on what it read at its start, while registrations, deletions and  *)
(* the clock go on at each of its awaits.                                  *)
(*                                                                         *)
(* Times are in units small enough that the quarter and the halves below   *)
(* are whole numbers: every time of the model is a multiple of Step, and   *)
(* Step is a multiple of 8.                                                *)
(***************************************************************************)
EXTENDS Integers, FiniteSets, FiniteSetsExt

CONSTANTS
  Mailboxes,    \* mailbox identities
  Devices,      \* APNs device tokens
  Tokens,       \* mailbox authorizations
  Expiry,       \* the expiry of each authorization, None if it is not readable
  None,         \* SQL NULL / no row / not read yet
  Step,         \* the clock advances by this much
  MaxTime,      \* bound: the clock stops here
  Day,          \* DAY_MS
  Grace,        \* POST_EXPIRY_GRACE_MS
  MinLead,      \* AUTH_WAKE_LEAD_MS
  MaxLead,      \* AUTH_WAKE_MAX_LEAD_MS
  PostAttempts, \* AUTH_WAKE_POST_EXPIRY_ATTEMPTS
  MaxPerTick,   \* AUTH_WAKE_MAX_PER_TICK
  Retention,    \* EXPIRED_MAILBOX_RETENTION_DAYS, in time units, 0 for never
  Late,         \* bound: a registration commits this long after its expiry check
  Legacy,       \* authorizations stored before their start was recorded
  Faults        \* what the environment may do, a subset of FaultKinds

FaultKinds == {"crash", "db_error", "stale", "unregister"}

ASSUME WakeNoneAssumption == None \notin Nat \cup Mailboxes \cup Tokens
ASSUME WakeTimesAssumption ==
  /\ Step \in Nat \ {0} /\ Step % 8 = 0
  /\ {MaxTime, Day, Grace, MinLead, MaxLead, Retention, Late} \subseteq Nat
  /\ Step <= MaxTime
  /\ Expiry \in [Tokens -> Nat \cup {None}]
  /\ Day > 0
  /\ \A x \in {Day, Grace, MinLead, MaxLead} \cup {Expiry[t] : t \in Tokens} :
       x = None \/ x % Step = 0
ASSUME WakeSetsAssumption ==
  /\ PostAttempts \in Nat /\ MaxPerTick \in Nat \ {0}
  /\ Legacy \subseteq Tokens /\ Faults \subseteq FaultKinds

VARIABLES
  now,      \* Date.now()
  \* the database
  reg,      \* mailbox_registration: authorization and since when it is stored
  devices,  \* device_registration: the devices of each mailbox
  wake,     \* auth_wake: what was sent, and for which expiry
  \* process memory: the pass that is running
  pass,     \* where it stands, and the time it started at
  seen,     \* the results of its two reads
  due,      \* the mailboxes it has still to wake
  item,     \* the mailbox it is waking, and its devices still to be sent to
  \* history, read by no action
  rounds    \* wakes sent for the expiry of the present authorization

store == <<reg, devices, wake>>
memory == <<pass, seen, due, item>>
vars  == <<now, store, memory, rounds>>

Times == 0..MaxTime

Registration == [token: Tokens, since: Times \cup {None}]
WakeState == [expiry: Nat, pre: Nat, post: Nat, last: Times]
Pass == [at: {"idle", "reading", "waking", "counting", "sending", "removing"},
         now: Times, left: 0..MaxPerTick]
Item == [mailbox: Mailboxes, expiry: Nat, state: WakeState \cup {None},
         dueAt: Nat]

ASSUME WakeRowsAssumption == None \notin Registration \cup WakeState

NoPass == [at |-> "idle", now |-> 0, left |-> 0]
NoSeen == [mailboxes |-> None, states |-> None]
NoItem == [wakes |-> None, todo |-> {}, device |-> None]

(***************************************************************************)
(* Type correctness.                                                       *)
(***************************************************************************)
TypeOK ==
  /\ now \in Times
  /\ reg \in [Mailboxes -> Registration \cup {None}]
  /\ devices \in [Mailboxes -> SUBSET Devices]
  /\ wake \in [Mailboxes -> WakeState \cup {None}]
  /\ pass \in Pass
  /\ seen.mailboxes = None \/ \E M \in SUBSET Mailboxes :
                                seen.mailboxes \in [M -> Registration]
  /\ seen.states = None \/ seen.states \in [Mailboxes -> WakeState \cup {None}]
  /\ due \subseteq Item
  /\ item \in [wakes: Item \cup {None}, todo: SUBSET Devices,
              device: Devices \cup {None}]
  /\ rounds \in [Mailboxes -> Nat]

-----------------------------------------------------------------------------
(* The schedule of one authorization *)

\* Mutant: the two bounds of the lead are exchanged.
WakeLeadSwapped(expiry, since) ==
  IF since = None \/ since >= expiry THEN MinLead
  ELSE Max({MaxLead, Min({MinLead, (expiry - since) \div 4})})

\* wakeLeadMs(): a quarter of the lifetime as far as the relay knows it.
WakeLead(expiry, since) ==
  IF since = None \/ since >= expiry THEN MinLead
  ELSE Min({MaxLead, Max({MinLead, (expiry - since) \div 4})})

Spacing(lead) == Min({Day, lead \div 2})

Later(a, b) == Max({a, b})

\* The time of the next wake before expiry: not all at once if it is late.
PreDueAt(expiry, state, lead) ==
  IF state = None THEN Later(expiry - lead, 0)
  ELSE Later(expiry - lead + state.pre * Spacing(lead),
             state.last + Spacing(lead))

\* Mutant: one wake more than postExpiryAttempts.
PostDueAtOneMore(expiry, state) ==
  LET post == IF state = None THEN 0 ELSE state.post
  IN IF post > PostAttempts THEN None
     ELSE IF post = 0 THEN expiry + Grace
     ELSE Later(expiry + Grace, state.last + Day)

\* The time of the next wake after expiry, or None when the relay gives up.
PostDueAt(expiry, state) ==
  LET post == IF state = None THEN 0 ELSE state.post
  IN IF post >= PostAttempts THEN None
     ELSE IF post = 0 THEN expiry + Grace
     ELSE Later(expiry + Grace, state.last + Day)

\* Mutant: wakes are spaced from the start of the lead, never from each other.
NextWakeDueAtUnspaced(expiry, state, time, lead) ==
  LET sent == IF state = None THEN None ELSE [state EXCEPT !.last = 0]
  IN IF time < expiry /\ PreDueAt(expiry, sent, lead) < expiry
     THEN PreDueAt(expiry, sent, lead)
     ELSE IF time < expiry /\ PostDueAt(expiry, state) # None
     THEN expiry + Grace
     ELSE PostDueAt(expiry, state)

\* nextWakeDueAt(): once the wakes before expiry are spent, the next one is the
\* first after it.
NextWakeDueAt(expiry, state, time, lead) ==
  IF time < expiry /\ PreDueAt(expiry, state, lead) < expiry
  THEN PreDueAt(expiry, state, lead)
  ELSE IF time < expiry /\ PostDueAt(expiry, state) # None
  THEN expiry + Grace
  ELSE PostDueAt(expiry, state)

-----------------------------------------------------------------------------
(* Registrations *)

ExpiryOf(m) == IF reg[m] = None THEN None ELSE Expiry[reg[m].token]

Tick ==
  /\ now + Step <= MaxTime
  /\ now' = now + Step
  /\ UNCHANGED <<store, memory, rounds>>

\* registerDevice(): the same authorization keeps the time it was first stored.
\* That it has not expired was checked when the request arrived, several awaits
\* before.
Register(m, d, t) ==
  /\ Expiry[t] # None => now < Expiry[t] + Late
  /\ reg' = [reg EXCEPT ![m] =
               IF @ # None /\ @.token = t THEN @
               ELSE [token |-> t, since |-> now]]
  /\ devices' = [devices EXCEPT ![m] = @ \cup {d}]
  /\ rounds' = [rounds EXCEPT ![m] = IF ExpiryOf(m) = Expiry[t] /\ reg[m] # None
                                     THEN @ ELSE 0]
  /\ UNCHANGED <<now, wake, memory>>

\* _deleteMailbox(): the rows of every table.
DeleteMailbox(m) ==
  /\ reg' = [reg EXCEPT ![m] = None]
  /\ devices' = [devices EXCEPT ![m] = {}]
  /\ wake' = [wake EXCEPT ![m] = None]
  /\ rounds' = [rounds EXCEPT ![m] = 0]

UnregisterDevice(m, d) ==
  IF devices[m] \subseteq {d}
  THEN DeleteMailbox(m)
  ELSE /\ devices' = [devices EXCEPT ![m] = @ \ {d}]
       /\ UNCHANGED <<reg, wake, rounds>>

Unregister(m, d) ==
  /\ "unregister" \in Faults
  /\ UnregisterDevice(m, d)
  /\ UNCHANGED <<now, memory>>

\* RetentionJob.run() reaches a mailbox that expired long enough ago.
Retain(m) ==
  /\ Retention > 0 /\ ExpiryOf(m) # None
  /\ now > ExpiryOf(m) + Retention
  /\ DeleteMailbox(m)
  /\ UNCHANGED <<now, memory>>

-----------------------------------------------------------------------------
(* AuthWakeScheduler.tick() and _wake() *)

\* The interval timer, while no pass is running.
StartPass ==
  /\ pass.at = "idle"
  /\ pass' = [at |-> "reading", now |-> now, left |-> MaxPerTick]
  /\ UNCHANGED <<now, store, seen, due, item, rounds>>

\* Mutant: the cap of a pass is not looked at.
ContinueUncapped(items, left) ==
  [pass EXCEPT !.at = IF items = {} THEN "idle" ELSE "waking", !.left = left]

\* What a pass does next: another mailbox if one is due and its cap allows it,
\* otherwise it ends.
Continue(items, left) ==
  [pass EXCEPT !.at = IF items = {} \/ left = 0 THEN "idle" ELSE "waking",
               !.left = left]

\* The mailboxes due at the start of the pass, given what its reads returned.
DueItems(mailboxes, states) ==
  LET Of(m) ==
        LET expiry == Expiry[mailboxes[m].token]
            state  == IF states[m] # None /\ states[m].expiry = expiry
                      THEN states[m] ELSE None
        IN [mailbox |-> m, expiry |-> expiry, state |-> state,
            dueAt |-> NextWakeDueAt(expiry, state, pass.now,
                                    WakeLead(expiry, mailboxes[m].since))]
      readable == {m \in DOMAIN mailboxes : Expiry[mailboxes[m].token] # None}
  IN {i \in {Of(m) : m \in readable} : i.dueAt # None /\ i.dueAt <= pass.now}

\* The second of the two reads completes the pass's view.
Seen(mailboxes, states) ==
  IF mailboxes = None \/ states = None
  THEN /\ seen' = [mailboxes |-> mailboxes, states |-> states]
       /\ UNCHANGED <<pass, due>>
  ELSE /\ seen' = NoSeen
       /\ due' = DueItems(mailboxes, states)
       /\ pass' = Continue(due', pass.left)

\* getMailboxesWithDevices()
ReadMailboxes ==
  /\ pass.at = "reading" /\ seen.mailboxes = None
  /\ LET registered == {m \in Mailboxes : reg[m] # None /\ devices[m] # {}}
     IN Seen([m \in registered |-> reg[m]], seen.states)
  /\ UNCHANGED <<now, store, item, rounds>>

\* getAuthWakeStates()
ReadStates ==
  /\ pass.at = "reading" /\ seen.states = None
  /\ Seen(seen.mailboxes, wake)
  /\ UNCHANGED <<now, store, item, rounds>>

\* Mutant: the wake is sent before it is counted.
GetDevicesUncounted(i) ==
  /\ pass.at = "waking"
  /\ i \in due /\ \A j \in due : i.dueAt <= j.dueAt
  /\ pass' = [pass EXCEPT !.at = "sending"]
  /\ due' = due \ {i}
  /\ item' = [wakes |-> i, todo |-> devices[i.mailbox], device |-> None]
  /\ UNCHANGED <<now, store, seen, rounds>>

\* The one that is due for longest; getDevices() returns its devices.
GetDevices(i) ==
  /\ pass.at = "waking"
  /\ i \in due /\ \A j \in due : i.dueAt <= j.dueAt
  /\ pass' = [pass EXCEPT !.at = "counting"]
  /\ due' = due \ {i}
  /\ item' = [wakes |-> i, todo |-> devices[i.mailbox], device |-> None]
  /\ UNCHANGED <<now, store, seen, rounds>>

\* The attempt as setAuthWakeState() stores it.
Counted(i) ==
  LET pre  == IF i.state = None THEN 0 ELSE i.state.pre
      post == IF i.state = None THEN 0 ELSE i.state.post
      bump == IF pass.now < i.expiry THEN <<1, 0>> ELSE <<0, 1>>
  IN [expiry |-> i.expiry, pre |-> pre + bump[1], post |-> post + bump[2],
      last |-> pass.now]

\* After the devices of the item are done.
EndItem(todo) ==
  IF todo = {}
  THEN pass' = Continue(due, pass.left - 1) /\ item' = NoItem
  ELSE /\ pass' = [pass EXCEPT !.at = "sending"]
       /\ item' = [item EXCEPT !.todo = todo, !.device = None]

\* Mutant: the row is written whether the mailbox is registered or not.
CountWakeAnyway ==
  LET i == item.wakes
      m == i.mailbox
  IN /\ pass.at = "counting"
     /\ wake' = [wake EXCEPT ![m] = Counted(i)]
     /\ rounds' = [rounds EXCEPT ![m] = IF ExpiryOf(m) = i.expiry THEN @ + 1 ELSE @]
     /\ EndItem(item.todo)
     /\ UNCHANGED <<now, reg, devices, seen, due>>

\* setAuthWakeState(), dropped when the mailbox is no longer registered.  The
\* attempt is counted before anything is sent.
CountWake ==
  LET i == item.wakes
      m == i.mailbox
  IN /\ pass.at = "counting"
     /\ wake' = [wake EXCEPT ![m] = IF reg[m] = None THEN @ ELSE Counted(i)]
     /\ rounds' = [rounds EXCEPT ![m] = IF ExpiryOf(m) = i.expiry THEN @ + 1 ELSE @]
     /\ EndItem(item.todo)
     /\ UNCHANGED <<now, reg, devices, seen, due>>

\* sendAuthRefreshWake() to the next device, accepted or failed.
Send(d) ==
  /\ pass.at = "sending" /\ d \in item.todo
  /\ EndItem(item.todo \ {d})
  /\ UNCHANGED <<now, store, seen, due, rounds>>

\* APNs reports the device token as no longer valid ...
SendStale(d) ==
  /\ "stale" \in Faults
  /\ pass.at = "sending" /\ d \in item.todo
  /\ pass' = [pass EXCEPT !.at = "removing"]
  /\ item' = [item EXCEPT !.todo = @ \ {d}, !.device = d]
  /\ UNCHANGED <<now, store, seen, due, rounds>>

\* ... and onStaleDevice() unregisters it.
RemoveStale ==
  /\ pass.at = "removing"
  /\ UnregisterDevice(item.wakes.mailbox, item.device)
  /\ EndItem(item.todo)
  /\ UNCHANGED <<now, seen, due>>

\* Mutant: an error leaves _ticking set.
PassFailsForGood ==
  /\ "db_error" \in Faults
  /\ pass.at \in {"reading", "waking", "counting", "removing"}
  /\ pass' = [pass EXCEPT !.at = "sending"]
  /\ item' = NoItem /\ seen' = NoSeen /\ due' = {}
  /\ UNCHANGED <<now, store, rounds>>

EndPass == pass' = NoPass /\ seen' = NoSeen /\ due' = {} /\ item' = NoItem

\* A database error ends the pass; what it had still to wake stays due.
PassFails ==
  /\ "db_error" \in Faults
  /\ pass.at \in {"reading", "waking", "counting", "removing"}
  /\ EndPass
  /\ UNCHANGED <<now, store, rounds>>

\* The same behind the commit of onStaleDevice(), in its count of devices.
PassFailsAfterRemoval ==
  /\ "db_error" \in Faults
  /\ pass.at = "removing"
  /\ UnregisterDevice(item.wakes.mailbox, item.device)
  /\ EndPass
  /\ UNCHANGED now

\* The process dies and starts again.
Restart ==
  /\ "crash" \in Faults
  /\ pass.at # "idle"
  /\ EndPass
  /\ UNCHANGED <<now, store, rounds>>

-----------------------------------------------------------------------------
Init ==
  /\ now = Step
  /\ reg \in [Mailboxes -> {None} \cup [token: Legacy, since: {None}]]
  /\ devices \in [Mailboxes -> SUBSET Devices]
  /\ \A m \in Mailboxes : devices[m] = {} <=> reg[m] = None
  /\ wake = [m \in Mailboxes |-> None]
  /\ pass = NoPass /\ seen = NoSeen /\ due = {} /\ item = NoItem
  /\ rounds = [m \in Mailboxes |-> 0]

PassStep ==
  \/ ReadMailboxes \/ ReadStates
  \/ \E i \in due : GetDevices(i)
  \/ CountWake
  \/ \E d \in Devices : Send(d) \/ SendStale(d)
  \/ RemoveStale

Next ==
  \/ Tick
  \/ \E m \in Mailboxes, d \in Devices :
       Unregister(m, d) \/ \E t \in Tokens : Register(m, d, t)
  \/ \E m \in Mailboxes : Retain(m)
  \/ StartPass
  \/ PassStep
  \/ PassFails \/ PassFailsAfterRemoval
  \/ Restart

Spec == Init /\ [][Next]_vars

-----------------------------------------------------------------------------
(* Safety *)

\* The most wakes before expiry: one every Spacing of the longest lead.
MaxPre ==
  LET lead == Max({MinLead, MaxLead})
  IN Max({2, (lead + Day - 1) \div Day})

(***************************************************************************)
(* An authorization is woken for a bounded number of times until another   *)
(* one replaces it, over crashes, database errors and passes that work on  *)
(* what is no longer so (README "After that the relay gives up on the      *)
(* mailbox until it re-registers").                                        *)
(***************************************************************************)
WakesBounded == \A m \in Mailboxes : rounds[m] <= MaxPre + PostAttempts

\* The mailbox is still registered as it was when the pass began.
SincePass(m) == reg[m] # None /\ (reg[m].since = None \/ reg[m].since < pass.now)

(***************************************************************************)
(* What bounds them: each wake is counted in the database before it is     *)
(* sent (auth-wake.js:159), and the count stays for as long as the         *)
(* authorization does.  Only a mailbox registered anew while the pass was  *)
(* under way may be sent a wake that its row does not tell of.             *)
(***************************************************************************)
WakesAreCounted ==
  \A m \in Mailboxes :
    /\ rounds[m] > 0 =>
         /\ wake[m] # None /\ wake[m].expiry = ExpiryOf(m)
         /\ rounds[m] <= wake[m].pre + wake[m].post
    /\ pass.at \in {"sending", "removing"} /\ item.wakes.mailbox = m /\ SincePass(m) =>
         /\ wake[m] # None /\ wake[m].expiry = item.wakes.expiry
         /\ wake[m].last = pass.now

(***************************************************************************)
(* No wake row outlives its mailbox or comes back after its deletion       *)
(* (checkpoint-store.js:481 "The same goes for setAuthWakeState()").       *)
(***************************************************************************)
NoWakeLeftovers == \A m \in Mailboxes : reg[m] = None => wake[m] = None

\* The least time between two wakes that the schedule allows for.
LeastGap(before, after) ==
  IF before.post > 0 THEN Day
  ELSE IF after.post > 0 THEN Grace
  ELSE Spacing(Min({MinLead, MaxLead}))

(***************************************************************************)
(* Two passes never wake for the same authorization in close succession: a *)
(* schedule that is entered late does not send what it missed at once      *)
(* (auth-wake.js:46).                                                      *)
(***************************************************************************)
WakesSpaced ==
  [][\A m \in Mailboxes :
       rounds[m] > 0 /\ rounds'[m] > rounds[m] =>
         wake'[m].last - wake[m].last >= LeastGap(wake[m], wake'[m])]_vars

(***************************************************************************)
(* The first wake is never due before the registration that delivered the  *)
(* authorization (README, AUTH_WAKE_LEAD_MS; auth-wake.js:16), provided    *)
(* that the minimum lead still fits between that and the expiry.           *)
(***************************************************************************)
FirstWakeAfterRegistration ==
  \A m \in Mailboxes :
    /\ ExpiryOf(m) # None /\ reg[m].since # None
    /\ reg[m].since + MinLead <= ExpiryOf(m)
    => PreDueAt(ExpiryOf(m), None, WakeLead(ExpiryOf(m), reg[m].since))
         >= reg[m].since

-----------------------------------------------------------------------------
(* Liveness *)

(***************************************************************************)
(* Time passes and the timer starts a pass every minute (WF).  A database  *)
(* that is asked again and again answers sometimes (SF).                   *)
(***************************************************************************)
Fairness ==
  /\ WF_vars(Tick) /\ WF_vars(StartPass)
  /\ SF_vars(ReadMailboxes) /\ SF_vars(ReadStates)
  /\ SF_vars((ReadMailboxes \/ ReadStates) /\ pass'.at # "reading")
  /\ \A m \in Mailboxes :
       SF_vars(\E i \in due : i.mailbox = m /\ GetDevices(i))
  /\ SF_vars(CountWake) /\ SF_vars(RemoveStale)
  /\ \A d \in Devices : WF_vars(Send(d) \/ SendStale(d))

FairSpec == Spec /\ Fairness

(***************************************************************************)
(* An authorization that stays is woken for after its expiry, however many *)
(* mailboxes compete for a pass, unless the mailbox is deleted.            *)
(***************************************************************************)
WokenAfterExpiry ==
  \A m \in Mailboxes, t \in Tokens :
    Expiry[t] # None /\ PostAttempts > 0 =>
      (reg[m] # None /\ reg[m].token = t)
        ~> \/ reg[m] = None \/ reg[m].token # t
           \/ wake[m] # None /\ wake[m].expiry = Expiry[t] /\ wake[m].post > 0
=============================================================================
