--------------------------- MODULE AuthWakeProofs ---------------------------
(***************************************************************************)
(* Proofs about AuthWake, for every value of its constants.                *)
(***************************************************************************)
EXTENDS AuthWake, TLAPS

-----------------------------------------------------------------------------
(* What the properties need of a pass *)

\* A pass that wakes has its cap not used up, and what it works on is there.
PassInv ==
  /\ pass.at \in {"waking", "counting", "sending", "removing"} => pass.left > 0
  /\ pass.at \in {"counting", "sending", "removing"} => item.wakes \in Item
  /\ pass.at # "reading" => seen = NoSeen

\* A state counts the wakes that were sent for an expiry.
CountsOf(state, sent, expiry) ==
  sent > 0 => /\ state # None
              /\ state.expiry = expiry
              /\ sent <= state.pre + state.post

\* What the pass has read, and what it is about to write, counts them too.
SeenCounts ==
  /\ seen.states # None =>
       \A m \in Mailboxes : CountsOf(seen.states[m], rounds[m], ExpiryOf(m))
  /\ seen.mailboxes # None =>
       \A m \in DOMAIN seen.mailboxes :
         rounds[m] > 0 => Expiry[seen.mailboxes[m].token] = ExpiryOf(m)

Pending == due \cup IF pass.at = "counting" THEN {item.wakes} ELSE {}

PendingCounts ==
  \A i \in Pending :
    /\ CountsOf(i.state, rounds[i.mailbox], ExpiryOf(i.mailbox))
    /\ i.state # None => i.state.expiry = i.expiry

\* A pass wakes a mailbox once.
PendingOnce ==
  /\ \A i, j \in Pending : i.mailbox = j.mailbox => i = j
  /\ pass.at = "counting" => item.wakes \notin due

StoreCounts ==
  /\ \A m \in Mailboxes : CountsOf(wake[m], rounds[m], ExpiryOf(m))
  /\ NoWakeLeftovers

\* The inductive invariant.
CountInv == PassInv /\ StoreCounts /\ SeenCounts /\ PendingCounts /\ PendingOnce

-----------------------------------------------------------------------------
(* Facts about the helpers *)

\* The smaller and the larger of two, as wakeLeadMs() and the spacing use them.
LEMMA TheSmaller ==
  ASSUME NEW a \in Int, NEW b \in Int
  PROVE  Min({a, b}) = IF a <= b THEN a ELSE b
<1> DEFINE P(x) == x \in {a, b} /\ \A y \in {a, b} : x <= y
<1>1. \E x : P(x)
  <2>1. CASE a <= b
    BY <2>1
  <2>2. CASE b <= a
    BY <2>2
  <2> QED
    BY <2>1, <2>2
<1>2. P(CHOOSE x : P(x))
  BY <1>1
<1>3. Min({a, b}) = CHOOSE x : P(x)
  BY DEF Min
<1> QED
  BY <1>2, <1>3

LEMMA TheLarger ==
  ASSUME NEW a \in Int, NEW b \in Int
  PROVE  Max({a, b}) = IF a >= b THEN a ELSE b
<1> DEFINE P(x) == x \in {a, b} /\ \A y \in {a, b} : x >= y
<1>1. \E x : P(x)
  <2>1. CASE a <= b
    BY <2>1
  <2>2. CASE b <= a
    BY <2>2
  <2> QED
    BY <2>1, <2>2
<1>2. P(CHOOSE x : P(x))
  BY <1>1
<1>3. Max({a, b}) = CHOOSE x : P(x)
  BY DEF Max
<1> QED
  BY <1>2, <1>3

LEMMA SmallerOfTwo ==
  ASSUME NEW a \in Nat, NEW b \in Nat
  PROVE  Min({a, b}) \in Nat
BY TheSmaller

LEMMA LargerOfTwo ==
  ASSUME NEW a \in Int, NEW b \in Nat
  PROVE  Max({a, b}) \in Nat
BY TheLarger

\* The lead is a number whatever is known of the lifetime (wakeLeadMs()).
LEMMA WakeLeadTyped ==
  ASSUME NEW expiry \in Nat, NEW since \in Times \cup {None}
  PROVE  WakeLead(expiry, since) \in Nat
<1>1. MinLead \in Nat /\ MaxLead \in Nat
  BY WakeTimesAssumption
<1>2. CASE since = None \/ since >= expiry
  BY <1>1, <1>2 DEF WakeLead
<1>3. CASE ~(since = None \/ since >= expiry)
  <2>1. since \in Nat
    BY <1>3, WakeTimesAssumption DEF Times
  <2>2. (expiry - since) \div 4 \in Nat
    BY <1>3, <2>1
  <2>3. Max({MinLead, (expiry - since) \div 4}) \in Nat
    BY <1>1, <2>2, LargerOfTwo
  <2> QED
    BY <1>1, <1>3, <2>3, SmallerOfTwo DEF WakeLead
<1> QED
  BY <1>2, <1>3

\* The next wake is due at a time of the clock, or never (nextWakeDueAt()).
LEMMA DueAtTyped ==
  ASSUME NEW expiry \in Nat, NEW state \in WakeState \cup {None},
         NEW time \in Times, NEW lead \in Nat
  PROVE  NextWakeDueAt(expiry, state, time, lead) \in Nat \cup {None}
<1>1. Day \in Nat /\ Grace \in Nat /\ lead \div 2 \in Nat
  BY WakeTimesAssumption
<1>2. Spacing(lead) \in Nat
  BY <1>1, SmallerOfTwo DEF Spacing
<1>3. PreDueAt(expiry, state, lead) \in Nat
  <2>1. CASE state = None
    BY <2>1, LargerOfTwo DEF PreDueAt, Later
  <2>2. CASE state # None
    <3>1. state.pre \in Nat /\ state.last \in Nat
      BY <2>2, WakeTimesAssumption DEF WakeState, Times
    <3>2. state.pre * Spacing(lead) \in Nat /\ state.last + Spacing(lead) \in Nat
      BY <1>2, <3>1
    <3>3. expiry - lead + state.pre * Spacing(lead) \in Int
      BY <3>2
    <3> QED
      BY <2>2, <3>2, <3>3, LargerOfTwo DEF PreDueAt, Later
  <2> QED
    BY <2>1, <2>2
<1>4. PostDueAt(expiry, state) \in Nat \cup {None}
  <2>1. expiry + Grace \in Nat
    BY <1>1
  <2>2. state # None => state.last + Day \in Nat
    BY <1>1, WakeTimesAssumption DEF WakeState, Times
  <2>3. state # None => Later(expiry + Grace, state.last + Day) \in Nat
    BY <2>1, <2>2, LargerOfTwo DEF Later
  <2> QED
    BY <2>1, <2>3 DEF PostDueAt
<1>5. expiry + Grace \in Nat
  BY <1>1
<1> QED
  BY <1>3, <1>4, <1>5 DEF NextWakeDueAt

-----------------------------------------------------------------------------
(* Type correctness *)

\* Where a pass goes on from a place that is in order.
LEMMA ContinueTyped ==
  ASSUME TypeOK, NEW items, NEW left \in 0..MaxPerTick
  PROVE  /\ Continue(items, left) \in Pass
         /\ Continue(items, left).at \in {"idle", "waking"}
         /\ Continue(items, left).at = "waking" => Continue(items, left).left > 0
<1>1. MaxPerTick \in Nat /\ pass \in Pass
  BY WakeSetsAssumption DEF TypeOK
<1>2. CASE items = {} \/ left = 0
  <2>1. Continue(items, left) = [pass EXCEPT !.at = "idle", !.left = left]
    BY <1>2 DEF Continue
  <2> QED
    BY <1>1, <2>1 DEF Pass
<1>3. CASE ~(items = {} \/ left = 0)
  <2>1. Continue(items, left) = [pass EXCEPT !.at = "waking", !.left = left]
    BY <1>3 DEF Continue
  <2>2. left > 0
    BY <1>1, <1>3
  <2>3. [pass EXCEPT !.at = "waking", !.left = left] \in Pass
    BY <1>1 DEF Pass
  <2>4. /\ [pass EXCEPT !.at = "waking", !.left = left].at = "waking"
        /\ [pass EXCEPT !.at = "waking", !.left = left].left = left
    BY <1>1 DEF Pass
  <2> QED
    BY <2>1, <2>2, <2>3, <2>4
<1> QED
  BY <1>2, <1>3

\* What the reads return makes items of the mailboxes that are due.
LEMMA DueItemsTyped ==
  ASSUME TypeOK, NEW M \in SUBSET Mailboxes, NEW mailboxes \in [M -> Registration],
         NEW states \in [Mailboxes -> WakeState \cup {None}]
  PROVE  /\ DueItems(mailboxes, states) \subseteq Item
         /\ \A i \in DueItems(mailboxes, states) :
              /\ i.mailbox \in M /\ i.expiry = Expiry[mailboxes[i.mailbox].token]
              /\ i.state = IF /\ states[i.mailbox] # None
                              /\ states[i.mailbox].expiry = i.expiry
                           THEN states[i.mailbox] ELSE None
              /\ i.dueAt = NextWakeDueAt(i.expiry, i.state, pass.now,
                             WakeLead(i.expiry, mailboxes[i.mailbox].since))
              /\ i.dueAt <= pass.now
         /\ \A i, j \in DueItems(mailboxes, states) :
              i.mailbox = j.mailbox => i = j
<1> DEFINE StateOf(m) ==
             IF states[m] # None /\ states[m].expiry = Expiry[mailboxes[m].token]
             THEN states[m] ELSE None
           Of(m) ==
             [mailbox |-> m, expiry |-> Expiry[mailboxes[m].token],
              state |-> StateOf(m),
              dueAt |-> NextWakeDueAt(Expiry[mailboxes[m].token], StateOf(m),
                          pass.now, WakeLead(Expiry[mailboxes[m].token],
                                             mailboxes[m].since))]
           readable == {m \in M : Expiry[mailboxes[m].token] # None}
           due_ == {i \in {Of(m) : m \in readable} :
                      i.dueAt # None /\ i.dueAt <= pass.now}
<1>1. DueItems(mailboxes, states) = due_
  BY DEF DueItems
<1>2. ASSUME NEW m \in readable
      PROVE  /\ Of(m).dueAt \in Nat \cup {None}
             /\ Expiry[mailboxes[m].token] \in Nat
             /\ StateOf(m) \in WakeState \cup {None}
  <2>1. mailboxes[m].token \in Tokens /\ mailboxes[m].since \in Times \cup {None}
    BY DEF Registration
  <2>2. Expiry[mailboxes[m].token] \in Nat
    BY <2>1, WakeTimesAssumption
  <2>3. StateOf(m) \in WakeState \cup {None}
    OBVIOUS
  <2>4. WakeLead(Expiry[mailboxes[m].token], mailboxes[m].since) \in Nat
    BY <2>1, <2>2, WakeLeadTyped
  <2>5. pass.now \in Times
    BY DEF TypeOK, Pass
  <2> QED
    BY <2>2, <2>3, <2>4, <2>5, DueAtTyped
<1>3. \A i \in due_ : \E m \in readable : i = Of(m)
  OBVIOUS
<1>4. due_ \subseteq Item
  BY <1>2 DEF Item
<1> HIDE DEF due_
<1>5. ASSUME NEW i \in due_
      PROVE  /\ i.mailbox \in M /\ i.expiry = Expiry[mailboxes[i.mailbox].token]
             /\ i.state = StateOf(i.mailbox) /\ i = Of(i.mailbox)
             /\ i.dueAt <= pass.now
  BY <1>3 DEF due_
<1> QED
  BY <1>1, <1>4, <1>5

\* registerDevice() and the clean-ups keep the rows in order.
LEMMA StoreTyped ==
  ASSUME TypeOK
  PROVE  /\ \A m \in Mailboxes, d \in Devices, t \in Tokens : Register(m, d, t) => TypeOK'
         /\ \A m \in Mailboxes, d \in Devices : Unregister(m, d) => TypeOK'
         /\ \A m \in Mailboxes : Retain(m) => TypeOK'
         /\ Tick => TypeOK'
<1>1. ASSUME NEW m \in Mailboxes, NEW d \in Devices, NEW t \in Tokens,
             Register(m, d, t)
      PROVE  TypeOK'
  <2>1. reg' \in [Mailboxes -> Registration \cup {None}]
    BY <1>1 DEF Register, Registration, TypeOK
  <2>2. rounds' \in [Mailboxes -> Nat] /\ devices' \in [Mailboxes -> SUBSET Devices]
    BY <1>1 DEF Register, TypeOK
  <2> QED
    BY <1>1, <2>1, <2>2 DEF Register, memory, TypeOK
<1>2. ASSUME NEW m \in Mailboxes, DeleteMailbox(m)
      PROVE  /\ reg' \in [Mailboxes -> Registration \cup {None}]
             /\ devices' \in [Mailboxes -> SUBSET Devices]
             /\ wake' \in [Mailboxes -> WakeState \cup {None}]
             /\ rounds' \in [Mailboxes -> Nat]
  BY <1>2 DEF DeleteMailbox, TypeOK
<1>3. ASSUME NEW m \in Mailboxes, NEW d \in Devices, Unregister(m, d)
      PROVE  TypeOK'
  <2>1. /\ reg' \in [Mailboxes -> Registration \cup {None}]
        /\ devices' \in [Mailboxes -> SUBSET Devices]
        /\ wake' \in [Mailboxes -> WakeState \cup {None}]
        /\ rounds' \in [Mailboxes -> Nat]
    BY <1>2, <1>3 DEF Unregister, UnregisterDevice, TypeOK
  <2> QED
    BY <1>3, <2>1 DEF Unregister, memory, TypeOK
<1>4. ASSUME NEW m \in Mailboxes, Retain(m)
      PROVE  TypeOK'
  BY <1>2, <1>4 DEF Retain, memory, TypeOK
<1>5. ASSUME Tick
      PROVE  TypeOK'
  BY <1>5, WakeTimesAssumption DEF Tick, store, memory, TypeOK, Times
<1> QED
  BY <1>1, <1>3, <1>4, <1>5

\* After the last device of an item, or with more of them to send to.
LEMMA EndItemTyped ==
  ASSUME TypeOK, PassInv, NEW todo \in SUBSET Devices, EndItem(todo),
         pass.at \in {"counting", "sending", "removing"}, seen' = seen
  PROVE  /\ pass' \in Pass
         /\ item' \in [wakes: Item \cup {None}, todo: SUBSET Devices,
                       device: Devices \cup {None}]
         /\ pass'.at \in {"idle", "waking", "sending"}
         /\ PassInv'
<1>1. pass \in Pass /\ MaxPerTick \in Nat /\ pass.left > 0
  BY WakeSetsAssumption DEF TypeOK, PassInv
<1>2. pass.left - 1 \in 0..MaxPerTick
  BY <1>1 DEF Pass
<1>3. CASE todo = {}
  <2>1. pass' = Continue(due, pass.left - 1) /\ item' = NoItem
    BY <1>3 DEF EndItem
  <2>2. /\ pass' \in Pass /\ pass'.at \in {"idle", "waking"}
        /\ pass'.at = "waking" => pass'.left > 0
    BY <1>2, <2>1, ContinueTyped
  <2>3. item' \in [wakes: Item \cup {None}, todo: SUBSET Devices,
                  device: Devices \cup {None}]
    BY <2>1 DEF NoItem
  <2> QED
    BY <2>2, <2>3 DEF PassInv
<1>4. CASE todo # {}
  <2>1. /\ pass' = [pass EXCEPT !.at = "sending"]
        /\ item' = [item EXCEPT !.todo = todo, !.device = None]
    BY <1>4 DEF EndItem
  <2>2. /\ pass' \in Pass /\ pass'.at = "sending" /\ pass'.left = pass.left
        /\ item' \in [wakes: Item \cup {None}, todo: SUBSET Devices,
                      device: Devices \cup {None}]
        /\ item'.wakes = item.wakes
    BY <1>1, <2>1 DEF TypeOK, Pass
  <2> QED
    BY <1>1, <2>2 DEF PassInv
<1> QED
  BY <1>3, <1>4

\* What the attempt is stored as, and that it counts one more.
LEMMA CountedTyped ==
  ASSUME TypeOK, NEW i \in Item
  PROVE  /\ Counted(i) \in WakeState
         /\ Counted(i).expiry = i.expiry
         /\ i.state = None => Counted(i).pre + Counted(i).post = 1
         /\ i.state # None =>
              Counted(i).pre + Counted(i).post = i.state.pre + i.state.post + 1
<1>1. i.expiry \in Nat /\ pass.now \in Times
  BY DEF TypeOK, Item, Pass
<1>2. CASE i.state = None
  BY <1>1, <1>2 DEF Counted, WakeState
<1>3. CASE i.state # None
  <2>1. i.state.pre \in Nat /\ i.state.post \in Nat
    BY <1>3 DEF Item, WakeState
  <2> QED
    BY <1>1, <1>3, <2>1 DEF Counted, WakeState
<1> QED
  BY <1>2, <1>3

\* The pass keeps what it holds in order, whatever ends it.
LEMMA PassTyped ==
  ASSUME TypeOK, PassInv,
         StartPass \/ PassStep \/ PassFails \/ PassFailsAfterRemoval \/ Restart
  PROVE  TypeOK' /\ PassInv'
<1>0. MaxPerTick \in Nat \ {0} /\ now \in Times /\ pass \in Pass
  BY WakeSetsAssumption DEF TypeOK
<1>1. CASE StartPass
  <2>1. /\ pass' = [at |-> "reading", now |-> now, left |-> MaxPerTick]
        /\ UNCHANGED <<now, store, seen, due, item, rounds>>
    BY <1>1 DEF StartPass
  <2>2. pass' \in Pass /\ pass'.at = "reading"
    BY <1>0, <2>1 DEF Pass
  <2> QED
    BY <2>1, <2>2 DEF TypeOK, PassInv, store
<1>2. ASSUME NEW mailboxes, NEW states, Seen(mailboxes, states),
             \/ mailboxes = None
             \/ \E M \in SUBSET Mailboxes : mailboxes \in [M -> Registration],
             states = None \/ states \in [Mailboxes -> WakeState \cup {None}],
             pass.at = "reading", UNCHANGED <<now, store, item, rounds>>
      PROVE  TypeOK' /\ PassInv'
  <2>1. CASE mailboxes = None \/ states = None
    BY <1>2, <2>1 DEF Seen, TypeOK, PassInv, store
  <2>2. CASE mailboxes # None /\ states # None
    <3>1. /\ seen' = NoSeen /\ due' = DueItems(mailboxes, states)
          /\ pass' = Continue(due', pass.left)
      BY <1>2, <2>2 DEF Seen
    <3>2. due' \subseteq Item
      BY <1>2, <2>2, <3>1, DueItemsTyped
    <3>3. /\ pass' \in Pass /\ pass'.at \in {"idle", "waking"}
          /\ pass'.at = "waking" => pass'.left > 0
      <4>1. pass.left \in 0..MaxPerTick
        BY <1>0 DEF Pass
      <4> QED
        BY <3>1, <4>1, ContinueTyped
    <3> QED
      BY <1>2, <3>1, <3>2, <3>3 DEF TypeOK, PassInv, store, NoSeen
  <2> QED
    BY <2>1, <2>2
<1>3. CASE ReadMailboxes
  <2> DEFINE registered == {m \in Mailboxes : reg[m] # None /\ devices[m] # {}}
             rows == [m \in registered |-> reg[m]]
  <2>1. rows \in [registered -> Registration]
    BY DEF TypeOK
  <2>2. seen.states = None \/ seen.states \in [Mailboxes -> WakeState \cup {None}]
    BY DEF TypeOK
  <2>3. Seen(rows, seen.states) /\ pass.at = "reading"
        /\ UNCHANGED <<now, store, item, rounds>>
    BY <1>3 DEF ReadMailboxes
  <2>4. \E M \in SUBSET Mailboxes : rows \in [M -> Registration]
    BY <2>1
  <2> HIDE DEF rows
  <2> QED
    BY <1>2, <2>2, <2>3, <2>4
<1>4. CASE ReadStates
  <2>1. Seen(seen.mailboxes, wake) /\ pass.at = "reading"
        /\ UNCHANGED <<now, store, item, rounds>>
    BY <1>4 DEF ReadStates
  <2>2. /\ wake \in [Mailboxes -> WakeState \cup {None}]
        /\ \/ seen.mailboxes = None
           \/ \E M \in SUBSET Mailboxes : seen.mailboxes \in [M -> Registration]
    BY DEF TypeOK
  <2> QED
    BY <1>2, <2>1, <2>2
<1>5. ASSUME NEW i \in due, GetDevices(i)
      PROVE  TypeOK' /\ PassInv'
  <2>1. i \in Item /\ i.mailbox \in Mailboxes
    BY DEF TypeOK, Item
  <2>2. devices[i.mailbox] \subseteq Devices
    BY <2>1 DEF TypeOK
  <2>3. /\ pass' = [pass EXCEPT !.at = "counting"] /\ due' = due \ {i}
        /\ item' = [wakes |-> i, todo |-> devices[i.mailbox], device |-> None]
        /\ pass.at = "waking" /\ UNCHANGED <<now, store, seen, rounds>>
    BY <1>5 DEF GetDevices
  <2>4. pass' \in Pass /\ pass'.at = "counting" /\ pass'.left = pass.left
    BY <1>0, <2>3 DEF Pass
  <2> QED
    BY <2>1, <2>2, <2>3, <2>4 DEF TypeOK, PassInv, store
<1>6. CASE CountWake
  <2>1. /\ pass.at = "counting" /\ EndItem(item.todo) /\ seen' = seen
        /\ UNCHANGED <<now, reg, devices, seen, due>>
    BY <1>6 DEF CountWake
  <2>2. item.wakes \in Item /\ item.todo \in SUBSET Devices
    BY <2>1 DEF TypeOK, PassInv
  <2>3. item.wakes.mailbox \in Mailboxes
    BY <2>2 DEF Item
  <2>4. wake' \in [Mailboxes -> WakeState \cup {None}]
    <3>1. Counted(item.wakes) \in WakeState
      BY <2>2, CountedTyped
    <3> QED
      BY <1>6, <2>3, <3>1 DEF CountWake, TypeOK
  <2>5. rounds' \in [Mailboxes -> Nat]
    BY <1>6, <2>3 DEF CountWake, TypeOK
  <2>6. /\ pass' \in Pass /\ PassInv'
        /\ item' \in [wakes: Item \cup {None}, todo: SUBSET Devices,
                      device: Devices \cup {None}]
    BY <2>1, <2>2, EndItemTyped
  <2> QED
    BY <2>1, <2>4, <2>5, <2>6 DEF TypeOK
<1>7. ASSUME NEW d \in Devices, Send(d)
      PROVE  TypeOK' /\ PassInv'
  <2>1. /\ pass.at = "sending" /\ EndItem(item.todo \ {d})
        /\ UNCHANGED <<now, store, seen, due, rounds>>
    BY <1>7 DEF Send
  <2>2. item.todo \ {d} \in SUBSET Devices
    BY DEF TypeOK
  <2>3. /\ pass' \in Pass /\ PassInv'
        /\ item' \in [wakes: Item \cup {None}, todo: SUBSET Devices,
                      device: Devices \cup {None}]
    BY <2>1, <2>2, EndItemTyped
  <2> QED
    BY <2>1, <2>3 DEF TypeOK, store
<1>8. ASSUME NEW d \in Devices, SendStale(d)
      PROVE  TypeOK' /\ PassInv'
  <2>1. /\ pass.at = "sending" /\ pass' = [pass EXCEPT !.at = "removing"]
        /\ item' = [item EXCEPT !.todo = @ \ {d}, !.device = d]
        /\ UNCHANGED <<now, store, seen, due, rounds>>
    BY <1>8 DEF SendStale
  <2>2. pass' \in Pass /\ pass'.at = "removing" /\ pass'.left = pass.left
    BY <1>0, <2>1 DEF Pass
  <2>3. /\ item' \in [wakes: Item \cup {None}, todo: SUBSET Devices,
                      device: Devices \cup {None}]
        /\ item'.wakes = item.wakes
    BY <2>1 DEF TypeOK
  <2> QED
    BY <2>1, <2>2, <2>3 DEF TypeOK, PassInv, store
<1>9. ASSUME NEW m \in Mailboxes, NEW d, UnregisterDevice(m, d)
      PROVE  /\ reg' \in [Mailboxes -> Registration \cup {None}]
             /\ devices' \in [Mailboxes -> SUBSET Devices]
             /\ wake' \in [Mailboxes -> WakeState \cup {None}]
             /\ rounds' \in [Mailboxes -> Nat]
  BY <1>9 DEF UnregisterDevice, DeleteMailbox, TypeOK
<1>10. pass.at = "removing" => item.wakes.mailbox \in Mailboxes
  <2>1. pass.at = "removing" => item.wakes \in Item
    BY DEF TypeOK, PassInv
  <2> QED
    BY <2>1 DEF Item
<1>11. CASE RemoveStale
  <2>1. /\ pass.at = "removing" /\ EndItem(item.todo)
        /\ UnregisterDevice(item.wakes.mailbox, item.device)
        /\ UNCHANGED <<now, seen, due>>
    BY <1>11 DEF RemoveStale
  <2>2. item.todo \in SUBSET Devices
    BY DEF TypeOK
  <2>3. /\ pass' \in Pass /\ PassInv'
        /\ item' \in [wakes: Item \cup {None}, todo: SUBSET Devices,
                      device: Devices \cup {None}]
    BY <2>1, <2>2, EndItemTyped
  <2> QED
    BY <1>9, <1>10, <2>1, <2>3 DEF TypeOK
<1>12. EndPass =>
         /\ pass' \in Pass /\ due' \subseteq Item /\ PassInv'
         /\ seen'.mailboxes = None /\ seen'.states = None
         /\ item' \in [wakes: Item \cup {None}, todo: SUBSET Devices,
                       device: Devices \cup {None}]
  BY <1>0, WakeTimesAssumption
     DEF EndPass, NoPass, NoSeen, NoItem, Pass, PassInv, Times
<1>13. CASE PassFails \/ Restart
  BY <1>12, <1>13 DEF PassFails, Restart, TypeOK, store
<1>14. CASE PassFailsAfterRemoval
  BY <1>9, <1>10, <1>12, <1>14 DEF PassFailsAfterRemoval, TypeOK
<1> QED
  BY <1>1, <1>3, <1>4, <1>5, <1>6, <1>7, <1>8, <1>11, <1>13, <1>14 DEF PassStep

\* Every step of the scheduler and around it keeps the types of its state.
THEOREM WakeTypeCorrect == Spec => []TypeOK
<1>1. Init => TypeOK /\ PassInv
  <2> SUFFICES ASSUME Init PROVE TypeOK /\ PassInv
    OBVIOUS
  <2>1. now \in Times
    BY WakeTimesAssumption DEF Init, Times
  <2>2. reg \in [Mailboxes -> Registration \cup {None}]
    BY WakeSetsAssumption DEF Init, Registration
  <2>3. pass \in Pass
    BY WakeTimesAssumption, WakeSetsAssumption DEF Init, NoPass, Pass, Times
  <2> QED
    BY <2>1, <2>2, <2>3 DEF Init, TypeOK, PassInv, NoPass, NoSeen, NoItem
<1>2. TypeOK /\ PassInv /\ [Next]_vars => TypeOK' /\ PassInv'
  <2> SUFFICES ASSUME TypeOK, PassInv, [Next]_vars PROVE TypeOK' /\ PassInv'
    OBVIOUS
  <2>1. CASE UNCHANGED vars
    BY <2>1 DEF vars, store, memory, TypeOK, PassInv
  <2>2. CASE StartPass \/ PassStep \/ PassFails \/ PassFailsAfterRemoval \/ Restart
    BY <2>2, PassTyped
  <2>3. UNCHANGED memory => PassInv'
    BY DEF memory, PassInv
  <2>4. CASE \/ Tick
             \/ \E m \in Mailboxes, d \in Devices :
                  Unregister(m, d) \/ \E t \in Tokens : Register(m, d, t)
             \/ \E m \in Mailboxes : Retain(m)
    <3>1. TypeOK'
      BY <2>4, StoreTyped
    <3>2. UNCHANGED memory
      BY <2>4 DEF Tick, Unregister, Register, Retain
    <3> QED
      BY <2>3, <3>1, <3>2
  <2> QED
    BY <2>1, <2>2, <2>4 DEF Next
<1> QED
  BY <1>1, <1>2, PTL DEF Spec

-----------------------------------------------------------------------------
(* Counting wakes *)

\* No row counts less for the authorization that stays, or a new count begins.
RowsKept ==
  \A m \in Mailboxes :
    \/ rounds'[m] = 0
    \/ /\ rounds'[m] = rounds[m] /\ ExpiryOf(m)' = ExpiryOf(m)
       /\ wake'[m] = wake[m]

\* Deletions of all kinds leave the other mailboxes alone, and no wake row.
LEMMA DeletionKeepsRows ==
  ASSUME TypeOK, NoWakeLeftovers, NEW m \in Mailboxes, NEW d,
         DeleteMailbox(m) \/ UnregisterDevice(m, d)
  PROVE  RowsKept /\ NoWakeLeftovers'
<1>1. CASE DeleteMailbox(m)
  <2>1. ASSUME NEW n \in Mailboxes
        PROVE  /\ n = m => rounds'[n] = 0 /\ wake'[n] = None
               /\ n # m => /\ rounds'[n] = rounds[n] /\ wake'[n] = wake[n]
                           /\ reg'[n] = reg[n]
    BY <1>1 DEF DeleteMailbox, TypeOK
  <2> QED
    BY <2>1 DEF RowsKept, ExpiryOf, NoWakeLeftovers
<1>2. CASE UNCHANGED <<reg, wake, rounds>>
  BY <1>2 DEF RowsKept, ExpiryOf, NoWakeLeftovers
<1> QED
  BY <1>1, <1>2 DEF UnregisterDevice

\* A registration starts a new count unless the expiry stays.
LEMMA RegisterKeepsRows ==
  ASSUME TypeOK, NoWakeLeftovers, NEW m \in Mailboxes, NEW d, NEW t \in Tokens,
         Register(m, d, t)
  PROVE  RowsKept /\ NoWakeLeftovers'
<1>1. reg'[m] # None /\ reg'[m].token = t
  <2>1. reg[m] # None /\ reg[m].token = t => reg'[m] = reg[m]
    BY DEF Register, TypeOK
  <2>2. ~(reg[m] # None /\ reg[m].token = t) => reg'[m] = [token |-> t, since |-> now]
    BY DEF Register, TypeOK
  <2>3. /\ [token |-> t, since |-> now].token = t
        /\ [token |-> t, since |-> now] # None
    BY WakeRowsAssumption DEF TypeOK, Registration
  <2> QED
    BY <2>1, <2>2, <2>3
<1>2. ExpiryOf(m)' = Expiry[t]
  BY <1>1 DEF ExpiryOf
<1>3. \/ rounds'[m] = 0
      \/ rounds'[m] = rounds[m] /\ ExpiryOf(m)' = ExpiryOf(m)
  <2>1. rounds'[m] = IF ExpiryOf(m) = Expiry[t] /\ reg[m] # None
                     THEN rounds[m] ELSE 0
    BY DEF Register, TypeOK
  <2> QED
    BY <1>2, <2>1
<1>4. ASSUME NEW n \in Mailboxes, n # m
      PROVE  rounds'[n] = rounds[n] /\ reg'[n] = reg[n]
  BY <1>4 DEF Register, TypeOK
<1>5. wake' = wake
  BY DEF Register
<1> QED
  BY <1>1, <1>3, <1>4, <1>5 DEF RowsKept, ExpiryOf, NoWakeLeftovers

\* Only counting a wake puts a row at odds with what a pass holds: any other step
\* that holds no more than before keeps all the counts.
LEMMA KeptCounts ==
  ASSUME TypeOK, CountInv, RowsKept, NoWakeLeftovers', PassInv', TypeOK',
         seen' = seen \/ seen' = NoSeen, Pending' \subseteq Pending,
         pass'.at = "counting" => item'.wakes \notin due'
  PROVE  CountInv'
<1>1. StoreCounts'
  BY DEF CountInv, StoreCounts, RowsKept, CountsOf
<1>2. SeenCounts'
  <2>1. CASE seen' = NoSeen
    BY <2>1 DEF SeenCounts, NoSeen
  <2>2. CASE seen' = seen
    <3>1. seen.mailboxes # None => DOMAIN seen.mailboxes \subseteq Mailboxes
      BY DEF TypeOK
    <3> QED
      BY <2>2, <3>1 DEF CountInv, SeenCounts, RowsKept, CountsOf
  <2> QED
    BY <2>1, <2>2
<1>3. PendingCounts'
  <2> SUFFICES ASSUME NEW i \in Pending'
               PROVE  /\ CountsOf(i.state, rounds[i.mailbox], ExpiryOf(i.mailbox))'
                      /\ i.state # None => i.state.expiry = i.expiry
    BY DEF PendingCounts
  <2>1. i \in Pending
    OBVIOUS
  <2>2. i.mailbox \in Mailboxes
    BY <2>1 DEF Pending, CountInv, PassInv, TypeOK, Item
  <2> QED
    BY <2>1, <2>2 DEF CountInv, PendingCounts, RowsKept, CountsOf
<1>4. PendingOnce'
  BY DEF CountInv, PendingOnce
<1> QED
  BY <1>1, <1>2, <1>3, <1>4 DEF CountInv

\* The two reads of a pass together count what was sent before them.
LEMMA SeenCounted ==
  ASSUME TypeOK, CountInv, TypeOK', PassInv', NEW mailboxes, NEW states,
         Seen(mailboxes, states), pass.at = "reading",
         UNCHANGED <<now, store, item, rounds>>,
         \/ mailboxes = None
         \/ \E M \in SUBSET Mailboxes :
              /\ mailboxes \in [M -> Registration]
              /\ \A m \in M : rounds[m] > 0 =>
                   Expiry[mailboxes[m].token] = ExpiryOf(m),
         \/ states = None
         \/ /\ states \in [Mailboxes -> WakeState \cup {None}]
            /\ \A m \in Mailboxes : CountsOf(states[m], rounds[m], ExpiryOf(m))
  PROVE  CountInv'
<1>1. StoreCounts'
  BY DEF CountInv, StoreCounts, NoWakeLeftovers, ExpiryOf, store
<1>2. CASE mailboxes = None \/ states = None
  <2>1. /\ seen' = [mailboxes |-> mailboxes, states |-> states]
        /\ pass' = pass /\ due' = due /\ item' = item
    BY <1>2 DEF Seen
  <2>2. SeenCounts'
    BY <2>1 DEF SeenCounts, ExpiryOf, store
  <2>3. PendingCounts' /\ PendingOnce'
    BY <2>1 DEF CountInv, PendingCounts, PendingOnce, Pending, ExpiryOf, store
  <2> QED
    BY <1>1, <2>2, <2>3 DEF CountInv
<1>3. CASE mailboxes # None /\ states # None
  <2>1. /\ seen' = NoSeen /\ due' = DueItems(mailboxes, states)
        /\ pass' = Continue(due', pass.left)
    BY <1>3 DEF Seen
  <2>2. SeenCounts'
    BY <2>1 DEF SeenCounts, NoSeen
  <2>3. Pending' = due' /\ pass'.at # "counting"
    <3>1. MaxPerTick \in Nat /\ pass.left \in 0..MaxPerTick
      BY WakeSetsAssumption DEF TypeOK, Pass
    <3>2. pass'.at \in {"idle", "waking"}
      BY <2>1, <3>1, ContinueTyped
    <3> QED
      BY <3>2 DEF Pending
  <2>4. PICK M \in SUBSET Mailboxes :
          /\ mailboxes \in [M -> Registration]
          /\ \A m \in M : rounds[m] > 0 => Expiry[mailboxes[m].token] = ExpiryOf(m)
    BY <1>3
  <2>5. /\ \A i \in due' :
             /\ i.mailbox \in M /\ i.expiry = Expiry[mailboxes[i.mailbox].token]
             /\ i.state = IF /\ states[i.mailbox] # None
                             /\ states[i.mailbox].expiry = i.expiry
                          THEN states[i.mailbox] ELSE None
        /\ \A i, j \in due' : i.mailbox = j.mailbox => i = j
    BY <1>3, <2>1, <2>4, DueItemsTyped
  <2>6. ASSUME NEW i \in due'
        PROVE  /\ CountsOf(i.state, rounds[i.mailbox], ExpiryOf(i.mailbox))
               /\ i.state # None => i.state.expiry = i.expiry
    <3>1. i.mailbox \in M /\ i.mailbox \in Mailboxes
      BY <2>5
    <3>2. CountsOf(states[i.mailbox], rounds[i.mailbox], ExpiryOf(i.mailbox))
      BY <1>3, <3>1
    <3>3. rounds[i.mailbox] > 0 => i.expiry = ExpiryOf(i.mailbox)
      BY <2>4, <2>5, <3>1
    <3> QED
      BY <2>5, <3>2, <3>3 DEF CountsOf
  <2>7. PendingCounts'
    BY <2>3, <2>6 DEF PendingCounts, ExpiryOf, store
  <2>8. PendingOnce'
    BY <2>3, <2>5 DEF PendingOnce
  <2> QED
    BY <1>1, <2>2, <2>7, <2>8 DEF CountInv
<1> QED
  BY <1>2, <1>3

\* Counting a wake keeps up with the wakes of the authorization, and leaves what
\* the pass holds of other mailboxes true.
LEMMA CountWakeCounts ==
  ASSUME TypeOK, CountInv, TypeOK', PassInv', CountWake
  PROVE  CountInv'
<1> DEFINE i == item.wakes
           m == i.mailbox
<1>1. /\ pass.at = "counting" /\ EndItem(item.todo)
      /\ UNCHANGED <<now, reg, devices, seen, due>>
      /\ wake' = [wake EXCEPT ![m] = IF reg[m] = None THEN @ ELSE Counted(i)]
      /\ rounds' = [rounds EXCEPT ![m] = IF ExpiryOf(m) = i.expiry THEN @ + 1 ELSE @]
  BY DEF CountWake
<1>2. i \in Item /\ m \in Mailboxes /\ i.expiry \in Nat /\ i \in Pending
  BY <1>1 DEF CountInv, PassInv, Item, Pending
<1>3. \A n \in Mailboxes : n # m =>
        wake'[n] = wake[n] /\ rounds'[n] = rounds[n] /\ reg'[n] = reg[n]
  BY <1>1, <1>2 DEF TypeOK
<1>4. /\ wake'[m] = IF reg[m] = None THEN wake[m] ELSE Counted(i)
      /\ rounds'[m] = IF ExpiryOf(m) = i.expiry THEN rounds[m] + 1 ELSE rounds[m]
      /\ reg'[m] = reg[m] /\ rounds[m] \in Nat
  BY <1>1, <1>2 DEF TypeOK
<1>5. NoWakeLeftovers'
  BY <1>3, <1>4 DEF CountInv, StoreCounts, NoWakeLeftovers
<1>6. /\ CountsOf(i.state, rounds[m], ExpiryOf(m))
      /\ i.state # None => i.state.expiry = i.expiry
  BY <1>2 DEF CountInv, PendingCounts
<1>7. CountsOf(wake'[m], rounds'[m], ExpiryOf(m))
  <2>1. CASE reg[m] = None
    <3>1. ExpiryOf(m) # i.expiry
      BY <1>2, <2>1, WakeNoneAssumption DEF ExpiryOf
    <3> QED
      BY <1>2, <1>4, <2>1, <3>1 DEF CountInv, StoreCounts
  <2>2. CASE reg[m] # None /\ ExpiryOf(m) = i.expiry
    <3>1. /\ Counted(i) \in WakeState /\ Counted(i).expiry = i.expiry
          /\ i.state = None => Counted(i).pre + Counted(i).post = 1
          /\ i.state # None =>
               Counted(i).pre + Counted(i).post = i.state.pre + i.state.post + 1
      BY <1>2, CountedTyped
    <3>2. Counted(i) # None
      BY <3>1, WakeRowsAssumption
    <3>3. rounds[m] + 1 <= Counted(i).pre + Counted(i).post
      <4>1. CASE i.state = None
        BY <1>4, <1>6, <3>1, <4>1 DEF CountsOf
      <4>2. CASE i.state # None
        <5>1. i.state.pre \in Nat /\ i.state.post \in Nat
          BY <1>2, <4>2 DEF Item, WakeState
        <5> QED
          BY <1>4, <1>6, <3>1, <4>2, <5>1 DEF CountsOf
      <4> QED
        BY <4>1, <4>2
    <3> QED
      BY <1>4, <2>2, <3>1, <3>2, <3>3 DEF CountsOf
  <2>3. CASE ExpiryOf(m) # i.expiry
    <3>1. ~ (rounds[m] > 0)
      BY <1>6, <2>3 DEF CountsOf
    <3> QED
      BY <1>4, <2>3, <3>1 DEF CountsOf
  <2> QED
    BY <2>1, <2>2, <2>3
<1>8. \A n \in Mailboxes : ExpiryOf(n)' = ExpiryOf(n)
  BY <1>1 DEF ExpiryOf
<1>9. StoreCounts'
  <2>1. ASSUME NEW n \in Mailboxes
        PROVE  CountsOf(wake'[n], rounds'[n], ExpiryOf(n))
    BY <1>3, <1>7 DEF CountInv, StoreCounts
  <2> QED
    BY <1>5, <1>8, <2>1 DEF StoreCounts
<1>10. SeenCounts'
  <2>1. seen' = NoSeen
    BY <1>1 DEF CountInv, PassInv
  <2> QED
    BY <2>1 DEF SeenCounts, NoSeen
<1>11. Pending' = due /\ pass'.at # "counting"
  <2>1. item.todo \in SUBSET Devices
    BY DEF TypeOK
  <2>2. pass'.at \in {"idle", "waking", "sending"}
    BY <1>1, <2>1, EndItemTyped DEF CountInv
  <2> QED
    BY <1>1, <2>2 DEF Pending
<1>12. \A j \in due : j \in Pending /\ j.mailbox \in Mailboxes /\ j.mailbox # m
  BY <1>1, <1>2 DEF CountInv, PendingOnce, Pending, TypeOK, Item
<1>13. PendingCounts'
  <2>1. ASSUME NEW j \in due
        PROVE  /\ CountsOf(j.state, rounds'[j.mailbox], ExpiryOf(j.mailbox))
               /\ j.state # None => j.state.expiry = j.expiry
    BY <1>3, <1>12 DEF CountInv, PendingCounts
  <2> QED
    BY <1>8, <1>11, <1>12, <2>1 DEF PendingCounts
<1>14. PendingOnce'
  BY <1>11, <1>12 DEF CountInv, PendingOnce
<1> QED
  BY <1>9, <1>10, <1>13, <1>14 DEF CountInv

\* The steps of a pass, one by one.
LEMMA PassCounts ==
  ASSUME TypeOK, CountInv, TypeOK', PassInv',
         StartPass \/ PassStep \/ PassFails \/ PassFailsAfterRemoval \/ Restart
  PROVE  CountInv'
<1>1. ASSUME UNCHANGED store, rounds' = rounds
      PROVE  RowsKept /\ NoWakeLeftovers'
  BY <1>1 DEF RowsKept, ExpiryOf, store, CountInv, StoreCounts, NoWakeLeftovers
<1>2. ASSUME EndPass
      PROVE  seen' = NoSeen /\ Pending' = {} /\ pass'.at = "idle"
  BY <1>2 DEF EndPass, Pending, NoPass
<1>3. ASSUME EndItem(item.todo) \/ \E d \in Devices : EndItem(item.todo \ {d}),
             pass.at \in {"sending", "removing"}, seen' = seen, due' = due
      PROVE  Pending' \subseteq Pending /\ pass'.at # "counting"
  <2>1. item.todo \in SUBSET Devices /\ PassInv
    BY DEF TypeOK, CountInv
  <2>2. PICK todo \in SUBSET Devices : EndItem(todo)
    BY <1>3, <2>1
  <2>3. pass'.at \in {"idle", "waking", "sending"}
    BY <1>3, <2>1, <2>2, EndItemTyped
  <2> QED
    BY <1>3, <2>3 DEF Pending
<1>4. CASE StartPass
  <2>1. seen' = seen /\ due' = due /\ pass'.at = "reading" /\ Pending' \subseteq Pending
    BY <1>4 DEF StartPass, Pending
  <2> QED
    BY <1>1, <1>4, <2>1, KeptCounts DEF StartPass
<1>5. CASE ReadMailboxes
  <2> DEFINE registered == {m \in Mailboxes : reg[m] # None /\ devices[m] # {}}
             rows == [m \in registered |-> reg[m]]
  <2>1. /\ registered \in SUBSET Mailboxes /\ rows \in [registered -> Registration]
        /\ \A m \in registered : Expiry[rows[m].token] = ExpiryOf(m)
    BY DEF TypeOK, ExpiryOf
  <2>2. \/ seen.states = None
        \/ /\ seen.states \in [Mailboxes -> WakeState \cup {None}]
           /\ \A m \in Mailboxes :
                CountsOf(seen.states[m], rounds[m], ExpiryOf(m))
    BY DEF TypeOK, CountInv, SeenCounts
  <2>3. /\ Seen(rows, seen.states) /\ pass.at = "reading"
        /\ UNCHANGED <<now, store, item, rounds>>
    BY <1>5 DEF ReadMailboxes
  <2>4. \E M \in SUBSET Mailboxes :
          /\ rows \in [M -> Registration]
          /\ \A m \in M : rounds[m] > 0 => Expiry[rows[m].token] = ExpiryOf(m)
    BY <2>1
  <2> HIDE DEF rows
  <2> QED
    BY <2>2, <2>3, <2>4, SeenCounted
<1>6. CASE ReadStates
  <2>1. /\ Seen(seen.mailboxes, wake) /\ pass.at = "reading"
        /\ UNCHANGED <<now, store, item, rounds>>
    BY <1>6 DEF ReadStates
  <2>2. /\ wake \in [Mailboxes -> WakeState \cup {None}]
        /\ \A m \in Mailboxes : CountsOf(wake[m], rounds[m], ExpiryOf(m))
    BY DEF TypeOK, CountInv, StoreCounts
  <2>3. \/ seen.mailboxes = None
        \/ \E M \in SUBSET Mailboxes :
             /\ seen.mailboxes \in [M -> Registration]
             /\ \A m \in M : rounds[m] > 0 =>
                  Expiry[seen.mailboxes[m].token] = ExpiryOf(m)
    BY DEF TypeOK, CountInv, SeenCounts
  <2> QED
    BY <2>1, <2>2, <2>3, SeenCounted
<1>7. ASSUME NEW i \in due, GetDevices(i)
      PROVE  CountInv'
  <2>1. /\ due' = due \ {i} /\ item'.wakes = i /\ seen' = seen
        /\ UNCHANGED <<now, store, rounds>>
    BY <1>7 DEF GetDevices
  <2>2. Pending' \subseteq Pending
    BY <2>1 DEF Pending
  <2> QED
    BY <1>1, <2>1, <2>2, KeptCounts
<1>8. CASE CountWake
  BY <1>8, CountWakeCounts
<1>9. ASSUME NEW d \in Devices, Send(d)
      PROVE  CountInv'
  BY <1>1, <1>3, <1>9, KeptCounts DEF Send
<1>10. ASSUME NEW d \in Devices, SendStale(d)
      PROVE  CountInv'
  <2>1. /\ pass'.at = "removing" /\ due' = due /\ seen' = seen
        /\ UNCHANGED <<now, store, rounds>>
    BY <1>10 DEF SendStale, TypeOK, Pass
  <2>2. Pending' \subseteq Pending
    BY <2>1 DEF Pending
  <2> QED
    BY <1>1, <2>1, <2>2, KeptCounts
<1>11. ASSUME pass.at = "removing", UnregisterDevice(item.wakes.mailbox, item.device)
      PROVE  RowsKept /\ NoWakeLeftovers'
  <2>1. item.wakes.mailbox \in Mailboxes
    BY <1>11 DEF CountInv, PassInv, Item
  <2> QED
    BY <1>11, <2>1, DeletionKeepsRows DEF CountInv, StoreCounts
<1>12. CASE RemoveStale
  BY <1>3, <1>11, <1>12, KeptCounts DEF RemoveStale
<1>13. CASE PassFails \/ Restart
  BY <1>1, <1>2, <1>13, KeptCounts DEF PassFails, Restart
<1>14. CASE PassFailsAfterRemoval
  BY <1>2, <1>11, <1>14, KeptCounts DEF PassFailsAfterRemoval
<1> QED
  BY <1>4, <1>5, <1>6, <1>7, <1>8, <1>9, <1>10, <1>12, <1>13, <1>14 DEF PassStep

\* What counts the wakes holds throughout.
LEMMA CountsInvariant == Spec => []CountInv
<1>1. Init => CountInv
  <2> SUFFICES ASSUME Init PROVE CountInv
    OBVIOUS
  <2>1. PassInv
    BY DEF Init, PassInv, NoPass
  <2>2. StoreCounts /\ SeenCounts
    BY DEF Init, StoreCounts, NoWakeLeftovers, CountsOf, SeenCounts, NoSeen
  <2>3. PendingCounts /\ PendingOnce
    BY DEF Init, PendingCounts, PendingOnce, Pending, NoPass
  <2> QED
    BY <2>1, <2>2, <2>3 DEF CountInv
<1>2. TypeOK /\ TypeOK' /\ CountInv /\ [Next]_vars => CountInv'
  <2> SUFFICES ASSUME TypeOK, TypeOK', CountInv, [Next]_vars PROVE CountInv'
    OBVIOUS
  <2>1. CASE StartPass \/ PassStep \/ PassFails \/ PassFailsAfterRemoval \/ Restart
    BY <2>1, PassTyped, PassCounts DEF CountInv
  <2>2. ASSUME UNCHANGED memory, RowsKept, NoWakeLeftovers'
        PROVE  CountInv'
    <3>1. Pending' = Pending /\ PassInv'
      BY <2>2 DEF memory, Pending, CountInv, PassInv
    <3>2. pass'.at = "counting" => item'.wakes \notin due'
      BY <2>2 DEF memory, CountInv, PendingOnce
    <3> QED
      BY <2>2, <3>1, <3>2, KeptCounts DEF memory
  <2>3. ASSUME UNCHANGED store, rounds' = rounds
        PROVE  RowsKept /\ NoWakeLeftovers'
    BY <2>3 DEF RowsKept, ExpiryOf, store, CountInv, StoreCounts, NoWakeLeftovers
  <2>4. CASE Tick \/ UNCHANGED vars
    BY <2>2, <2>3, <2>4 DEF Tick, vars
  <2>5. ASSUME NEW m \in Mailboxes, NEW d \in Devices, NEW t \in Tokens,
               Register(m, d, t)
        PROVE  CountInv'
    <3>1. UNCHANGED memory
      BY <2>5 DEF Register
    <3> QED
      BY <2>2, <2>5, <3>1, RegisterKeepsRows DEF CountInv, StoreCounts
  <2>6. ASSUME NEW m \in Mailboxes, NEW d \in Devices, Unregister(m, d)
        PROVE  CountInv'
    <3>1. UNCHANGED memory /\ UnregisterDevice(m, d)
      BY <2>6 DEF Unregister
    <3> QED
      BY <2>2, <3>1, DeletionKeepsRows DEF CountInv, StoreCounts
  <2>7. ASSUME NEW m \in Mailboxes, Retain(m)
        PROVE  CountInv'
    <3>1. UNCHANGED memory /\ DeleteMailbox(m)
      BY <2>7 DEF Retain
    <3> QED
      BY <2>2, <3>1, DeletionKeepsRows DEF CountInv, StoreCounts
  <2> QED
    BY <2>1, <2>4, <2>5, <2>6, <2>7 DEF Next
<1> QED
  BY <1>1, <1>2, WakeTypeCorrect, PTL DEF Spec

-----------------------------------------------------------------------------
(* A wake is counted before it is sent *)

Sending == pass.at \in {"sending", "removing"}

SentRow(m) ==
  wake[m] # None /\ wake[m].expiry = item.wakes.expiry /\ wake[m].last = pass.now

SentInv ==
  /\ pass.now <= now
  /\ Sending /\ SincePass(item.wakes.mailbox) => SentRow(item.wakes.mailbox)

\* While it is sent, its row stays, or goes with the mailbox.
LEMMA SentRowStays ==
  ASSUME SentInv, Sending, pass'.now = pass.now, item'.wakes = item.wakes,
         NEW m, m = item.wakes.mailbox,
         \/ reg'[m] = reg[m] /\ wake'[m] = wake[m]
         \/ ~SincePass(m)'
  PROVE  SincePass(m)' => SentRow(m)'
BY DEF SentInv, SincePass, SentRow

\* A removal leaves the rows of a mailbox alone or deletes them.
LEMMA RemovalOfRows ==
  ASSUME TypeOK, NEW n \in Mailboxes, NEW m \in Mailboxes, NEW d,
         DeleteMailbox(n) \/ UnregisterDevice(n, d)
  PROVE  \/ reg'[m] = reg[m] /\ wake'[m] = wake[m]
         \/ ~SincePass(m)'
<1>1. CASE DeleteMailbox(n)
  BY <1>1 DEF DeleteMailbox, TypeOK, SincePass
<1>2. CASE UNCHANGED <<reg, wake>>
  BY <1>2
<1> QED
  BY <1>1, <1>2 DEF UnregisterDevice

LEMMA SentStep ==
  ASSUME TypeOK, TypeOK', CountInv, SentInv, [Next]_vars
  PROVE  SentInv'
<1> DEFINE m == item.wakes.mailbox
<1>1. pass.now \in Nat /\ now \in Nat /\ Step \in Nat
  BY WakeTimesAssumption DEF TypeOK, Pass, Times
<1>2. Sending \/ pass.at = "counting" => m \in Mailboxes /\ item.wakes \in Item
  BY DEF CountInv, PassInv, Item, Sending
<1>3. ASSUME ~Sending', pass'.now \in {0, pass.now, now}, now' = now
      PROVE  SentInv'
  BY <1>1, <1>3 DEF SentInv
<1>4. ASSUME Sending, pass'.now = pass.now, item'.wakes = item.wakes, now' \in {now, now + Step},
             NEW n, n = m,
             \/ reg'[n] = reg[n] /\ wake'[n] = wake[n]
             \/ ~SincePass(n)'
      PROVE  SentInv'
  BY <1>1, <1>4, SentRowStays DEF SentInv
<1>5. ASSUME UNCHANGED memory, now' \in {now, now + Step},
             \A n \in Mailboxes : \/ reg'[n] = reg[n] /\ wake'[n] = wake[n]
                                 \/ ~SincePass(n)'
      PROVE  SentInv'
  <2>1. CASE Sending
    BY <1>2, <1>4, <1>5, <2>1 DEF memory
  <2>2. CASE ~Sending
    BY <1>1, <1>5, <2>2 DEF memory, Sending, SentInv
  <2> QED
    BY <2>1, <2>2
<1>6. CASE Tick \/ UNCHANGED vars
  BY <1>5, <1>6 DEF Tick, vars, store
<1>7. ASSUME NEW n \in Mailboxes, NEW d \in Devices, NEW t \in Tokens, Register(n, d, t)
      PROVE  SentInv'
  <2>1. /\ UNCHANGED <<now, wake, memory>>
        /\ reg' = [reg EXCEPT ![n] = IF @ # None /\ @.token = t THEN @
                                     ELSE [token |-> t, since |-> now]]
    BY <1>7 DEF Register
  <2>2. ~([token |-> t, since |-> now].since = None) /\ ~(now < pass'.now)
    BY <1>1, <2>1, WakeNoneAssumption DEF SentInv, memory
  <2>3. ASSUME NEW o \in Mailboxes
        PROVE  \/ reg'[o] = reg[o] /\ wake'[o] = wake[o]
               \/ ~SincePass(o)'
    BY <2>1, <2>2 DEF TypeOK, SincePass
  <2> QED
    BY <1>5, <2>1, <2>3
<1>8. ASSUME NEW n \in Mailboxes, NEW d, UNCHANGED <<now, memory>>,
             DeleteMailbox(n) \/ UnregisterDevice(n, d)
      PROVE  SentInv'
  BY <1>5, <1>8, RemovalOfRows
<1>9. ASSUME EndPass, UNCHANGED now
      PROVE  SentInv'
  BY <1>3, <1>9 DEF EndPass, NoPass, Sending
<1>10. CASE StartPass
  BY <1>3, <1>10 DEF StartPass, Sending
<1>11. CASE ReadMailboxes \/ ReadStates
  <2>1. PICK mailboxes, states : Seen(mailboxes, states)
    BY <1>11 DEF ReadMailboxes, ReadStates
  <2>2. pass.at = "reading" /\ UNCHANGED now
    BY <1>11 DEF ReadMailboxes, ReadStates
  <2>3. pass' = pass \/ pass' = Continue(due', pass.left)
    BY <2>1 DEF Seen
  <2>4. pass'.now = pass.now /\ pass'.at \in {"reading", "idle", "waking"}
    BY <2>2, <2>3 DEF Continue, TypeOK, Pass
  <2> QED
    BY <1>3, <2>2, <2>4 DEF Sending
<1>12. ASSUME NEW i \in due, GetDevices(i)
       PROVE  SentInv'
  <2>1. pass'.now = pass.now /\ pass'.at = "counting" /\ UNCHANGED now
    BY <1>12 DEF GetDevices, TypeOK, Pass
  <2> QED
    BY <1>3, <2>1 DEF Sending
\* What becomes of the item that is sent.
<1>13. ASSUME NEW todo, EndItem(todo)
       PROVE  /\ pass'.now = pass.now
              /\ \/ pass'.at \in {"idle", "waking"}
                 \/ pass'.at = "sending" /\ item'.wakes = item.wakes
  BY <1>13 DEF EndItem, Continue, TypeOK, Pass
<1>14. CASE CountWake
  <2>1. /\ pass.at = "counting" /\ EndItem(item.todo) /\ UNCHANGED <<now, reg>>
        /\ wake' = [wake EXCEPT ![m] = IF reg[m] = None THEN @ ELSE Counted(item.wakes)]
    BY <1>14 DEF CountWake
  <2>2. CASE pass'.at \in {"idle", "waking"}
    BY <1>3, <1>13, <2>1, <2>2 DEF Sending
  <2>3. CASE pass'.at = "sending" /\ item'.wakes = item.wakes
    <3>1. reg[m] # None => wake'[m] = Counted(item.wakes)
      BY <1>2, <2>1 DEF TypeOK
    <3>2. /\ Counted(item.wakes) # None /\ Counted(item.wakes).expiry = item.wakes.expiry
          /\ Counted(item.wakes).last = pass.now
      BY <1>2, <2>1, CountedTyped, WakeRowsAssumption DEF Counted
    <3>3. pass'.now = pass.now
      BY <1>13, <2>1
    <3> QED
      BY <2>1, <2>3, <3>1, <3>2, <3>3 DEF SentInv, SincePass, SentRow
  <2> QED
    BY <1>13, <2>1, <2>2, <2>3
<1>15. ASSUME Sending, NEW todo, EndItem(todo), UNCHANGED now, NEW n, n = m,
              \/ reg'[n] = reg[n] /\ wake'[n] = wake[n]
              \/ ~SincePass(n)'
       PROVE  SentInv'
  <2>1. CASE pass'.at \in {"idle", "waking"}
    BY <1>3, <1>13, <1>15, <2>1 DEF Sending
  <2>2. CASE pass'.at = "sending" /\ item'.wakes = item.wakes
    BY <1>4, <1>13, <1>15, <2>2
  <2> QED
    BY <1>13, <1>15, <2>1, <2>2
<1>16. ASSUME NEW d \in Devices, Send(d)
       PROVE  SentInv'
  BY <1>15, <1>16 DEF Send, Sending, store
<1>17. ASSUME NEW d \in Devices, SendStale(d)
       PROVE  SentInv'
  <2>1. pass'.now = pass.now /\ item'.wakes = item.wakes /\ UNCHANGED <<now, store>>
    BY <1>17 DEF SendStale, TypeOK, Pass
  <2> QED
    BY <1>4, <1>17, <2>1 DEF SendStale, Sending, store
<1>18. CASE RemoveStale
  <2>1. Sending /\ UnregisterDevice(m, item.device) /\ EndItem(item.todo) /\ UNCHANGED now
    BY <1>18 DEF RemoveStale, Sending
  <2>2. PICK n \in Mailboxes : n = m
    BY <1>2, <2>1
  <2>3. \/ reg'[n] = reg[n] /\ wake'[n] = wake[n]
        \/ ~SincePass(n)'
    BY <2>1, <2>2, RemovalOfRows
  <2> QED
    BY <1>15, <2>1, <2>2, <2>3
<1>19. CASE PassFails \/ PassFailsAfterRemoval \/ Restart
  BY <1>9, <1>19 DEF PassFails, PassFailsAfterRemoval, Restart
<1>20. ASSUME NEW n \in Mailboxes, NEW d \in Devices, Unregister(n, d)
       PROVE  SentInv'
  BY <1>8, <1>20 DEF Unregister
<1>21. ASSUME NEW n \in Mailboxes, Retain(n)
       PROVE  SentInv'
  BY <1>8, <1>21 DEF Retain
<1> QED
  BY <1>6, <1>7, <1>10, <1>11, <1>12, <1>14, <1>16, <1>17, <1>18, <1>19, <1>20, <1>21
     DEF Next, PassStep

\* Whatever runs meanwhile, the database counts every wake of an authorization
\* before it is sent, and a deleted mailbox leaves no row behind.
THEOREM WakesCounted == Spec => [](WakesAreCounted /\ NoWakeLeftovers)
<1>1. Init => SentInv
  BY WakeTimesAssumption DEF Init, SentInv, Sending, NoPass
<1>2. TypeOK /\ TypeOK' /\ CountInv /\ SentInv /\ [Next]_vars => SentInv'
  BY SentStep
<1>3. CountInv /\ SentInv => WakesAreCounted /\ NoWakeLeftovers
  BY DEF CountInv, StoreCounts, CountsOf, WakesAreCounted, SentInv, Sending, SentRow
<1> QED
  BY <1>1, <1>2, <1>3, CountsInvariant, WakeTypeCorrect, PTL DEF Spec

\* A mailbox that is deleted while a pass is under way leaves no wake row.
THEOREM NoWakeIsLeft == Spec => []NoWakeLeftovers
BY WakesCounted, PTL

-----------------------------------------------------------------------------
(* Keeping to the schedule *)

\* Times that halve and quarter into whole numbers.
Whole(registration) == registration.since = None \/ registration.since % 8 = 0

TimesInv ==
  /\ now % 8 = 0 /\ pass.now <= now
  /\ \A m \in Mailboxes : reg[m] # None => Whole(reg[m])
  /\ seen.mailboxes # None =>
       \A m \in DOMAIN seen.mailboxes : Whole(seen.mailboxes[m])

\* A row counts no more than the schedule has wakes, and tells before from after.
InSchedule(state) ==
  /\ state.pre <= MaxPre /\ state.post <= PostAttempts
  /\ (state.post > 0) <=> (state.last >= state.expiry)

\* The time of the last pass that can have written a row.
Latest == IF pass.at = "idle" THEN now ELSE pass.now

RowInSchedule(state) ==
  state # None => InSchedule(state) /\ state.last <= Latest

RowsInSchedule ==
  /\ \A m \in Mailboxes : RowInSchedule(wake[m])
  /\ seen.states # None => \A m \in Mailboxes : RowInSchedule(seen.states[m])

\* What the pass holds of a mailbox is its row, for as long as that counts wakes
\* of the present authorization.
CopiesInv ==
  /\ seen.states # None =>
       \A m \in Mailboxes : rounds[m] > 0 => seen.states[m] = wake[m]
  /\ \A i \in Pending : rounds[i.mailbox] > 0 => i.state = wake[i.mailbox]

\* The wake that a pass is about to count is within the schedule.
Earned(i) ==
  /\ InSchedule(Counted(i))
  /\ i.state # None => pass.now - i.state.last >= LeastGap(i.state, Counted(i))

Waking == pass.at \in {"waking", "counting", "sending", "removing"}

PendingEarned == Waking => \A i \in Pending : Earned(i)

\* The inductive invariant.
ScheduleInv == TimesInv /\ RowsInSchedule /\ CopiesInv /\ PendingEarned

-----------------------------------------------------------------------------
\* The times of the model are multiples of eight.
LEMMA TimesAreWhole ==
  /\ MinLead % 8 = 0 /\ MaxLead % 8 = 0
  /\ \A t \in Tokens : Expiry[t] # None => Expiry[t] \in Nat /\ Expiry[t] % 8 = 0
<1>1. Step \in Nat \ {0} /\ Step % 8 = 0
  BY WakeTimesAssumption
<1>2. ASSUME NEW x \in Nat, x % Step = 0
      PROVE  x % 8 = 0
  <2> DEFINE j == x \div Step
             k == Step \div 8
  <2>1. j \in Nat /\ x = Step * j
    BY <1>1, <1>2
  <2>2. k \in Nat /\ Step = 8 * k
    BY <1>1
  <2> HIDE DEF j, k
  <2>3. k * j \in Nat
    BY <2>1, <2>2
  <2>4. x = 8 * (k * j)
    BY <2>1, <2>2
  <2> DEFINE l == k * j
  <2> HIDE DEF l
  <2>5. l \in Nat /\ x = 8 * l
    BY <2>3, <2>4 DEF l
  <2> QED
    BY <2>5
<1>3. /\ MinLead \in Nat /\ MinLead % Step = 0
      /\ MaxLead \in Nat /\ MaxLead % Step = 0
  BY WakeTimesAssumption, WakeNoneAssumption
<1>4. ASSUME NEW t \in Tokens, Expiry[t] # None
      PROVE  Expiry[t] \in Nat /\ Expiry[t] % Step = 0
  BY <1>4, WakeTimesAssumption
<1> QED
  BY <1>2, <1>3, <1>4

\* The lead lies between its two bounds, whichever is larger, and halves evenly.
LEMMA WakeLeadWithin ==
  ASSUME NEW expiry \in Nat, expiry % 8 = 0,
         NEW since \in Nat \cup {None}, since = None \/ since % 8 = 0
  PROVE  /\ WakeLead(expiry, since) \in Nat /\ WakeLead(expiry, since) % 2 = 0
         /\ \/ WakeLead(expiry, since) <= MinLead
            \/ WakeLead(expiry, since) <= MaxLead
         /\ \/ WakeLead(expiry, since) >= MinLead
            \/ WakeLead(expiry, since) >= MaxLead
<1> DEFINE quarter == (expiry - since) \div 4
<1>1. MinLead \in Nat /\ MaxLead \in Nat /\ MinLead % 8 = 0 /\ MaxLead % 8 = 0
  BY WakeTimesAssumption, TimesAreWhole
<1>2. CASE since = None \/ since >= expiry
  <2>1. WakeLead(expiry, since) = MinLead
    BY <1>2 DEF WakeLead
  <2>2. MinLead % 2 = 0
    BY <1>1
  <2> QED
    BY <1>1, <2>1, <2>2
<1>3. CASE ~(since = None \/ since >= expiry)
  <2>1. since \in Nat /\ since < expiry /\ since % 8 = 0
    BY <1>3
  <2>2. quarter \in Nat /\ quarter % 2 = 0
    BY <2>1
  <2> HIDE DEF quarter
  <2> DEFINE larger == Max({MinLead, quarter})
  <2>3. larger = IF MinLead >= quarter THEN MinLead ELSE quarter
    BY <1>1, <2>2, TheLarger
  <2>4. larger \in Nat
    BY <1>1, <2>2, <2>3
  <2>5. WakeLead(expiry, since) = Min({MaxLead, larger})
    BY <1>3 DEF WakeLead, quarter
  <2> HIDE DEF larger
  <2>6. Min({MaxLead, larger}) = IF MaxLead <= larger THEN MaxLead ELSE larger
    BY <1>1, <2>4, TheSmaller
  <2> QED
    BY <1>1, <2>2, <2>3, <2>4, <2>5, <2>6
<1> QED
  BY <1>2, <1>3

\* A lead has room for one wake in every spacing and no more than MaxPre.
LEMMA LeadHasRoom ==
  ASSUME NEW lead \in Nat, lead % 2 = 0, lead <= MinLead \/ lead <= MaxLead,
         NEW pre \in Nat, pre * Spacing(lead) < lead
  PROVE  pre + 1 <= MaxPre
<1> DEFINE longest == Max({MinLead, MaxLead})
           days    == (longest + Day - 1) \div Day
<1>1. /\ Day \in Nat /\ Day > 0 /\ longest \in Nat /\ lead <= longest
      /\ lead \div 2 \in Nat
  <2>1. MinLead \in Nat /\ MaxLead \in Nat /\ Day \in Nat /\ Day > 0
    BY WakeTimesAssumption
  <2>2. longest = IF MinLead >= MaxLead THEN MinLead ELSE MaxLead
    BY <2>1, TheLarger
  <2> QED
    BY <2>1, <2>2
<1> HIDE DEF longest
<1>2. /\ days \in Nat /\ longest + Day - 1 < Day * (days + 1)
  BY <1>1
<1>3. MaxPre = IF 2 >= days THEN 2 ELSE days
  <2>1. MaxPre = Max({2, days})
    BY DEF MaxPre, longest
  <2> QED
    BY <1>2, <2>1, TheLarger
<1>4. Spacing(lead) = IF Day <= lead \div 2 THEN Day ELSE lead \div 2
  BY <1>1, TheSmaller DEF Spacing
<1> HIDE DEF days
<1>5. CASE Day <= lead \div 2
  <2>1. pre * Day < longest
    BY <1>1, <1>4, <1>5
  <2>2. (pre + 1) * Day < (days + 1) * Day
    <3>1. (pre + 1) * Day = pre * Day + Day /\ (days + 1) * Day = Day * (days + 1)
      BY <1>1, <1>2
    <3>2. pre * Day \in Nat /\ Day * (days + 1) \in Nat
      BY <1>1, <1>2
    <3> QED
      BY <1>1, <1>2, <2>1, <3>1, <3>2
  <2>3. pre + 1 < days + 1
    <3> SUFFICES ASSUME pre + 1 >= days + 1 PROVE FALSE
      BY <1>2
    <3>1. (pre + 1) * Day >= (days + 1) * Day
      BY <1>1, <1>2
    <3>2. (pre + 1) * Day \in Nat /\ (days + 1) * Day \in Nat
      BY <1>1, <1>2
    <3> QED
      BY <2>2, <3>1, <3>2
  <2> QED
    BY <1>2, <1>3, <2>3
<1>6. CASE ~(Day <= lead \div 2)
  <2> DEFINE half == lead \div 2
  <2>1. half \in Nat /\ lead = 2 * half /\ pre * half < lead
    BY <1>4, <1>6
  <2> HIDE DEF half
  <2>2. pre < 2
    <3> SUFFICES ASSUME pre >= 2 PROVE FALSE
      OBVIOUS
    <3>1. pre * half >= 2 * half
      BY <2>1
    <3>2. pre * half \in Nat
      BY <2>1
    <3> QED
      BY <2>1, <3>1, <3>2
  <2> QED
    BY <1>2, <1>3, <2>2
<1> QED
  BY <1>5, <1>6

\* A longer lead is never spaced more closely.
LEMMA SpacingGrows ==
  ASSUME NEW a \in Nat, NEW b \in Nat, a <= b
  PROVE  Spacing(a) \in Nat /\ Spacing(a) <= Spacing(b)
<1>1. Day \in Nat /\ a \div 2 \in Nat /\ b \div 2 \in Nat /\ a \div 2 <= b \div 2
  BY WakeTimesAssumption
<1>2. /\ Spacing(a) = IF Day <= a \div 2 THEN Day ELSE a \div 2
      /\ Spacing(b) = IF Day <= b \div 2 THEN Day ELSE b \div 2
  BY <1>1, TheSmaller DEF Spacing
<1> QED
  BY <1>1, <1>2

\* A wake before expiry leaves room for itself in the lead, and a spacing to the
\* one before it.
LEMMA PreWakeEarned ==
  ASSUME NEW expiry \in Nat, expiry % 8 = 0,
         NEW since \in Nat \cup {None}, since = None \/ since % 8 = 0,
         NEW state \in WakeState \cup {None}, NEW time \in Nat,
         PreDueAt(expiry, state, WakeLead(expiry, since)) < expiry,
         PreDueAt(expiry, state, WakeLead(expiry, since)) <= time
  PROVE  /\ state = None => 1 <= MaxPre
         /\ state # None =>
              /\ state.pre + 1 <= MaxPre
              /\ time - state.last >= Spacing(Min({MinLead, MaxLead}))
<1> DEFINE lead == WakeLead(expiry, since)
<1>1. /\ lead \in Nat /\ lead % 2 = 0
      /\ lead <= MinLead \/ lead <= MaxLead
      /\ lead >= MinLead \/ lead >= MaxLead
  BY WakeLeadWithin
<1>2. PreDueAt(expiry, state, lead) < expiry /\ PreDueAt(expiry, state, lead) <= time
  OBVIOUS
<1> HIDE DEF lead
<1>3. Spacing(lead) \in Nat
  BY <1>1, SpacingGrows
<1>4. Spacing(Min({MinLead, MaxLead})) <= Spacing(lead)
  <2>1. MinLead \in Nat /\ MaxLead \in Nat
    BY WakeTimesAssumption
  <2>2. Min({MinLead, MaxLead}) \in Nat /\ Min({MinLead, MaxLead}) <= lead
    BY <1>1, <2>1, TheSmaller
  <2> QED
    BY <1>1, <2>2, SpacingGrows
<1>5. CASE state = None
  <2>1. PreDueAt(expiry, state, lead) = IF expiry - lead >= 0 THEN expiry - lead ELSE 0
    BY <1>1, <1>5, TheLarger DEF PreDueAt, Later
  <2>2. 0 * Spacing(lead) < lead
    BY <1>1, <1>2, <1>3, <2>1
  <2> QED
    BY <1>1, <1>5, <2>2, LeadHasRoom
<1>6. CASE state # None
  <2> DEFINE room == state.pre * Spacing(lead)
             next == state.last + Spacing(lead)
  <2>1. state.pre \in Nat /\ state.last \in Nat
    BY <1>6, WakeTimesAssumption DEF WakeState, Times
  <2>2. room \in Nat /\ next \in Nat
    BY <1>3, <2>1
  <2>3. PreDueAt(expiry, state, lead) = Later(expiry - lead + room, next)
    BY <1>6 DEF PreDueAt
  <2> HIDE DEF room, next
  <2>4. PreDueAt(expiry, state, lead) =
          IF expiry - lead + room >= next THEN expiry - lead + room ELSE next
    BY <1>1, <2>2, <2>3, TheLarger DEF Later
  <2>5. room < lead /\ next <= time
    BY <1>1, <1>2, <2>2, <2>4
  <2>6. state.pre + 1 <= MaxPre
    BY <1>1, <2>1, <2>5, LeadHasRoom DEF room
  <2>7. time - state.last >= Spacing(lead)
    BY <1>3, <2>1, <2>5 DEF next
  <2>8. Spacing(Min({MinLead, MaxLead})) \in Nat
    <3>1. MinLead \in Nat /\ MaxLead \in Nat
      BY WakeTimesAssumption
    <3>2. Min({MinLead, MaxLead}) \in Nat
      BY <3>1, TheSmaller
    <3> QED
      BY <3>2, SpacingGrows
  <2> QED
    BY <1>3, <1>4, <1>6, <2>1, <2>6, <2>7, <2>8
<1> QED
  BY <1>5, <1>6

\* A wake after expiry is one of those that are left, and a day after the one
\* before it.
LEMMA PostWakeEarned ==
  ASSUME NEW expiry \in Nat, NEW state \in WakeState \cup {None}, NEW time \in Nat,
         PostDueAt(expiry, state) # None, PostDueAt(expiry, state) <= time
  PROVE  /\ expiry + Grace <= time
         /\ state = None => 1 <= PostAttempts
         /\ state # None =>
              /\ state.post + 1 <= PostAttempts
              /\ state.post > 0 => time - state.last >= Day
<1>1. Day \in Nat /\ Grace \in Nat /\ PostAttempts \in Nat
  BY WakeTimesAssumption, WakeSetsAssumption
<1>2. CASE state = None
  BY <1>1, <1>2 DEF PostDueAt
<1>3. CASE state # None
  <2>1. state.post \in Nat /\ state.last \in Nat
    BY <1>3, WakeTimesAssumption DEF WakeState, Times
  <2>2. state.post < PostAttempts
    BY <1>1, <1>3, <2>1 DEF PostDueAt
  <2>3. CASE state.post = 0
    <3>1. PostDueAt(expiry, state) = expiry + Grace
      BY <1>3, <2>2, <2>3 DEF PostDueAt
    <3> QED
      BY <1>1, <1>3, <2>1, <2>2, <2>3, <3>1
  <2>4. CASE state.post # 0
    <3>1. PostDueAt(expiry, state) = Later(expiry + Grace, state.last + Day)
      BY <1>1, <1>3, <2>1, <2>2, <2>4 DEF PostDueAt
    <3>2. Later(expiry + Grace, state.last + Day) =
            IF expiry + Grace >= state.last + Day THEN expiry + Grace
            ELSE state.last + Day
      BY <1>1, <2>1, TheLarger DEF Later
    <3> QED
      BY <1>1, <1>3, <2>1, <2>2, <2>4, <3>1, <3>2
  <2> QED
    BY <2>3, <2>4
<1> QED
  BY <1>2, <1>3

\* The wakes before expiry have a bound.
LEMMA MaxPreTyped == MaxPre \in Nat
<1> DEFINE longest == Max({MinLead, MaxLead})
           days    == (longest + Day - 1) \div Day
<1>1. MinLead \in Nat /\ MaxLead \in Nat /\ Day \in Nat /\ Day > 0
  BY WakeTimesAssumption
<1>2. longest \in Nat
  BY <1>1, TheLarger
<1> HIDE DEF longest
<1>3. days \in Nat
  BY <1>1, <1>2
<1> HIDE DEF days
<1>4. MaxPre = Max({2, days})
  BY DEF MaxPre, longest, days
<1> QED
  BY <1>3, <1>4, TheLarger

\* What is due at the time of a pass is within the schedule (nextWakeDueAt()).
LEMMA DueIsEarned ==
  ASSUME TypeOK, NEW i \in Item, i.expiry % 8 = 0,
         NEW since \in Nat \cup {None}, since = None \/ since % 8 = 0,
         i.dueAt = NextWakeDueAt(i.expiry, i.state, pass.now,
                                 WakeLead(i.expiry, since)),
         i.dueAt <= pass.now,
         i.state # None => /\ InSchedule(i.state) /\ i.state.last <= pass.now
                           /\ i.state.expiry = i.expiry
  PROVE  Earned(i)
<1> DEFINE state == i.state
           preDue == PreDueAt(i.expiry, state, WakeLead(i.expiry, since))
           postDue == PostDueAt(i.expiry, state)
<1>1. /\ i.expiry \in Nat /\ i.dueAt \in Nat /\ pass.now \in Nat
      /\ state \in WakeState \cup {None} /\ Grace \in Nat /\ MaxPre \in Nat
      /\ PostAttempts \in Nat /\ None \notin Nat
  BY WakeTimesAssumption, WakeSetsAssumption, WakeNoneAssumption, MaxPreTyped
     DEF TypeOK, Item, Pass, Times
<1>2. state # None => /\ state.pre \in Nat /\ state.post \in Nat
                      /\ state.last \in Nat /\ state.expiry = i.expiry
  BY <1>1, WakeTimesAssumption DEF WakeState, Times
<1>3. CASE pass.now < i.expiry
  <2>1. preDue < i.expiry /\ preDue <= pass.now
    <3>1. i.dueAt = IF preDue < i.expiry THEN preDue
                    ELSE IF postDue # None THEN i.expiry + Grace ELSE postDue
      BY <1>3 DEF NextWakeDueAt
    <3> QED
      BY <1>1, <1>3, <3>1
  <2>2. /\ state = None => 1 <= MaxPre
        /\ state # None =>
             /\ state.pre + 1 <= MaxPre
             /\ pass.now - state.last >= Spacing(Min({MinLead, MaxLead}))
    BY <1>1, <2>1, PreWakeEarned
  <2>3. state # None => state.post = 0
    BY <1>1, <1>2, <1>3 DEF InSchedule
  <2>4. Counted(i) = [expiry |-> i.expiry,
                      pre |-> IF state = None THEN 1 ELSE state.pre + 1,
                      post |-> 0, last |-> pass.now]
    BY <1>2, <1>3, <2>3 DEF Counted
  <2>5. InSchedule(Counted(i))
    BY <1>1, <1>3, <2>2, <2>4 DEF InSchedule
  <2>6. state # None => pass.now - state.last >= LeastGap(state, Counted(i))
    BY <2>2, <2>3, <2>4 DEF LeastGap
  <2> QED
    BY <2>5, <2>6 DEF Earned
<1>4. CASE pass.now >= i.expiry
  <2>1. postDue # None /\ postDue <= pass.now
    BY <1>1, <1>4 DEF NextWakeDueAt
  <2>2. /\ i.expiry + Grace <= pass.now
        /\ state = None => 1 <= PostAttempts
        /\ state # None =>
             /\ state.post + 1 <= PostAttempts
             /\ state.post > 0 => pass.now - state.last >= Day
    BY <1>1, <2>1, PostWakeEarned
  <2>3. Counted(i) = [expiry |-> i.expiry,
                      pre |-> IF state = None THEN 0 ELSE state.pre,
                      post |-> IF state = None THEN 1 ELSE state.post + 1,
                      last |-> pass.now]
    BY <1>1, <1>2, <1>4 DEF Counted
  <2>4. InSchedule(Counted(i))
    BY <1>1, <1>2, <1>4, <2>2, <2>3 DEF InSchedule
  <2>5. state # None => pass.now - state.last >= LeastGap(state, Counted(i))
    <3> SUFFICES ASSUME state # None
                 PROVE  pass.now - state.last >= LeastGap(state, Counted(i))
      OBVIOUS
    <3>1. CASE state.post > 0
      BY <2>2, <3>1 DEF LeastGap
    <3>2. CASE ~(state.post > 0)
      <4>1. state.last < i.expiry
        BY <1>1, <1>2, <3>2 DEF InSchedule
      <4>2. LeastGap(state, Counted(i)) = Grace
        BY <1>2, <2>3, <3>2 DEF LeastGap
      <4> QED
        BY <1>1, <1>2, <2>2, <4>1, <4>2
    <3> QED
      BY <3>1, <3>2
  <2> QED
    BY <2>4, <2>5 DEF Earned
<1> QED
  BY <1>1, <1>3, <1>4

\* Only a pass writes rows or takes up new mailboxes: any other step that holds no
\* more than before keeps to the schedule.
LEMMA KeptSchedule ==
  ASSUME TypeOK, TypeOK', CountInv, ScheduleInv, RowsKept, TimesInv',
         \A m \in Mailboxes : wake'[m] \in {wake[m], None},
         seen' = seen \/ seen' = NoSeen, Pending' \subseteq Pending,
         Latest <= Latest',
         Waking' => Waking /\ pass'.now = pass.now
  PROVE  ScheduleInv'
<1>1. Latest \in Nat /\ Latest' \in Nat
  BY WakeTimesAssumption DEF Latest, TypeOK, Pass, Times
<1>2. ASSUME NEW row \in WakeState \cup {None}, RowInSchedule(row)
      PROVE  row # None => InSchedule(row) /\ row.last <= Latest'
  <2>1. row # None => row.last \in Nat
    BY WakeTimesAssumption DEF WakeState, Times
  <2> QED
    BY <1>1, <1>2, <2>1 DEF RowInSchedule
<1>3. RowsInSchedule'
  <2>1. ASSUME NEW m \in Mailboxes
        PROVE  RowInSchedule(wake[m])'
    <3>1. wake[m] \in WakeState \cup {None} /\ RowInSchedule(wake[m])
      BY DEF TypeOK, ScheduleInv, RowsInSchedule
    <3>2. wake[m] # None => InSchedule(wake[m]) /\ wake[m].last <= Latest'
      BY <1>2, <3>1
    <3>3. wake'[m] # None => InSchedule(wake'[m]) /\ wake'[m].last <= Latest'
      BY <3>2
    <3> QED
      BY <3>3 DEF RowInSchedule
  <2>2. ASSUME NEW m \in Mailboxes, seen'.states # None
        PROVE  RowInSchedule(seen.states[m])'
    <3>1. seen' = seen
      BY <2>2 DEF NoSeen
    <3>2. /\ seen.states[m] \in WakeState \cup {None}
          /\ RowInSchedule(seen.states[m])
      BY <2>2, <3>1 DEF TypeOK, ScheduleInv, RowsInSchedule
    <3>3. seen.states[m] # None =>
            InSchedule(seen.states[m]) /\ seen.states[m].last <= Latest'
      BY <1>2, <3>2
    <3> QED
      BY <3>1, <3>3 DEF RowInSchedule
  <2> QED
    BY <2>1, <2>2 DEF RowsInSchedule
<1>4. CopiesInv'
  <2>1. ASSUME NEW m \in Mailboxes, rounds'[m] > 0
        PROVE  rounds'[m] = rounds[m] /\ wake'[m] = wake[m]
    BY <2>1 DEF RowsKept
  <2>2. seen'.states # None =>
          \A m \in Mailboxes : rounds'[m] > 0 => seen'.states[m] = wake'[m]
    BY <2>1 DEF ScheduleInv, CopiesInv, NoSeen
  <2>3. ASSUME NEW i \in Pending', rounds'[i.mailbox] > 0
        PROVE  i.state = wake'[i.mailbox]
    <3>1. i \in Pending /\ i.mailbox \in Mailboxes
      BY DEF Pending, CountInv, PassInv, TypeOK, Item
    <3> QED
      BY <2>1, <2>3, <3>1 DEF ScheduleInv, CopiesInv
  <2> QED
    BY <2>2, <2>3 DEF CopiesInv
<1>5. PendingEarned'
  <2> SUFFICES ASSUME Waking', NEW i \in Pending'
               PROVE  Earned(i)'
    BY DEF PendingEarned
  <2>1. Earned(i) /\ pass'.now = pass.now
    BY DEF ScheduleInv, PendingEarned
  <2>2. Counted(i)' = Counted(i)
    BY <2>1 DEF Counted
  <2> QED
    BY <2>1, <2>2 DEF Earned
<1> QED
  BY <1>3, <1>4, <1>5 DEF ScheduleInv

\* Rows that were read together make up wakes that are within the schedule.
LEMMA SeenInSchedule ==
  ASSUME TypeOK, TypeOK', CountInv, ScheduleInv, PassInv',
         NEW mailboxes, NEW states,
         Seen(mailboxes, states), pass.at = "reading",
         UNCHANGED <<now, store, item, rounds>>,
         \/ mailboxes = None
         \/ \E M \in SUBSET Mailboxes :
              /\ mailboxes \in [M -> Registration]
              /\ \A m \in M : /\ Whole(mailboxes[m])
                              /\ rounds[m] > 0 =>
                                   Expiry[mailboxes[m].token] = ExpiryOf(m),
         \/ states = None
         \/ /\ states \in [Mailboxes -> WakeState \cup {None}]
            /\ \A m \in Mailboxes : /\ RowInSchedule(states[m])
                                    /\ rounds[m] > 0 => states[m] = wake[m]
  PROVE  ScheduleInv'
<1>1. /\ now \in Nat /\ pass.now \in Nat /\ pass.now <= now /\ Latest = pass.now
      /\ reg' = reg /\ wake' = wake
  BY WakeTimesAssumption
     DEF ScheduleInv, TimesInv, Latest, TypeOK, Pass, Times, store
<1>2. ASSUME NEW row \in WakeState \cup {None}, RowInSchedule(row),
             Latest <= Latest'
      PROVE  RowInSchedule(row)'
  <2>1. row # None => row.last \in Nat
    BY WakeTimesAssumption DEF WakeState, Times
  <2>2. Latest' \in Nat
    BY WakeTimesAssumption DEF Latest, TypeOK, Pass, Times
  <2>3. row # None => InSchedule(row) /\ row.last <= Latest'
    BY <1>1, <1>2, <2>1, <2>2 DEF RowInSchedule
  <2> QED
    BY <2>3 DEF RowInSchedule
<1>3. CASE mailboxes = None \/ states = None
  <2>1. /\ seen' = [mailboxes |-> mailboxes, states |-> states]
        /\ UNCHANGED <<pass, due, item>>
    BY <1>3 DEF Seen
  <2>2. TimesInv'
    BY <1>1, <2>1 DEF ScheduleInv, TimesInv
  <2>3. Latest' = Latest
    BY <1>1, <2>1 DEF Latest
  <2>4. RowsInSchedule'
    BY <1>1, <2>1, <2>3 DEF ScheduleInv, RowsInSchedule, RowInSchedule
  <2>5. CopiesInv'
    BY <1>1, <2>1 DEF ScheduleInv, CopiesInv, Pending
  <2>6. PendingEarned'
    BY <2>1 DEF PendingEarned, Waking
  <2> QED
    BY <2>2, <2>4, <2>5, <2>6 DEF ScheduleInv
<1>4. CASE mailboxes # None /\ states # None
  <2>1. /\ seen' = NoSeen /\ due' = DueItems(mailboxes, states)
        /\ pass' = Continue(due', pass.left)
    BY <1>4 DEF Seen
  <2>2. PICK M \in SUBSET Mailboxes :
          /\ mailboxes \in [M -> Registration]
          /\ \A m \in M : /\ Whole(mailboxes[m])
                          /\ rounds[m] > 0 =>
                               Expiry[mailboxes[m].token] = ExpiryOf(m)
    BY <1>4
  <2>3. pass'.now = pass.now /\ Pending' = due'
    <3>1. MaxPerTick \in Nat /\ pass.left \in 0..MaxPerTick /\ pass \in Pass
      BY WakeSetsAssumption DEF TypeOK, Pass
    <3>2. pass'.at \in {"idle", "waking"}
      BY <2>1, <3>1, ContinueTyped
    <3>3. pass'.now = pass.now
      BY <2>1, <3>1 DEF Continue, Pass
    <3> QED
      BY <3>2, <3>3 DEF Pending
  <2>4. TimesInv'
    BY <1>1, <2>1, <2>3 DEF ScheduleInv, TimesInv, NoSeen
  <2>5. Latest <= Latest'
    BY <1>1, <2>3 DEF Latest
  <2>6. RowsInSchedule'
    <3>1. ASSUME NEW m \in Mailboxes
          PROVE  RowInSchedule(wake[m])'
      <4>1. wake[m] \in WakeState \cup {None} /\ RowInSchedule(wake[m])
        BY DEF TypeOK, ScheduleInv, RowsInSchedule
      <4> QED
        BY <1>1, <1>2, <2>5, <4>1 DEF RowInSchedule
    <3> QED
      BY <2>1, <3>1 DEF RowsInSchedule, NoSeen
  <2>7. ASSUME NEW i \in due'
        PROVE  /\ i \in Item /\ i.mailbox \in M
               /\ i.expiry = Expiry[mailboxes[i.mailbox].token]
               /\ i.state = IF /\ states[i.mailbox] # None
                               /\ states[i.mailbox].expiry = i.expiry
                            THEN states[i.mailbox] ELSE None
               /\ i.dueAt = NextWakeDueAt(i.expiry, i.state, pass.now,
                              WakeLead(i.expiry, mailboxes[i.mailbox].since))
               /\ i.dueAt <= pass.now
    BY <1>4, <2>1, <2>2, DueItemsTyped
  <2>8. ASSUME NEW i \in due'
        PROVE  Earned(i)
    <3> DEFINE since == mailboxes[i.mailbox].since
    <3>1. /\ mailboxes[i.mailbox] \in Registration /\ Whole(mailboxes[i.mailbox])
          /\ states[i.mailbox] \in WakeState \cup {None}
          /\ RowInSchedule(states[i.mailbox])
      BY <1>4, <2>2, <2>7
    <3>2. since \in Nat \cup {None} /\ (since = None \/ since % 8 = 0)
      BY <3>1, WakeTimesAssumption DEF Registration, Times, Whole
    <3>3. i.expiry % 8 = 0
      <4>1. mailboxes[i.mailbox].token \in Tokens /\ i.expiry \in Nat
        BY <2>7, <3>1 DEF Registration, Item
      <4> QED
        BY <2>7, <4>1, TimesAreWhole, WakeNoneAssumption
    <3>4. i.state # None => /\ InSchedule(i.state) /\ i.state.last <= pass.now
                            /\ i.state.expiry = i.expiry
      BY <1>1, <2>7, <3>1 DEF RowInSchedule
    <3> QED
      BY <2>7, <3>2, <3>3, <3>4, DueIsEarned
  <2>9. PendingEarned'
    <3>1. ASSUME NEW i \in due'
          PROVE  Earned(i)'
      <4>1. Counted(i)' = Counted(i)
        BY <2>3 DEF Counted
      <4> QED
        BY <2>3, <2>8, <4>1 DEF Earned
    <3> QED
      BY <2>3, <3>1 DEF PendingEarned
  <2>10. CopiesInv'
    <3>1. ASSUME NEW i \in due', rounds[i.mailbox] > 0
          PROVE  i.state = wake[i.mailbox]
      <4>1. i.mailbox \in Mailboxes /\ i.expiry = ExpiryOf(i.mailbox)
        BY <2>2, <2>7, <3>1
      <4>2. wake[i.mailbox] # None /\ wake[i.mailbox].expiry = ExpiryOf(i.mailbox)
        BY <3>1, <4>1 DEF CountInv, StoreCounts, CountsOf
      <4>3. states[i.mailbox] = wake[i.mailbox]
        BY <1>4, <3>1, <4>1
      <4> QED
        BY <2>7, <4>1, <4>2, <4>3
    <3> QED
      BY <1>1, <2>1, <2>3, <3>1 DEF CopiesInv, NoSeen
  <2> QED
    BY <2>4, <2>6, <2>9, <2>10 DEF ScheduleInv
<1> QED
  BY <1>3, <1>4

\* Going on after a device stays within the pass.
LEMMA EndItemKeepsTime ==
  ASSUME TypeOK, NEW todo, EndItem(todo)
  PROVE  pass'.now = pass.now
BY DEF EndItem, Continue, TypeOK, Pass

\* The wake that is counted was within the schedule, and the rest of the pass is
\* about other mailboxes.
LEMMA CountWakeInSchedule ==
  ASSUME TypeOK, TypeOK', CountInv, ScheduleInv, CountWake
  PROVE  ScheduleInv'
<1> DEFINE i == item.wakes
           m == i.mailbox
<1>1. /\ pass.at = "counting" /\ EndItem(item.todo)
      /\ UNCHANGED <<now, reg, devices, seen, due>>
      /\ wake' = [wake EXCEPT ![m] = IF reg[m] = None THEN @ ELSE Counted(i)]
      /\ rounds' = [rounds EXCEPT ![m] = IF ExpiryOf(m) = i.expiry THEN @ + 1 ELSE @]
  BY DEF CountWake
<1>2. i \in Item /\ m \in Mailboxes /\ i \in Pending /\ Waking /\ seen = NoSeen
  BY <1>1 DEF CountInv, PassInv, Item, Pending, Waking
<1>3. /\ pass'.now = pass.now /\ now' = now /\ pass.now <= now
      /\ pass.now \in Nat /\ now \in Nat /\ Latest = pass.now
      /\ Latest' \in {now, pass.now}
  <2>1. pass'.now = pass.now
    BY <1>1, EndItemKeepsTime
  <2> QED
    BY <1>1, <2>1, WakeTimesAssumption
       DEF ScheduleInv, TimesInv, TypeOK, Pass, Times, Latest
<1>4. TimesInv'
  BY <1>1, <1>2, <1>3 DEF ScheduleInv, TimesInv, NoSeen
<1>5. RowsInSchedule'
  <2>1. ASSUME NEW n \in Mailboxes
        PROVE  RowInSchedule(wake[n])'
    <3>1. CASE wake'[n] = wake[n]
      <4>1. RowInSchedule(wake[n])
        BY DEF ScheduleInv, RowsInSchedule
      <4>2. wake[n] # None => wake[n].last \in Nat
        BY WakeTimesAssumption DEF TypeOK, WakeState, Times
      <4>3. wake[n] # None => InSchedule(wake[n]) /\ wake[n].last <= Latest'
        BY <1>3, <4>1, <4>2 DEF RowInSchedule
      <4>4. wake'[n] # None => InSchedule(wake'[n]) /\ wake'[n].last <= Latest'
        BY <3>1, <4>3
      <4> QED
        BY <4>4 DEF RowInSchedule
    <3>2. CASE wake'[n] = Counted(i)
      <4>1. InSchedule(Counted(i))
        BY <1>2 DEF ScheduleInv, PendingEarned, Earned
      <4>2. Counted(i).last <= Latest'
        BY <1>3 DEF Counted
      <4>3. InSchedule(wake'[n]) /\ wake'[n].last <= Latest'
        BY <3>2, <4>1, <4>2
      <4> QED
        BY <4>3 DEF RowInSchedule
    <3>3. wake'[n] \in {wake[n], Counted(i)}
      BY <1>1, <1>2 DEF TypeOK
    <3> QED
      BY <3>1, <3>2, <3>3
  <2> QED
    BY <1>1, <1>2, <2>1 DEF RowsInSchedule, NoSeen
<1>6. Pending' = due /\ pass'.at # "counting"
  <2>1. item.todo \in SUBSET Devices /\ PassInv
    BY DEF TypeOK, CountInv
  <2>2. pass'.at \in {"idle", "waking", "sending"}
    BY <1>1, <2>1, EndItemTyped
  <2> QED
    BY <1>1, <2>2 DEF Pending
<1>7. \A j \in due : j \in Pending /\ j.mailbox \in Mailboxes /\ j.mailbox # m
  BY <1>1, <1>2 DEF CountInv, PendingOnce, Pending, TypeOK, Item
<1>8. CopiesInv'
  <2>1. \A n \in Mailboxes : n # m => wake'[n] = wake[n] /\ rounds'[n] = rounds[n]
    BY <1>1, <1>2 DEF TypeOK
  <2> QED
    BY <1>1, <1>2, <1>6, <1>7, <2>1 DEF ScheduleInv, CopiesInv, NoSeen
<1>9. PendingEarned'
  <2>1. ASSUME NEW j \in due
        PROVE  Earned(j)'
    <3>1. Earned(j)
      BY <1>2, <1>7 DEF ScheduleInv, PendingEarned
    <3>2. Counted(j)' = Counted(j)
      BY <1>3 DEF Counted
    <3> QED
      BY <1>3, <3>1, <3>2 DEF Earned
  <2> QED
    BY <1>6, <2>1 DEF PendingEarned
<1> QED
  BY <1>4, <1>5, <1>8, <1>9 DEF ScheduleInv

\* Only a pass that counts a wake writes a row.
LEMMA OthersKeepRows ==
  ASSUME TypeOK, CountInv, [Next]_vars, ~CountWake
  PROVE  RowsKept /\ \A m \in Mailboxes : wake'[m] \in {wake[m], None}
<1>1. NoWakeLeftovers
  BY DEF CountInv, StoreCounts
<1>2. CASE UNCHANGED store /\ rounds' = rounds
  BY <1>2 DEF RowsKept, ExpiryOf, store
<1>3. ASSUME NEW m \in Mailboxes, NEW d, DeleteMailbox(m) \/ UnregisterDevice(m, d)
      PROVE  RowsKept /\ \A n \in Mailboxes : wake'[n] \in {wake[n], None}
  <2>1. RowsKept
    BY <1>1, <1>3, DeletionKeepsRows
  <2>2. wake' = wake \/ wake' = [wake EXCEPT ![m] = None]
    BY <1>3 DEF UnregisterDevice, DeleteMailbox
  <2> QED
    BY <2>1, <2>2 DEF TypeOK
<1>4. ASSUME NEW m \in Mailboxes, NEW d \in Devices, NEW t \in Tokens,
             Register(m, d, t)
      PROVE  RowsKept /\ \A n \in Mailboxes : wake'[n] \in {wake[n], None}
  BY <1>1, <1>4, RegisterKeepsRows DEF Register
<1>5. CASE RemoveStale \/ PassFailsAfterRemoval
  <2>1. item.wakes.mailbox \in Mailboxes
    BY <1>5 DEF RemoveStale, PassFailsAfterRemoval, CountInv, PassInv, Item
  <2> QED
    BY <1>3, <1>5, <2>1 DEF RemoveStale, PassFailsAfterRemoval
<1>6. CASE \/ Tick \/ StartPass \/ ReadMailboxes \/ ReadStates
           \/ \E i \in due : GetDevices(i)
           \/ \E d \in Devices : Send(d) \/ SendStale(d)
           \/ PassFails \/ Restart \/ UNCHANGED vars
  BY <1>2, <1>6 DEF Tick, StartPass, ReadMailboxes, ReadStates, GetDevices, Send,
                    SendStale, PassFails, Restart, vars
<1>7. CASE \E m \in Mailboxes, d \in Devices : Unregister(m, d)
  BY <1>3, <1>7 DEF Unregister
<1>8. CASE \E m \in Mailboxes : Retain(m)
  BY <1>3, <1>8 DEF Retain
<1> QED
  BY <1>4, <1>5, <1>6, <1>7, <1>8 DEF Next, PassStep

\* Registrations keep whole times.
LEMMA RegistrationsWhole ==
  ASSUME TypeOK, ScheduleInv, [Next]_vars
  PROVE  \A m \in Mailboxes : reg'[m] # None => Whole(reg'[m])
<1>1. now % 8 = 0 /\ \A m \in Mailboxes : reg[m] # None => Whole(reg[m])
  BY DEF ScheduleInv, TimesInv
<1>2. CASE reg' = reg
  BY <1>1, <1>2
<1>3. CASE \E n : reg' = [reg EXCEPT ![n] = None]
  BY <1>1, <1>3 DEF TypeOK
<1>4. ASSUME NEW n \in Mailboxes, NEW d \in Devices, NEW t \in Tokens,
             Register(n, d, t), NEW m \in Mailboxes, reg'[m] # None
      PROVE  Whole(reg'[m])
  <2>1. reg'[m] \in {reg[m], [token |-> t, since |-> now]}
    BY <1>4 DEF Register, TypeOK
  <2>2. Whole([token |-> t, since |-> now])
    BY <1>1 DEF Whole
  <2> QED
    BY <1>1, <1>4, <2>1, <2>2
<1> QED
  BY <1>2, <1>3, <1>4 DEF Next, PassStep, Tick, Unregister, UnregisterDevice,
     DeleteMailbox, Retain, StartPass, ReadMailboxes, ReadStates, GetDevices,
     CountWake, Send, SendStale, RemoveStale, PassFails, PassFailsAfterRemoval,
     Restart, vars, store

\* Every step of the scheduler and around it keeps to the schedule.
LEMMA ScheduleStep ==
  ASSUME TypeOK, TypeOK', CountInv, CountInv', ScheduleInv, [Next]_vars
  PROVE  ScheduleInv'
<1>1. CASE CountWake
  BY <1>1, CountWakeInSchedule
<1>2. CASE ReadMailboxes
  <2> DEFINE registered == {m \in Mailboxes : reg[m] # None /\ devices[m] # {}}
             rows == [m \in registered |-> reg[m]]
  <2>1. /\ registered \in SUBSET Mailboxes /\ rows \in [registered -> Registration]
        /\ \A m \in registered : /\ Whole(rows[m])
                                 /\ rounds[m] > 0 =>
                                      Expiry[rows[m].token] = ExpiryOf(m)
    BY DEF TypeOK, ExpiryOf, ScheduleInv, TimesInv
  <2>2. \/ seen.states = None
        \/ /\ seen.states \in [Mailboxes -> WakeState \cup {None}]
           /\ \A m \in Mailboxes : /\ RowInSchedule(seen.states[m])
                                   /\ rounds[m] > 0 => seen.states[m] = wake[m]
    BY DEF TypeOK, ScheduleInv, RowsInSchedule, CopiesInv
  <2>3. /\ Seen(rows, seen.states) /\ pass.at = "reading"
        /\ UNCHANGED <<now, store, item, rounds>>
    BY <1>2 DEF ReadMailboxes
  <2>4. \E M \in SUBSET Mailboxes :
          /\ rows \in [M -> Registration]
          /\ \A m \in M : /\ Whole(rows[m])
                          /\ rounds[m] > 0 =>
                               Expiry[rows[m].token] = ExpiryOf(m)
    BY <2>1
  <2> HIDE DEF rows
  <2> QED
    BY <2>2, <2>3, <2>4, SeenInSchedule DEF CountInv
<1>3. CASE ReadStates
  <2>1. /\ Seen(seen.mailboxes, wake) /\ pass.at = "reading"
        /\ UNCHANGED <<now, store, item, rounds>>
    BY <1>3 DEF ReadStates
  <2>2. /\ wake \in [Mailboxes -> WakeState \cup {None}]
        /\ \A m \in Mailboxes : RowInSchedule(wake[m])
    BY DEF TypeOK, ScheduleInv, RowsInSchedule
  <2>3. \/ seen.mailboxes = None
        \/ \E M \in SUBSET Mailboxes :
             /\ seen.mailboxes \in [M -> Registration]
             /\ \A m \in M : /\ Whole(seen.mailboxes[m])
                             /\ rounds[m] > 0 =>
                                  Expiry[seen.mailboxes[m].token] = ExpiryOf(m)
    BY DEF TypeOK, CountInv, SeenCounts, ScheduleInv, TimesInv
  <2> QED
    BY <2>1, <2>2, <2>3, SeenInSchedule DEF CountInv
<1>4. /\ now \in Nat /\ pass.now \in Nat /\ pass.now <= now
      /\ Step \in Nat /\ Step % 8 = 0 /\ pass \in Pass
  BY WakeTimesAssumption DEF ScheduleInv, TimesInv, TypeOK, Pass, Times
<1>5. ASSUME ~CountWake, now' \in {now, now + Step}, pass'.now \in {0, pass.now, now},
             seen' = seen \/ seen' = NoSeen, Pending' \subseteq Pending,
             Latest <= Latest', Waking' => Waking /\ pass'.now = pass.now
      PROVE  ScheduleInv'
  <2>1. RowsKept /\ \A m \in Mailboxes : wake'[m] \in {wake[m], None}
    BY <1>5, OthersKeepRows
  <2>2. TimesInv'
    <3>1. now' % 8 = 0
      <4>1. now % 8 = 0
        BY DEF ScheduleInv, TimesInv
      <4>2. (now + Step) % 8 = 0
        BY <1>4, <4>1
      <4> QED
        BY <1>5, <4>1, <4>2
    <3>2. pass'.now <= now'
      BY <1>4, <1>5
    <3>3. seen'.mailboxes # None =>
            \A m \in DOMAIN seen'.mailboxes : Whole(seen'.mailboxes[m])
      BY <1>5 DEF ScheduleInv, TimesInv, NoSeen
    <3> QED
      BY <3>1, <3>2, <3>3, RegistrationsWhole DEF TimesInv
  <2> QED
    BY <1>5, <2>1, <2>2, KeptSchedule
<1>6. ASSUME ~CountWake, UNCHANGED memory, now' \in {now, now + Step}
      PROVE  ScheduleInv'
  <2>1. Pending' = Pending /\ Waking' = Waking /\ Latest <= Latest'
    BY <1>4, <1>6 DEF memory, Pending, Waking, Latest
  <2> QED
    BY <1>5, <1>6, <2>1 DEF memory
<1>7. CASE \/ UNCHANGED vars \/ Tick
           \/ \E m \in Mailboxes, d \in Devices :
                Unregister(m, d) \/ \E t \in Tokens : Register(m, d, t)
           \/ \E m \in Mailboxes : Retain(m)
  BY <1>1, <1>6, <1>7 DEF vars, Tick, Unregister, Register, Retain
<1>8. CASE StartPass
  <2>1. /\ pass.at = "idle" /\ pass'.at = "reading" /\ pass'.now = now
        /\ UNCHANGED <<now, seen, due, item>>
    BY <1>8 DEF StartPass
  <2>2. Pending' \subseteq Pending /\ Latest' = Latest /\ ~Waking'
    BY <2>1 DEF Pending, Latest, Waking
  <2> QED
    BY <1>1, <1>4, <1>5, <2>1, <2>2 DEF Latest
<1>9. ASSUME ~CountWake, UNCHANGED <<now, seen>>, pass'.now = pass.now, Waking,
             Pending' \subseteq Pending
      PROVE  ScheduleInv'
  <2>1. Latest = pass.now /\ Latest' \in {now, pass.now}
    BY <1>9 DEF Latest, Waking
  <2>2. Latest <= Latest'
    BY <1>4, <2>1
  <2> QED
    BY <1>5, <1>9, <2>2
<1>10. ASSUME NEW i \in due, GetDevices(i)
       PROVE  ScheduleInv'
  <2>1. /\ Waking /\ pass' = [pass EXCEPT !.at = "counting"] /\ due' = due \ {i}
        /\ item'.wakes = i /\ UNCHANGED <<now, seen>>
    BY <1>10 DEF GetDevices, Waking
  <2>2. pass'.now = pass.now /\ Pending' \subseteq Pending
    BY <1>4, <2>1 DEF Pending, Pass
  <2> QED
    BY <1>1, <1>9, <2>1, <2>2
<1>11. ASSUME NEW todo \in SUBSET Devices, EndItem(todo),
              pass.at \in {"sending", "removing"}, UNCHANGED <<now, seen, due>>
       PROVE  ScheduleInv'
  <2>1. pass'.now = pass.now /\ Waking
    BY <1>11, EndItemKeepsTime DEF Waking
  <2>2. pass'.at \in {"idle", "waking", "sending"}
    BY <1>11, EndItemTyped DEF CountInv
  <2>3. Pending' \subseteq Pending
    BY <1>11, <2>2 DEF Pending
  <2> QED
    BY <1>1, <1>9, <1>11, <2>1, <2>3
<1>12. CASE RemoveStale \/ \E d \in Devices : Send(d)
  <2>1. item.todo \in SUBSET Devices /\ \A d : item.todo \ {d} \in SUBSET Devices
    BY DEF TypeOK
  <2> QED
    BY <1>11, <1>12, <2>1 DEF RemoveStale, Send
<1>13. ASSUME NEW d \in Devices, SendStale(d)
       PROVE  ScheduleInv'
  <2>1. /\ Waking /\ pass' = [pass EXCEPT !.at = "removing"]
        /\ UNCHANGED <<now, seen, due>>
    BY <1>13 DEF SendStale, Waking
  <2>2. pass'.now = pass.now /\ Pending' \subseteq Pending
    BY <1>4, <2>1 DEF Pending, Pass
  <2> QED
    BY <1>1, <1>9, <2>1, <2>2
<1>14. CASE PassFails \/ PassFailsAfterRemoval \/ Restart
  <2>1. EndPass /\ now' = now
    BY <1>14 DEF PassFails, PassFailsAfterRemoval, Restart
  <2>2. /\ seen' = NoSeen /\ Pending' = {} /\ pass'.now = 0 /\ ~Waking'
        /\ Latest' = now
    BY <2>1 DEF EndPass, Pending, NoPass, Waking, Latest
  <2>3. Latest <= Latest'
    BY <1>4, <2>2 DEF Latest
  <2> QED
    BY <1>1, <1>5, <2>1, <2>2, <2>3
<1> QED
  BY <1>1, <1>2, <1>3, <1>7, <1>8, <1>10, <1>12, <1>13, <1>14 DEF Next, PassStep

\* The pass and the rows keep to the schedule throughout.
LEMMA ScheduleInvariant == Spec => []ScheduleInv
<1>1. Init => ScheduleInv
  <2> SUFFICES ASSUME Init PROVE ScheduleInv
    OBVIOUS
  <2>1. TimesInv
    <3>1. now % 8 = 0 /\ pass.now <= now
      BY WakeTimesAssumption DEF Init, NoPass
    <3>2. ASSUME NEW m \in Mailboxes, reg[m] # None
          PROVE  Whole(reg[m])
      BY <3>2 DEF Init, Whole
    <3> QED
      BY <3>1, <3>2 DEF Init, TimesInv, NoSeen
  <2>2. RowsInSchedule /\ CopiesInv
    BY DEF Init, RowsInSchedule, RowInSchedule, CopiesInv, NoSeen, Pending, NoPass
  <2>3. PendingEarned
    BY DEF Init, PendingEarned, Waking, NoPass
  <2> QED
    BY <2>1, <2>2, <2>3 DEF ScheduleInv
<1>2. /\ TypeOK /\ TypeOK' /\ CountInv /\ CountInv' /\ ScheduleInv /\ [Next]_vars
      => ScheduleInv'
  BY ScheduleStep
<1> QED
  BY <1>1, <1>2, WakeTypeCorrect, CountsInvariant, PTL DEF Spec

\* An authorization is woken for no more often than the schedule has wakes, over
\* crashes, errors and passes that work on what is no longer so.
THEOREM WakesWithinBound == Spec => []WakesBounded
<1>1. TypeOK /\ CountInv /\ ScheduleInv => WakesBounded
  <2> SUFFICES ASSUME TypeOK, CountInv, ScheduleInv, NEW m \in Mailboxes
               PROVE  rounds[m] <= MaxPre + PostAttempts
    BY DEF WakesBounded
  <2>1. MaxPre \in Nat /\ PostAttempts \in Nat /\ rounds[m] \in Nat
    BY MaxPreTyped, WakeSetsAssumption DEF TypeOK
  <2>2. CASE rounds[m] > 0
    <3>1. wake[m] # None /\ rounds[m] <= wake[m].pre + wake[m].post
      BY <2>2 DEF CountInv, StoreCounts, CountsOf
    <3>2. wake[m].pre \in Nat /\ wake[m].post \in Nat
      BY <3>1 DEF TypeOK, WakeState
    <3>3. wake[m].pre <= MaxPre /\ wake[m].post <= PostAttempts
      BY <3>1 DEF ScheduleInv, RowsInSchedule, RowInSchedule, InSchedule
    <3> QED
      BY <2>1, <3>1, <3>2, <3>3
  <2> QED
    BY <2>1, <2>2
<1> QED
  BY <1>1, WakeTypeCorrect, CountsInvariant, ScheduleInvariant, PTL

\* Two wakes for one authorization are never closer than the schedule has them.
THEOREM WakesKeepApart == Spec => WakesSpaced
<1> DEFINE Apart(m) == rounds[m] > 0 /\ rounds'[m] > rounds[m] =>
                         wake'[m].last - wake[m].last >= LeastGap(wake[m], wake'[m])
<1>1. TypeOK /\ CountInv /\ ScheduleInv /\ [Next]_vars => \A m \in Mailboxes : Apart(m)
  <2> SUFFICES ASSUME TypeOK, CountInv, ScheduleInv, [Next]_vars, NEW m \in Mailboxes,
                      rounds[m] > 0, rounds'[m] > rounds[m]
               PROVE  wake'[m].last - wake[m].last >= LeastGap(wake[m], wake'[m])
    OBVIOUS
  <2>1. CountWake
    <3> SUFFICES ASSUME ~CountWake PROVE FALSE
      OBVIOUS
    <3>1. rounds'[m] \in {0, rounds[m]} /\ rounds[m] \in Nat
      BY OthersKeepRows DEF RowsKept, TypeOK
    <3> QED
      BY <3>1
  <2> DEFINE i == item.wakes
  <2>2. /\ pass.at = "counting" /\ i \in Item /\ i \in Pending
        /\ i.mailbox \in Mailboxes /\ i.expiry \in Nat
    BY <2>1 DEF CountWake, CountInv, PassInv, Pending, Item
  <2>3. i.mailbox = m /\ ExpiryOf(m) = i.expiry
    <3>1. rounds' = [rounds EXCEPT ![i.mailbox] =
                       IF ExpiryOf(i.mailbox) = i.expiry THEN @ + 1 ELSE @]
      BY <2>1 DEF CountWake
    <3>2. rounds[m] \in Nat
      BY DEF TypeOK
    <3> QED
      BY <2>2, <3>1, <3>2 DEF TypeOK
  <2>4. wake'[m] = Counted(i)
    <3>1. reg[m] # None
      BY <2>2, <2>3, WakeNoneAssumption DEF ExpiryOf
    <3> QED
      BY <2>1, <2>2, <2>3, <3>1 DEF CountWake, TypeOK
  <2>5. i.state = wake[m] /\ i.state # None
    BY <2>2, <2>3 DEF ScheduleInv, CopiesInv, CountInv, StoreCounts, CountsOf
  <2>6. Earned(i)
    BY <2>2 DEF ScheduleInv, PendingEarned, Waking
  <2>7. Counted(i).last = pass.now
    BY DEF Counted
  <2> QED
    BY <2>4, <2>5, <2>6, <2>7 DEF Earned
<1> QED
  BY <1>1, WakeTypeCorrect, CountsInvariant, ScheduleInvariant, PTL
     DEF Spec, WakesSpaced

\* A mailbox is never woken for an authorization before it was registered, when the
\* minimum lead fits in (wakeLeadMs()).
THEOREM FirstWakeInTime == Spec => []FirstWakeAfterRegistration
<1>1. TypeOK => FirstWakeAfterRegistration
  <2> SUFFICES ASSUME TypeOK, NEW m \in Mailboxes,
                      ExpiryOf(m) # None, reg[m].since # None,
                      reg[m].since + MinLead <= ExpiryOf(m)
               PROVE  PreDueAt(ExpiryOf(m), None,
                               WakeLead(ExpiryOf(m), reg[m].since)) >= reg[m].since
    BY DEF FirstWakeAfterRegistration
  <2> DEFINE expiry == ExpiryOf(m)
             since  == reg[m].since
             lead   == WakeLead(expiry, since)
             quarter == (expiry - since) \div 4
  <2>1. /\ expiry \in Nat /\ since \in Nat /\ since # None
        /\ MinLead \in Nat /\ MaxLead \in Nat
    <3>1. reg[m] # None /\ expiry = Expiry[reg[m].token] /\ expiry # None
      BY DEF ExpiryOf
    <3>2. reg[m].token \in Tokens /\ since \in Times
      BY <3>1 DEF TypeOK, Registration
    <3> QED
      BY <3>1, <3>2, WakeTimesAssumption, WakeNoneAssumption DEF Times
  <2>2. since + MinLead <= expiry
    OBVIOUS
  <2> HIDE DEF expiry, since
  <2>3. lead \in Nat /\ lead <= expiry - since
    <3>1. CASE since >= expiry
      <4>1. lead = MinLead
        BY <3>1 DEF WakeLead
      <4> QED
        BY <2>1, <2>2, <4>1
    <3>2. CASE since < expiry
      <4> DEFINE larger == Max({MinLead, quarter})
      <4>1. quarter \in Nat /\ quarter <= expiry - since
        BY <2>1, <3>2
      <4> HIDE DEF quarter
      <4>2. larger = IF MinLead >= quarter THEN MinLead ELSE quarter
        BY <2>1, <4>1, TheLarger
      <4>3. lead = Min({MaxLead, larger})
        BY <2>1, <3>2 DEF WakeLead, quarter
      <4>4. larger \in Nat /\ larger <= expiry - since
        BY <2>1, <2>2, <4>1, <4>2
      <4> HIDE DEF larger, lead
      <4>5. lead = IF MaxLead <= larger THEN MaxLead ELSE larger
        BY <2>1, <4>3, <4>4, TheSmaller
      <4> QED
        BY <2>1, <4>4, <4>5
    <3> QED
      BY <2>1, <3>1, <3>2
  <2> HIDE DEF lead
  <2>4. PreDueAt(expiry, None, lead) = IF expiry - lead >= 0 THEN expiry - lead ELSE 0
    BY <2>1, <2>3, TheLarger DEF PreDueAt, Later
  <2>5. PreDueAt(expiry, None, lead) >= since
    BY <2>1, <2>3, <2>4
  <2> QED
    BY <2>5 DEF expiry, since, lead
<1> QED
  BY <1>1, WakeTypeCorrect, PTL
=============================================================================
