-------------------------- MODULE RelayStoreProofs --------------------------
(***************************************************************************)
(* Proofs about the checkpoint store: the statements of a transaction add  *)
(* up to one atomic write, for any mailboxes, devices, calls and faults.   *)
(***************************************************************************)
EXTENDS RelayStore, FiniteSetTheorems, SequenceTheorems, TLAPS

\* AtomicStore has its own copy of StoreRows, which says the same.
LEMMA EffectIsAtomic ==
  ASSUME NEW d, NEW w
  PROVE  Atomic!Effect(d, w) = Effect(d, w) /\ Atomic!Database = Database /\ Atomic!Writes = Writes
<1>1. \A S : Atomic!Cardinality(S) = Cardinality(S)
  BY DEF Atomic!Cardinality, Cardinality
<1>2. \A n, S : Atomic!kSubset(n, S) = kSubset(n, S)
  BY <1>1 DEF Atomic!kSubset, kSubset
<1>3. \A kept, new : Atomic!KeptWith(kept, new) = KeptWith(kept, new)
  BY <1>1, <1>2 DEF Atomic!KeptWith, KeptWith
<1>4. \A x, y : Atomic!Counting(x, y) = Counting(x, y)
  BY DEF Atomic!Counting, Counting
<1>5. \A x, M : Atomic!ClearAll(x, M) = ClearAll(x, M)
  BY DEF Atomic!ClearAll, ClearAll, Atomic!ClearDev, ClearDev,
  Atomic!ClearReg, ClearReg, Atomic!ClearCkpt, ClearCkpt, Atomic!ClearWake, ClearWake
<1>6. \A x, m, new, t : Atomic!Register(x, m, new, t) = Register(x, m, new, t)
  <2> TAKE x, m, new, t
  <2>1. Atomic!KeptWith(x.dev[m], new) = KeptWith(x.dev[m], new)
    BY <1>3
  <2> QED
    BY <2>1 DEF Atomic!Register, Register, Atomic!Counting, Counting
<1>7. \A x, m, old : Atomic!Unregister(x, m, old) = Unregister(x, m, old)
  BY <1>4, <1>5 DEF Atomic!Unregister, Unregister
<1>8. \A x, m, t : Atomic!DeleteMailbox(x, m, t) = DeleteMailbox(x, m, t)
  BY <1>5 DEF Atomic!DeleteMailbox, DeleteMailbox
<1>9. \A x : Atomic!DeleteOrphans(x) = DeleteOrphans(x)
  BY <1>5 DEF Atomic!DeleteOrphans, DeleteOrphans, Atomic!Orphans, Orphans
<1>10. \A x, m, c : Atomic!SetCheckpoint(x, m, c) = SetCheckpoint(x, m, c)
  BY DEF Atomic!SetCheckpoint, SetCheckpoint
<1>11. \A x, m : Atomic!SetWake(x, m) = SetWake(x, m)
  BY DEF Atomic!SetWake, SetWake
<1>12. Atomic!Effect(d, w) = Effect(d, w)
  BY <1>4, <1>6, <1>7, <1>8, <1>9, <1>10, <1>11 DEF Atomic!Effect, Effect
<1>13. Atomic!Database = Database /\ Atomic!Writes = Writes
  BY DEF Atomic!Database, Database, Atomic!Counters, Counters, Atomic!Writes, Writes
<1> QED
  BY <1>12, <1>13
-----------------------------------------------------------------------------
(* The tables *)

\* A database is its five tables.
LEMMA SameTables ==
  ASSUME NEW x \in Database, NEW y \in Database,
         x.dev = y.dev, x.reg = y.reg, x.ckpt = y.ckpt, x.wake = y.wake,
         x.stat = y.stat
  PROVE  x = y
BY DEF Database

\* And a table its rows.
LEMMA SameRows ==
  ASSUME NEW x \in Database, NEW y \in Database, x.stat = y.stat,
         \A m \in Mailboxes : /\ x.dev[m] = y.dev[m] /\ x.reg[m] = y.reg[m]
                               /\ x.ckpt[m] = y.ckpt[m] /\ (x.wake[m] <=> y.wake[m])
  PROVE  x = y
<1>1. /\ x.dev \in [Mailboxes -> SUBSET Devices] /\ y.dev \in [Mailboxes -> SUBSET Devices]
      /\ x.reg \in [Mailboxes -> Tokens \cup {None}] /\ y.reg \in [Mailboxes -> Tokens \cup {None}]
      /\ x.ckpt \in [Mailboxes -> Checkpoints \cup {None}]
      /\ y.ckpt \in [Mailboxes -> Checkpoints \cup {None}]
      /\ x.wake \in [Mailboxes -> BOOLEAN] /\ y.wake \in [Mailboxes -> BOOLEAN]
  BY DEF Database
<1>2. x.dev = y.dev /\ x.reg = y.reg /\ x.ckpt = y.ckpt
  BY <1>1
<1>3. \A m \in Mailboxes : x.wake[m] = y.wake[m]
  BY <1>1
<1>4. x.wake = y.wake
  BY <1>1, <1>3
<1> QED
  BY <1>2, <1>4, SameTables

\* What clearing the rows of some mailboxes from one table does.
LEMMA DevCleared ==
  ASSUME NEW x \in Database, NEW M
  PROVE  /\ ClearDev(x, M) \in Database
         /\ \A m \in Mailboxes : ClearDev(x, M).dev[m] = IF m \in M THEN {} ELSE x.dev[m]
         /\ ClearDev(x, M).reg = x.reg /\ ClearDev(x, M).ckpt = x.ckpt
         /\ ClearDev(x, M).wake = x.wake /\ ClearDev(x, M).stat = x.stat
<1>1. ClearDev(x, M) \in Database
  BY DEF Database, ClearDev
<1> QED
  BY <1>1 DEF Database, ClearDev

LEMMA RegCleared ==
  ASSUME NEW x \in Database, NEW M
  PROVE  /\ ClearReg(x, M) \in Database
         /\ \A m \in Mailboxes : ClearReg(x, M).reg[m] = IF m \in M THEN None ELSE x.reg[m]
         /\ ClearReg(x, M).dev = x.dev /\ ClearReg(x, M).ckpt = x.ckpt
         /\ ClearReg(x, M).wake = x.wake /\ ClearReg(x, M).stat = x.stat
<1>1. ClearReg(x, M) \in Database
  BY DEF Database, ClearReg
<1> QED
  BY <1>1 DEF Database, ClearReg

LEMMA CkptCleared ==
  ASSUME NEW x \in Database, NEW M
  PROVE  /\ ClearCkpt(x, M) \in Database
         /\ \A m \in Mailboxes : ClearCkpt(x, M).ckpt[m] = IF m \in M THEN None ELSE x.ckpt[m]
         /\ ClearCkpt(x, M).dev = x.dev /\ ClearCkpt(x, M).reg = x.reg
         /\ ClearCkpt(x, M).wake = x.wake /\ ClearCkpt(x, M).stat = x.stat
<1>1. ClearCkpt(x, M) \in Database
  BY DEF Database, ClearCkpt
<1> QED
  BY <1>1 DEF Database, ClearCkpt

LEMMA WakeCleared ==
  ASSUME NEW x \in Database, NEW M
  PROVE  /\ ClearWake(x, M) \in Database
         /\ \A m \in Mailboxes : ClearWake(x, M).wake[m] <=> m \notin M /\ x.wake[m]
         /\ ClearWake(x, M).dev = x.dev /\ ClearWake(x, M).reg = x.reg
         /\ ClearWake(x, M).ckpt = x.ckpt /\ ClearWake(x, M).stat = x.stat
<1>1. ClearWake(x, M) \in Database
  BY DEF Database, ClearWake
<1> QED
  BY <1>1 DEF Database, ClearWake

\* And from all of them.
LEMMA AllCleared ==
  ASSUME NEW x \in Database, NEW M
  PROVE  /\ ClearAll(x, M) \in Database
         /\ ClearAll(x, M).stat = x.stat
         /\ \A m \in Mailboxes :
              /\ ClearAll(x, M).dev[m] = IF m \in M THEN {} ELSE x.dev[m]
              /\ ClearAll(x, M).reg[m] = IF m \in M THEN None ELSE x.reg[m]
              /\ ClearAll(x, M).ckpt[m] = IF m \in M THEN None ELSE x.ckpt[m]
              /\ ClearAll(x, M).wake[m] <=> m \notin M /\ x.wake[m]
<1> DEFINE a == ClearDev(x, M)
           b == ClearReg(a, M)
           c == ClearCkpt(b, M)
           e == ClearWake(c, M)
<1>1. a \in Database /\ b \in Database /\ c \in Database /\ e \in Database
  BY DevCleared, RegCleared, CkptCleared, WakeCleared
<1>2. /\ \A m \in Mailboxes : a.dev[m] = IF m \in M THEN {} ELSE x.dev[m]
      /\ a.reg = x.reg /\ a.ckpt = x.ckpt /\ a.wake = x.wake /\ a.stat = x.stat
  BY DevCleared
<1> HIDE DEF a
<1>3. /\ \A m \in Mailboxes : b.reg[m] = IF m \in M THEN None ELSE a.reg[m]
      /\ b.dev = a.dev /\ b.ckpt = a.ckpt /\ b.wake = a.wake /\ b.stat = a.stat
  BY <1>1, RegCleared
<1> HIDE DEF b
<1>4. /\ \A m \in Mailboxes : c.ckpt[m] = IF m \in M THEN None ELSE b.ckpt[m]
      /\ c.dev = b.dev /\ c.reg = b.reg /\ c.wake = b.wake /\ c.stat = b.stat
  BY <1>1, CkptCleared
<1> HIDE DEF c
<1>5. /\ \A m \in Mailboxes : e.wake[m] <=> m \notin M /\ c.wake[m]
      /\ e.dev = c.dev /\ e.reg = c.reg /\ e.ckpt = c.ckpt /\ e.stat = c.stat
  BY <1>1, WakeCleared
<1>6. ClearAll(x, M) = e
  BY DEF ClearAll, a, b, c
<1> HIDE DEF e
<1> QED
  BY <1>1, <1>2, <1>3, <1>4, <1>5, <1>6

\* What counting does.
LEMMA Counted ==
  ASSUME NEW x \in Database, NEW c \in Counters
  PROVE  /\ Counting(x, c) \in Database
         /\ Counting(x, c).stat = [x.stat EXCEPT ![c] = @ + 1]
         /\ Counting(x, c).dev = x.dev /\ Counting(x, c).reg = x.reg
         /\ Counting(x, c).ckpt = x.ckpt /\ Counting(x, c).wake = x.wake
BY DEF Database, Counting

\* What changing the devices, or the authorization, of one mailbox does.
LEMMA DevicesSet ==
  ASSUME NEW x \in Database, NEW m \in Mailboxes, NEW D \in SUBSET Devices
  PROVE  LET e == [x EXCEPT !.dev[m] = D]
         IN /\ e \in Database /\ e.dev = [x.dev EXCEPT ![m] = D]
            /\ e.reg = x.reg /\ e.ckpt = x.ckpt /\ e.wake = x.wake /\ e.stat = x.stat
BY DEF Database

LEMMA AuthorizationSet ==
  ASSUME NEW x \in Database, NEW m \in Mailboxes, NEW t \in Tokens
  PROVE  LET e == [x EXCEPT !.reg[m] = t]
         IN /\ e \in Database /\ e.reg = [x.reg EXCEPT ![m] = t]
            /\ e.dev = x.dev /\ e.ckpt = x.ckpt /\ e.wake = x.wake /\ e.stat = x.stat
BY DEF Database

-----------------------------------------------------------------------------
(* The writes *)

\* The devices a registration leaves are devices, with the new one, and no
\* more than the limit allows.
LEMMA Kept ==
  ASSUME NEW D \in SUBSET Devices, NEW d \in Devices, NEW kept \in KeptWith(D, d), d \notin D
  PROVE  /\ kept \in SUBSET Devices /\ d \in kept
         /\ MaxDevices > 0 => Cardinality(kept) <= MaxDevices
<1>1. IsFiniteSet(D) /\ Cardinality(D) \in Nat /\ MaxDevices \in Nat
  BY FS_Subset, FS_CardinalityType, RowsAssumption
<1>2. CASE MaxDevices = 0 \/ Cardinality(D) < MaxDevices
  <2>1. kept = D \cup {d}
    BY <1>2 DEF KeptWith
  <2>2. Cardinality(kept) = Cardinality(D) + 1
    BY <1>1, <2>1, FS_AddElement
  <2> QED
    BY <1>1, <1>2, <2>1, <2>2
<1>3. CASE ~(MaxDevices = 0 \/ Cardinality(D) < MaxDevices)
  <2>1. PICK others \in SUBSET D : kept = others \cup {d} /\ Cardinality(others) = MaxDevices - 1
    BY <1>3 DEF KeptWith, kSubset
  <2>2. IsFiniteSet(others) /\ d \notin others
    BY <1>1, FS_Subset
  <2>3. Cardinality(kept) = Cardinality(others) + 1
    BY <2>1, <2>2, FS_AddElement
  <2> QED
    BY <1>1, <1>3, <2>1, <2>3
<1> QED
  BY <1>2, <1>3

\* What a registration does to the rows.
LEMMA DeviceRegistered ==
  ASSUME NEW x \in Database, NEW m \in Mailboxes, NEW d \in Devices, NEW t \in Tokens,
         NEW e \in Register(x, m, d, t)
  PROVE  /\ e \in Database
         /\ e.reg = [x.reg EXCEPT ![m] = t] /\ e.ckpt = x.ckpt /\ e.wake = x.wake
         /\ \/ d \in x.dev[m] /\ e.dev = x.dev
            \/ d \notin x.dev[m] /\ \E kept \in KeptWith(x.dev[m], d) :
                                     e.dev = [x.dev EXCEPT ![m] = kept]
<1> DEFINE stored == [x EXCEPT !.reg[m] = t]
<1>1. /\ stored \in Database /\ stored.reg = [x.reg EXCEPT ![m] = t]
      /\ stored.dev = x.dev /\ stored.ckpt = x.ckpt /\ stored.wake = x.wake
  BY AuthorizationSet
<1>2. CASE d \in x.dev[m]
  BY <1>1, <1>2 DEF Register
<1>3. CASE d \notin x.dev[m]
  <2>1. PICK kept \in KeptWith(x.dev[m], d) :
          e = Counting([stored EXCEPT !.dev[m] = kept], "registrations")
    BY <1>3 DEF Register
  <2>2. x.dev[m] \in SUBSET Devices
    BY DEF Database
  <2>3. kept \in SUBSET Devices
    BY <1>3, <2>2, Kept
  <2> DEFINE held == [stored EXCEPT !.dev[m] = kept]
  <2> HIDE DEF stored
  <2>4. /\ held \in Database /\ held.dev = [stored.dev EXCEPT ![m] = kept]
        /\ held.reg = stored.reg /\ held.ckpt = stored.ckpt /\ held.wake = stored.wake
    BY <1>1, <2>3, DevicesSet
  <2>5. e = Counting(held, "registrations")
    BY <2>1 DEF stored
  <2> HIDE DEF held
  <2>6. /\ e \in Database /\ e.dev = held.dev /\ e.reg = held.reg
        /\ e.ckpt = held.ckpt /\ e.wake = held.wake
    BY <2>4, <2>5, Counted DEF Counters
  <2> QED
    BY <1>1, <1>3, <2>4, <2>6
<1> QED
  BY <1>2, <1>3

\* What the end of a registration does to the rows.
LEMMA DeviceUnregistered ==
  ASSUME NEW x \in Database, NEW m \in Mailboxes, NEW d \in Devices
  PROVE  LET e == Unregister(x, m, d)
         IN /\ e \in Database
            /\ \A n \in Mailboxes \ {m} :
                 /\ e.dev[n] = x.dev[n] /\ e.reg[n] = x.reg[n]
                 /\ e.ckpt[n] = x.ckpt[n] /\ (e.wake[n] <=> x.wake[n])
            /\ e.dev[m] = x.dev[m] \ {d}
            /\ e.dev[m] # {} => /\ e.reg[m] = x.reg[m] /\ e.ckpt[m] = x.ckpt[m]
                               /\ (e.wake[m] <=> x.wake[m])
            /\ e.dev[m] = {} => e.reg[m] = None /\ e.ckpt[m] = None /\ ~e.wake[m]
<1> DEFINE removed == [x EXCEPT !.dev[m] = @ \ {d}]
           counted == IF d \in x.dev[m] THEN Counting(removed, "removals") ELSE removed
<1>1. x.dev[m] \in SUBSET Devices
  BY DEF Database
<1>2. /\ removed \in Database /\ removed.dev = [x.dev EXCEPT ![m] = x.dev[m] \ {d}]
      /\ removed.reg = x.reg /\ removed.ckpt = x.ckpt /\ removed.wake = x.wake
  <2>1. removed = [x EXCEPT !.dev[m] = x.dev[m] \ {d}]
    BY DEF Database
  <2> QED
    BY <1>1, <2>1, DevicesSet
<1>3. Unregister(x, m, d) = IF removed.dev[m] = {} THEN ClearAll(counted, {m}) ELSE counted
  BY DEF Unregister
<1> HIDE DEF removed
<1>4. /\ counted \in Database /\ counted.dev = removed.dev /\ counted.reg = removed.reg
      /\ counted.ckpt = removed.ckpt /\ counted.wake = removed.wake
  BY <1>2, Counted DEF Counters
<1> HIDE DEF counted
<1>5. x.dev \in [Mailboxes -> SUBSET Devices]
  BY DEF Database
<1>6. CASE removed.dev[m] = {}
  <2>1. Unregister(x, m, d) = ClearAll(counted, {m})
    BY <1>3, <1>6
  <2> QED
    BY <1>2, <1>4, <1>5, <1>6, <2>1, AllCleared
<1>7. CASE removed.dev[m] # {}
  <2>1. Unregister(x, m, d) = counted
    BY <1>3, <1>7
  <2> QED
    BY <1>2, <1>4, <1>5, <1>7, <2>1
<1> QED
  BY <1>6, <1>7

\* What storing a checkpoint or a time of the last wake does to the rows.
LEMMA CheckpointSet ==
  ASSUME NEW x \in Database, NEW m \in Mailboxes, NEW c \in Checkpoints
  PROVE  LET e == SetCheckpoint(x, m, c)
         IN /\ e \in Database /\ e.dev = x.dev /\ e.reg = x.reg /\ e.wake = x.wake
            /\ e.stat = x.stat
            /\ \A n \in Mailboxes : e.ckpt[n] # x.ckpt[n] => n = m /\ x.reg[n] # None
<1>1. SetCheckpoint(x, m, c) \in Database
  BY DEF Database, SetCheckpoint
<1> QED
  BY <1>1 DEF Database, SetCheckpoint

LEMMA WakeSet ==
  ASSUME NEW x \in Database, NEW m \in Mailboxes
  PROVE  LET e == SetWake(x, m)
         IN /\ e \in Database /\ e.dev = x.dev /\ e.reg = x.reg /\ e.ckpt = x.ckpt
            /\ e.stat = x.stat
            /\ \A n \in Mailboxes : x.wake[n] => e.wake[n]
            /\ \A n \in Mailboxes : e.wake[n] /\ ~x.wake[n] => n = m /\ x.reg[n] # None
<1>1. SetWake(x, m) \in Database
  BY DEF Database, SetWake
<1> QED
  BY <1>1 DEF Database, SetWake

\* Each kind of write by name: what it asks for and what it may turn x into.
LEMMA Kinds ==
  ASSUME NEW x, NEW w \in Writes, NEW e \in Effect(x, w)
  PROVE  \/ /\ w.kind = "register" /\ w.mailbox \in Mailboxes /\ w.device \in Devices
            /\ w.token \in Tokens /\ e \in Register(x, w.mailbox, w.device, w.token)
         \/ /\ w.kind = "unregister" /\ w.mailbox \in Mailboxes /\ w.device \in Devices
            /\ e = Unregister(x, w.mailbox, w.device)
         \/ /\ w.kind = "deleteMailbox" /\ w.mailbox \in Mailboxes /\ w.token \in Tokens
            /\ e \in {x, ClearAll(x, {w.mailbox})}
         \/ w.kind = "deleteOrphans" /\ e = ClearAll(x, Orphans(x))
         \/ /\ w.kind = "message" /\ w.mailbox \in Mailboxes /\ w.checkpoint \in Checkpoints
            /\ e = Counting(SetCheckpoint(x, w.mailbox, w.checkpoint), "messages")
         \/ /\ w.kind = "set" /\ w.mailbox \in Mailboxes /\ w.checkpoint \in Checkpoints
            /\ e = SetCheckpoint(x, w.mailbox, w.checkpoint)
         \/ w.kind = "wake" /\ w.mailbox \in Mailboxes /\ e = SetWake(x, w.mailbox)
<1>1. CASE w.kind = "register"
  <2>1. w.mailbox \in Mailboxes /\ w.device \in Devices /\ w.token \in Tokens
    BY <1>1 DEF Writes
  <2> QED
    BY <1>1, <2>1 DEF Effect
<1>2. CASE w.kind = "unregister"
  <2>1. w.mailbox \in Mailboxes /\ w.device \in Devices
    BY <1>2 DEF Writes
  <2> QED
    BY <1>2, <2>1 DEF Effect
<1>3. CASE w.kind = "deleteMailbox"
  <2>1. w.mailbox \in Mailboxes /\ w.token \in Tokens
    BY <1>3 DEF Writes
  <2> QED
    BY <1>3, <2>1 DEF Effect, DeleteMailbox
<1>4. CASE w.kind = "deleteOrphans"
  BY <1>4 DEF Effect, DeleteOrphans
<1>5. CASE w.kind \in {"message", "set"}
  <2>1. w.mailbox \in Mailboxes /\ w.checkpoint \in Checkpoints
    BY <1>5 DEF Writes
  <2> QED
    BY <1>5, <2>1 DEF Effect
<1>6. CASE w.kind = "wake"
  <2>1. w.mailbox \in Mailboxes
    BY <1>6 DEF Writes
  <2> QED
    BY <1>6, <2>1 DEF Effect
<1>7. w.kind \in {"register", "unregister", "deleteMailbox", "deleteOrphans", "message",
                  "set", "wake"}
  BY DEF Writes
<1> QED
  BY <1>1, <1>2, <1>3, <1>4, <1>5, <1>6, <1>7

\* A write turns a database into a database, none of whose orphans is new, and
\* a mailbox that gained a device has no more of them than allowed.
LEMMA WriteEffect ==
  ASSUME NEW x \in Database, NEW w \in Writes, NEW e \in Effect(x, w)
  PROVE  /\ e \in Database
         /\ Orphans(e) \subseteq Orphans(x)
         /\ \A m \in Mailboxes :
              MaxDevices > 0 /\ Cardinality(e.dev[m]) > Cardinality(x.dev[m])
                => Cardinality(e.dev[m]) <= MaxDevices
<1>0. \A n \in Mailboxes : x.dev[n] \in SUBSET Devices
  BY DEF Database
<1>1. \A n \in Mailboxes : /\ IsFiniteSet(x.dev[n]) /\ Cardinality(x.dev[n]) \in Nat
  BY <1>0, FS_Subset, FS_CardinalityType, RowsAssumption
<1>2. \A n \in Mailboxes : \A D \in SUBSET x.dev[n] :
        /\ Cardinality(D) \in Nat /\ ~(Cardinality(D) > Cardinality(x.dev[n]))
  BY <1>1, FS_Subset, FS_CardinalityType
<1>3. \A M : /\ ClearAll(x, M) \in Database
            /\ Orphans(ClearAll(x, M)) \subseteq Orphans(x)
            /\ \A n \in Mailboxes : ClearAll(x, M).dev[n] \in {{}, x.dev[n]}
  <2> TAKE M
  <2> DEFINE c == ClearAll(x, M)
  <2>1. /\ c \in Database
        /\ \A m \in Mailboxes :
             /\ c.dev[m] = IF m \in M THEN {} ELSE x.dev[m]
             /\ c.reg[m] = IF m \in M THEN None ELSE x.reg[m]
             /\ c.ckpt[m] = IF m \in M THEN None ELSE x.ckpt[m]
             /\ c.wake[m] <=> m \notin M /\ x.wake[m]
    BY AllCleared
  <2> HIDE DEF c
  <2>2. Orphans(c) \subseteq Orphans(x)
    BY <2>1 DEF Orphans
  <2> QED
    BY <2>1, <2>2 DEF c
<1>4. CASE w.kind = "register"
  <2>1. /\ w.mailbox \in Mailboxes /\ w.device \in Devices /\ w.token \in Tokens
        /\ e \in Register(x, w.mailbox, w.device, w.token)
    BY <1>4, Kinds
  <2> DEFINE m == w.mailbox  d == w.device  t == w.token
  <2>2. m \in Mailboxes /\ d \in Devices /\ t \in Tokens /\ t # None
    BY <2>1, RowsAssumption
  <2>3. /\ e \in Database
        /\ e.reg = [x.reg EXCEPT ![m] = t] /\ e.ckpt = x.ckpt /\ e.wake = x.wake
        /\ \/ d \in x.dev[m] /\ e.dev = x.dev
           \/ d \notin x.dev[m] /\ \E kept \in KeptWith(x.dev[m], d) :
                                    e.dev = [x.dev EXCEPT ![m] = kept]
    BY <2>1, DeviceRegistered
  <2> HIDE DEF m, d, t
  <2>4. /\ x.dev \in [Mailboxes -> SUBSET Devices] /\ x.reg \in [Mailboxes -> Tokens \cup {None}]
    BY DEF Database
  <2>5. CASE d \in x.dev[m] /\ e.dev = x.dev
    BY <1>2, <2>2, <2>3, <2>4, <2>5 DEF Orphans
  <2>6. CASE d \notin x.dev[m] /\ \E kept \in KeptWith(x.dev[m], d) :
                                    e.dev = [x.dev EXCEPT ![m] = kept]
    <3>1. PICK kept \in KeptWith(x.dev[m], d) : e.dev = [x.dev EXCEPT ![m] = kept]
      BY <2>6
    <3>2. d \in kept /\ (MaxDevices > 0 => Cardinality(kept) <= MaxDevices)
      BY <1>0, <2>2, <2>6, Kept
    <3>3. e.dev[m] = kept /\ \A n \in Mailboxes \ {m} : e.dev[n] = x.dev[n]
      BY <2>2, <2>4, <3>1
    <3>4. Orphans(e) \subseteq Orphans(x)
      BY <2>2, <2>3, <2>4, <3>2, <3>3 DEF Orphans
    <3> QED
      BY <1>2, <2>3, <3>2, <3>3, <3>4
  <2> QED
    BY <2>3, <2>5, <2>6
<1>5. CASE w.kind = "unregister"
  <2>1. w.mailbox \in Mailboxes /\ w.device \in Devices /\ e = Unregister(x, w.mailbox, w.device)
    BY <1>5, Kinds
  <2> DEFINE m == w.mailbox
  <2>2. /\ e \in Database
        /\ \A n \in Mailboxes \ {m} :
             /\ e.dev[n] = x.dev[n] /\ e.reg[n] = x.reg[n]
             /\ e.ckpt[n] = x.ckpt[n] /\ (e.wake[n] <=> x.wake[n])
        /\ e.dev[m] = x.dev[m] \ {w.device}
        /\ e.dev[m] # {} => /\ e.reg[m] = x.reg[m] /\ e.ckpt[m] = x.ckpt[m]
                           /\ (e.wake[m] <=> x.wake[m])
        /\ e.dev[m] = {} => e.reg[m] = None /\ e.ckpt[m] = None /\ ~e.wake[m]
    BY <2>1, DeviceUnregistered
  <2> HIDE DEF m
  <2>3. Orphans(e) \subseteq Orphans(x)
    BY <2>2 DEF Orphans
  <2>4. \A n \in Mailboxes : e.dev[n] \in SUBSET x.dev[n]
    BY <2>2
  <2> QED
    BY <1>2, <2>2, <2>3, <2>4
<1>6. CASE w.kind \in {"deleteMailbox", "deleteOrphans"}
  <2>1. e = x \/ \E M : e = ClearAll(x, M)
    BY <1>6, Kinds
  <2>2. CASE e = x
    BY <1>2, <2>2
  <2>3. CASE \E M : e = ClearAll(x, M)
    <3>1. /\ e \in Database /\ Orphans(e) \subseteq Orphans(x)
          /\ \A n \in Mailboxes : e.dev[n] \in {{}, x.dev[n]}
      <4>1. PICK M : e = ClearAll(x, M)
        BY <2>3
      <4> DEFINE c == ClearAll(x, M)
      <4>2. /\ c \in Database /\ Orphans(c) \subseteq Orphans(x)
            /\ \A n \in Mailboxes : c.dev[n] \in {{}, x.dev[n]}
        BY <1>3
      <4> QED
        BY <4>1, <4>2
    <3>2. \A n \in Mailboxes : e.dev[n] \in SUBSET x.dev[n]
      BY <3>1
    <3> QED
      BY <1>2, <3>1, <3>2
  <2> QED
    BY <2>1, <2>2, <2>3
<1>7. CASE w.kind \in {"message", "set", "wake"}
  <2>1. e \in Database /\ e.dev = x.dev /\ Orphans(e) \subseteq Orphans(x)
    <3>1. CASE w.kind \in {"message", "set"}
      <4>1. /\ w.mailbox \in Mailboxes /\ w.checkpoint \in Checkpoints
            /\ e \in {SetCheckpoint(x, w.mailbox, w.checkpoint),
                     Counting(SetCheckpoint(x, w.mailbox, w.checkpoint), "messages")}
        BY <3>1, Kinds
      <4> DEFINE s == SetCheckpoint(x, w.mailbox, w.checkpoint)
      <4>2. /\ s \in Database /\ s.dev = x.dev /\ s.reg = x.reg /\ s.wake = x.wake
            /\ \A n \in Mailboxes : s.ckpt[n] # x.ckpt[n] => x.reg[n] # None
        BY <4>1, CheckpointSet
      <4>3. e = s \/ e = Counting(s, "messages")
        BY <4>1
      <4> HIDE DEF s
      <4>4. e \in Database /\ e.dev = s.dev /\ e.reg = s.reg /\ e.wake = s.wake /\ e.ckpt = s.ckpt
        BY <4>2, <4>3, Counted DEF Counters
      <4> QED
        BY <4>2, <4>4 DEF Orphans
    <3>2. CASE w.kind = "wake"
      <4>1. w.mailbox \in Mailboxes /\ e = SetWake(x, w.mailbox)
        BY <3>2, Kinds
      <4>2. /\ e \in Database /\ e.dev = x.dev /\ e.reg = x.reg /\ e.ckpt = x.ckpt
            /\ \A n \in Mailboxes : e.wake[n] /\ ~x.wake[n] => x.reg[n] # None
        BY <4>1, WakeSet
      <4> QED
        BY <4>2 DEF Orphans
    <3> QED
      BY <1>7, <3>1, <3>2
  <2> QED
    BY <1>2, <2>1
<1> QED
  BY <1>4, <1>5, <1>6, <1>7, Kinds

\* The four statements of the retention job leave what clearing the orphans
\* leaves.
LEMMA SweptInSteps ==
  ASSUME NEW x \in Database
  PROVE  LET a == ClearReg(x, Mailboxes \ WithDevices(x))
             b == ClearDev(a, Mailboxes \ Registered(a))
             c == ClearCkpt(b, Mailboxes \ Registered(b))
             e == ClearWake(c, Mailboxes \ Registered(c))
         IN a \in Database /\ b \in Database /\ c \in Database /\ e = DeleteOrphans(x)
<1> DEFINE a == ClearReg(x, Mailboxes \ WithDevices(x))
           b == ClearDev(a, Mailboxes \ Registered(a))
           c == ClearCkpt(b, Mailboxes \ Registered(b))
           e == ClearWake(c, Mailboxes \ Registered(c))
           o == ClearAll(x, Orphans(x))
<1>1. /\ a \in Database
      /\ \A m \in Mailboxes : a.reg[m] = IF m \notin WithDevices(x) THEN None ELSE x.reg[m]
      /\ a.dev = x.dev /\ a.ckpt = x.ckpt /\ a.wake = x.wake /\ a.stat = x.stat
  BY RegCleared
<1> HIDE DEF a
<1>2. /\ b \in Database
      /\ \A m \in Mailboxes : b.dev[m] = IF m \notin Registered(a) THEN {} ELSE a.dev[m]
      /\ b.reg = a.reg /\ b.ckpt = a.ckpt /\ b.wake = a.wake /\ b.stat = a.stat
  BY <1>1, DevCleared
<1> HIDE DEF b
<1>3. /\ c \in Database
      /\ \A m \in Mailboxes : c.ckpt[m] = IF m \notin Registered(b) THEN None ELSE b.ckpt[m]
      /\ c.dev = b.dev /\ c.reg = b.reg /\ c.wake = b.wake /\ c.stat = b.stat
  BY <1>2, CkptCleared
<1> HIDE DEF c
<1>4. /\ e \in Database
      /\ \A m \in Mailboxes : e.wake[m] <=> m \in Registered(c) /\ c.wake[m]
      /\ e.dev = c.dev /\ e.reg = c.reg /\ e.ckpt = c.ckpt /\ e.stat = c.stat
  BY <1>3, WakeCleared
<1> HIDE DEF e
<1>5. /\ o \in Database /\ o.stat = x.stat
      /\ \A m \in Mailboxes :
           /\ o.dev[m] = IF m \in Orphans(x) THEN {} ELSE x.dev[m]
           /\ o.reg[m] = IF m \in Orphans(x) THEN None ELSE x.reg[m]
           /\ o.ckpt[m] = IF m \in Orphans(x) THEN None ELSE x.ckpt[m]
           /\ o.wake[m] <=> m \notin Orphans(x) /\ x.wake[m]
  BY AllCleared
<1> HIDE DEF o
<1>6. \A m \in Mailboxes : /\ e.dev[m] = o.dev[m] /\ e.reg[m] = o.reg[m]
                           /\ e.ckpt[m] = o.ckpt[m] /\ (e.wake[m] <=> o.wake[m])
  <2> TAKE m \in Mailboxes
  <2> DEFINE kept == x.reg[m] # None /\ x.dev[m] # {}
  <2>1. m \in Registered(a) <=> kept
    BY <1>1 DEF Registered, WithDevices
  <2>2. Registered(b) = Registered(a) /\ Registered(c) = Registered(a)
    BY <1>2, <1>3 DEF Registered
  <2>3. m \in Orphans(x) <=> /\ ~kept
                            /\ \/ x.reg[m] # None \/ x.dev[m] # {}
                               \/ x.ckpt[m] # None \/ x.wake[m]
    BY DEF Orphans
  <2>4. a.reg[m] = None <=> ~kept
    BY <1>1, <2>1 DEF Registered
  <2> HIDE DEF kept
  <2>5. e.ckpt[m] = IF kept THEN x.ckpt[m] ELSE None
    BY <1>1, <1>2, <1>3, <1>4, <2>1, <2>2
  <2>6. e.dev[m] = IF kept THEN x.dev[m] ELSE {}
    BY <1>1, <1>2, <1>3, <1>4, <2>1, <2>2
  <2>7. e.wake[m] <=> kept /\ x.wake[m]
    BY <1>1, <1>2, <1>3, <1>4, <2>1, <2>2
  <2>8. e.reg[m] = IF kept THEN x.reg[m] ELSE None
    BY <1>1, <1>2, <1>3, <1>4, <2>4 DEF kept, WithDevices
  <2> QED
    BY <1>5, <2>3, <2>5, <2>6, <2>7, <2>8
<1>7. e.stat = o.stat
  BY <1>1, <1>2, <1>3, <1>4, <1>5
<1>8. e = o
  BY <1>4, <1>5, <1>6, <1>7, SameRows
<1> QED
  BY <1>1, <1>2, <1>3, <1>8 DEF DeleteOrphans, a, b, c, e, o

\* Clearing the registration first makes no difference.
LEMMA ClearedTwice ==
  ASSUME NEW x \in Database, NEW M
  PROVE  ClearAll(ClearReg(x, M), M) = ClearAll(x, M)
<1> DEFINE a == ClearReg(x, M)  p == ClearAll(a, M)  q == ClearAll(x, M)
<1>1. /\ a \in Database
      /\ \A m \in Mailboxes : a.reg[m] = IF m \in M THEN None ELSE x.reg[m]
      /\ a.dev = x.dev /\ a.ckpt = x.ckpt /\ a.wake = x.wake /\ a.stat = x.stat
  BY RegCleared
<1>2. /\ q \in Database /\ q.stat = x.stat
      /\ \A m \in Mailboxes :
           /\ q.dev[m] = IF m \in M THEN {} ELSE x.dev[m]
           /\ q.reg[m] = IF m \in M THEN None ELSE x.reg[m]
           /\ q.ckpt[m] = IF m \in M THEN None ELSE x.ckpt[m]
           /\ q.wake[m] <=> m \notin M /\ x.wake[m]
  BY AllCleared
<1> HIDE DEF a, q
<1>3. /\ p \in Database /\ p.stat = a.stat
      /\ \A m \in Mailboxes :
           /\ p.dev[m] = IF m \in M THEN {} ELSE a.dev[m]
           /\ p.reg[m] = IF m \in M THEN None ELSE a.reg[m]
           /\ p.ckpt[m] = IF m \in M THEN None ELSE a.ckpt[m]
           /\ p.wake[m] <=> m \notin M /\ a.wake[m]
  BY <1>1, AllCleared
<1> HIDE DEF p
<1>4. p = q
  BY <1>1, <1>2, <1>3, SameRows
<1> QED
  BY <1>4 DEF a, p, q

-----------------------------------------------------------------------------
(* How far a transaction is *)

Stored == [disk EXCEPT !.reg[Asks.mailbox] = Asks.token]
Added  == [Stored EXCEPT !.dev[Asks.mailbox] = @ \cup {Asks.device}]
Left   == [disk EXCEPT !.dev[Asks.mailbox] = @ \ {Asks.device}]
LeftAndCounted ==
  IF Asks.device \in disk.dev[Asks.mailbox] THEN Counting(Left, "removals") ELSE Left
Swept1 == ClearReg(disk, Mailboxes \ WithDevices(disk))
Swept2 == ClearDev(Swept1, Mailboxes \ Registered(Swept1))
Swept3 == ClearCkpt(Swept2, Mailboxes \ Registered(Swept2))

\* What the rows of the mailbox are taken from.
Base == IF Asks.kind = "unregister" THEN LeftAndCounted ELSE ClearReg(disk, {Asks.mailbox})
Goner == {Asks.mailbox}
Deleting ==
  \/ Asks.kind = "unregister" /\ Left.dev[Asks.mailbox] = {}
  \/ Asks.kind = "deleteMailbox" /\ disk.reg[Asks.mailbox] = Asks.token

\* The statements of each transaction so far, on the committed database.
Progressed ==
  /\ at = "idle" => db = disk
  /\ at \in {"setMailbox", "insertDevice", "updateDevice", "countDevice", "evict"}
       => Asks.kind = "register"
  /\ at = "setMailbox" => db = disk
  /\ at = "insertDevice" => db = Stored
  /\ at = "updateDevice" => db = Stored /\ Asks.device \in disk.dev[Asks.mailbox]
  /\ at \in {"countDevice", "evict"} => Asks.device \notin disk.dev[Asks.mailbox]
  /\ at = "countDevice" => db = Added
  /\ at = "evict" => db = Counting(Added, "registrations") /\ MaxDevices > 0
  /\ at \in {"deleteDevice", "countRemoval", "checkRemaining"} => Asks.kind = "unregister"
  /\ at = "deleteDevice" => db = disk
  /\ at = "countRemoval" => db = Left /\ Asks.device \in disk.dev[Asks.mailbox]
  /\ at = "checkRemaining" => db = LeftAndCounted
  /\ at = "deleteIfToken" => Asks.kind = "deleteMailbox" /\ db = disk
  /\ at \in {"clearDev", "clearReg", "clearCkpt", "clearWake"} => Deleting
  /\ at = "clearDev" => db = Base
  /\ at = "clearReg" => db = ClearDev(Base, Goner)
  /\ at = "clearCkpt" => db = ClearReg(ClearDev(Base, Goner), Goner)
  /\ at = "clearWake" => db = ClearCkpt(ClearReg(ClearDev(Base, Goner), Goner), Goner)
  /\ at \in {"orphanReg", "orphanDev", "orphanCkpt", "orphanWake"}
       => Asks.kind = "deleteOrphans"
  /\ at = "orphanReg" => db = disk
  /\ at = "orphanDev" => db = Swept1
  /\ at = "orphanCkpt" => db = Swept2
  /\ at = "orphanWake" => db = Swept3
  /\ at \in {"setCheckpoint", "countMessage"} => Asks.kind = "message"
  /\ at = "setCheckpoint" => db = disk
  /\ at = "countMessage" => db = SetCheckpoint(disk, Asks.mailbox, Asks.checkpoint)
  /\ at = "commit" => db \in Effect(disk, Asks)

\* Calls in the queue have been made.
QueuedAsked ==
  \A i \in 1..Len(queue) : status[queue[i]] # "unused" /\ write[queue[i]] \in Writes

StoreInv ==
  /\ TypeOK
  /\ QueuedAsked
  /\ at # "idle" => queue # <<>>
  /\ Progressed

-----------------------------------------------------------------------------
(* Every statement keeps to it *)

\* The running call is a write with the arguments of its kind.
LEMMA RunningCall ==
  ASSUME StoreInv, queue # <<>>
  PROVE  /\ Running \in Requests /\ Asks \in Writes
         /\ status[Running] # "unused"
         /\ Asks.kind \in {"register", "unregister", "deleteMailbox", "message", "set", "wake"}
              => Asks.mailbox \in Mailboxes
         /\ Asks.kind \in {"register", "unregister"} => Asks.device \in Devices
         /\ Asks.kind \in {"register", "deleteMailbox"} => Asks.token \in Tokens
         /\ Asks.kind \in {"message", "set"} => Asks.checkpoint \in Checkpoints
<1>1. queue \in Seq(Requests)
  BY DEF StoreInv, TypeOK
<1>2. Running \in Requests /\ Len(queue) >= 1 /\ Running = queue[1] /\ Len(queue) \in Nat
  BY <1>1, HeadTailProperties, EmptySeq DEF Running
<1>3. Asks \in Writes /\ status[Running] # "unused"
  BY <1>2 DEF StoreInv, QueuedAsked, Asks
<1> QED
  BY <1>2, <1>3 DEF Writes

\* What the progress is measured by depends on the committed database and the
\* running call only.
LEMMA SameMeasure ==
  ASSUME UNCHANGED <<disk, calls>>
  PROVE  /\ Asks' = Asks /\ Running' = Running
         /\ Stored' = Stored /\ Added' = Added
         /\ Left' = Left /\ LeftAndCounted' = LeftAndCounted /\ Base' = Base /\ Goner' = Goner
         /\ Swept1' = Swept1 /\ Swept2' = Swept2 /\ Swept3' = Swept3
         /\ Deleting' = Deleting
<1>1. disk' = disk /\ Asks' = Asks /\ Running' = Running
  BY DEF calls, Asks, Running
<1>2. Stored' = Stored
  BY <1>1 DEF Stored
<1>3. Left' = Left
  BY <1>1 DEF Left
<1>4. LeftAndCounted' = LeftAndCounted
  BY <1>1, <1>3 DEF LeftAndCounted
<1>5. Goner' = Goner
  BY <1>1 DEF Goner
<1>6. Swept1' = Swept1
  BY <1>1 DEF Swept1
<1>7. Swept2' = Swept2
  BY <1>6 DEF Swept2
<1>8. Swept3' = Swept3
  BY <1>7 DEF Swept3
<1>9. Added' = Added
  BY <1>1, <1>2 DEF Added
<1>10. Base' = Base
  BY <1>1, <1>4 DEF Base
<1>11. Deleting' = Deleting
  BY <1>1, <1>3 DEF Deleting
<1> QED
  BY <1>1, <1>2, <1>3, <1>4, <1>5, <1>6, <1>7, <1>8, <1>9, <1>10, <1>11

\* A statement that succeeds keeps the invariant, if the progress it makes is
\* the right one.
LEMMA StatementStep ==
  ASSUME StoreInv, at # "idle", UNCHANGED <<disk, calls, open>>,
         db' \in Database, at' \in Statements \ {"idle"}, Progressed'
  PROVE  StoreInv'
<1>1. TypeOK'
  BY DEF StoreInv, TypeOK, calls
<1>2. QueuedAsked'
  BY DEF StoreInv, QueuedAsked, calls
<1> QED
  BY <1>1, <1>2 DEF StoreInv, calls

\* registerDevice()'s statements.
LEMMA RegisterSteps ==
  ASSUME StoreInv, SetMailbox \/ InsertDevice \/ UpdateDevice \/ CountDevice \/ Evict
  PROVE  StoreInv'
<1> USE DEF Run, Goes
<1>1. at # "idle" /\ UNCHANGED <<disk, calls, open>> /\ queue # <<>> /\ Asks.kind = "register"
  BY DEF SetMailbox, InsertDevice, UpdateDevice, CountDevice, Evict, StoreInv, Progressed
<1>2. Asks.mailbox \in Mailboxes /\ Asks.device \in Devices /\ Asks.token \in Tokens
  BY <1>1, RunningCall
<1>3. db \in Database /\ disk \in Database /\ Progressed
  BY DEF StoreInv, TypeOK
<1>4. /\ Asks' = Asks /\ Stored' = Stored /\ Added' = Added /\ disk' = disk
  BY <1>1, SameMeasure
<1>5. \A m \in Mailboxes : db.dev[m] \in SUBSET Devices /\ disk.dev[m] \in SUBSET Devices
  BY <1>3 DEF Database
<1>6. Stored.dev = disk.dev /\ Stored \in Database
  BY <1>2, <1>3, AuthorizationSet DEF Stored
<1> DEFINE Effects == Effect(disk, Asks)
<1>7. Effects = Register(disk, Asks.mailbox, Asks.device, Asks.token)
  BY <1>1 DEF Effect
<1>8. Effects' = Effects
  BY <1>4
<1>9. \A kept : Asks.device \notin disk.dev[Asks.mailbox]
                 /\ kept \in KeptWith(disk.dev[Asks.mailbox], Asks.device)
        => Counting([Stored EXCEPT !.dev[Asks.mailbox] = kept], "registrations") \in Effects
  BY <1>7 DEF Register, Stored
<1> HIDE DEF Effects
<1> SUFFICES db' \in Database /\ at' \in Statements \ {"idle"} /\ Progressed'
  BY <1>1, StatementStep
<1>a. CASE SetMailbox
  <2>1. db' = Stored /\ at' = "insertDevice"
    BY <1>3, <1>a DEF SetMailbox, Stored, Progressed
  <2> QED
    BY <1>1, <1>4, <1>6, <2>1 DEF Progressed, Statements
<1>b. CASE InsertDevice
  <2>1. /\ at = "insertDevice" /\ db = Stored
        /\ at' = IF Asks.device \in db.dev[Asks.mailbox] THEN "updateDevice" ELSE "countDevice"
    BY <1>3, <1>b DEF InsertDevice, Progressed
  <2>2. db' = Added
    BY <2>1, <1>b DEF InsertDevice, Added
  <2>3. Added = [Stored EXCEPT !.dev[Asks.mailbox] = disk.dev[Asks.mailbox] \cup {Asks.device}]
    BY <1>2, <1>6 DEF Added, Database
  <2>4. Added \in Database
    BY <1>2, <1>5, <1>6, <2>3, DevicesSet
  <2>5. CASE Asks.device \in disk.dev[Asks.mailbox]
    <3>1. Added = Stored
      <4>1. Stored.dev \in [Mailboxes -> SUBSET Devices]
        BY <1>6 DEF Database
      <4>2. disk.dev[Asks.mailbox] \cup {Asks.device} = Stored.dev[Asks.mailbox]
        BY <1>6, <2>5
      <4>3. Added = [Stored EXCEPT !.dev[Asks.mailbox] = Stored.dev[Asks.mailbox]]
        BY <2>3, <4>2
      <4>4. Stored.dev[Asks.mailbox] \in SUBSET Devices
        BY <1>2, <4>1
      <4>5. /\ Added.reg = Stored.reg /\ Added.ckpt = Stored.ckpt /\ Added.wake = Stored.wake
            /\ Added.stat = Stored.stat
            /\ Added.dev = [Stored.dev EXCEPT ![Asks.mailbox] = Stored.dev[Asks.mailbox]]
        BY <1>2, <1>6, <4>3, <4>4, DevicesSet
      <4>6. Added.dev = Stored.dev
        BY <4>1, <4>5
      <4> QED
        BY <1>6, <2>4, <4>5, <4>6, SameTables
    <3> QED
      BY <1>1, <1>4, <1>6, <2>1, <2>2, <2>4, <2>5, <3>1 DEF Progressed, Statements
  <2>6. CASE Asks.device \notin disk.dev[Asks.mailbox]
    BY <1>1, <1>4, <1>6, <2>1, <2>2, <2>4, <2>6 DEF Progressed, Statements
  <2> QED
    BY <2>5, <2>6
<1>c. CASE UpdateDevice
  <2>1. at' = "commit" /\ db' = Stored /\ Asks.device \in disk.dev[Asks.mailbox]
    BY <1>3, <1>c DEF UpdateDevice, Progressed
  <2>2. db' \in Effects
    BY <1>7, <2>1 DEF Register, Stored
  <2> QED
    BY <1>1, <1>4, <1>6, <1>8, <2>1, <2>2 DEF Progressed, Statements, Effects
<1>d. CASE CountDevice
  <2>1. /\ db = Added /\ db' = Counting(Added, "registrations")
        /\ Asks.device \notin disk.dev[Asks.mailbox]
        /\ at' = IF MaxDevices > 0 THEN "evict" ELSE "commit"
    BY <1>3, <1>d DEF CountDevice, Progressed
  <2>2. db' \in Database
    BY <1>3, <2>1, Counted DEF Counters
  <2>3. MaxDevices > 0 => db' \in Database /\ at' \in Statements \ {"idle"} /\ Progressed'
    BY <1>1, <1>4, <2>1, <2>2 DEF Progressed, Statements
  <2>4. ASSUME ~(MaxDevices > 0)
        PROVE  db' \in Effects
    <3>1. MaxDevices = 0
      BY <2>4, RowsAssumption
    <3>2. Added = [Stored EXCEPT !.dev[Asks.mailbox] = disk.dev[Asks.mailbox] \cup {Asks.device}]
      BY <1>2, <1>6 DEF Added, Database
    <3>3. disk.dev[Asks.mailbox] \cup {Asks.device} \in KeptWith(disk.dev[Asks.mailbox], Asks.device)
      BY <3>1 DEF KeptWith
    <3> QED
      BY <1>9, <2>1, <3>2, <3>3
  <2> QED
    BY <1>1, <1>4, <1>8, <2>1, <2>2, <2>3, <2>4 DEF Progressed, Statements, Effects
<1>e. CASE Evict
  <2> DEFINE m == Asks.mailbox  d == Asks.device  D == disk.dev[m]
  <2>1. /\ at' = "commit" /\ db = Counting(Added, "registrations") /\ d \notin D /\ MaxDevices > 0
    BY <1>3, <1>e DEF Evict, Progressed
  <2>2. Added = [Stored EXCEPT !.dev[m] = D \cup {d}]
    BY <1>2, <1>6 DEF Added, Database
  <2>3. /\ Added \in Database /\ Added.dev = [Stored.dev EXCEPT ![m] = D \cup {d}]
        /\ Added.reg = Stored.reg /\ Added.ckpt = Stored.ckpt /\ Added.wake = Stored.wake
        /\ Added.stat = Stored.stat
    <3>1. D \cup {d} \in SUBSET Devices
      BY <1>2, <1>5
    <3> QED
      BY <1>2, <1>6, <2>2, <3>1, DevicesSet
  <2>4. /\ db.dev = Added.dev /\ db.reg = Added.reg /\ db.ckpt = Added.ckpt /\ db.wake = Added.wake
        /\ db.stat = [Added.stat EXCEPT !["registrations"] = @ + 1]
    BY <2>1, <2>3, Counted DEF Counters
  <2>5. disk.dev \in [Mailboxes -> SUBSET Devices]
    BY <1>3 DEF Database
  <2>6. db.dev[m] \ {d} = D
    BY <1>2, <1>6, <2>1, <2>3, <2>4, <2>5
  <2>7. PICK kept \in IF Cardinality(D) < MaxDevices THEN {D} ELSE kSubset(MaxDevices - 1, D) :
          db' = [db EXCEPT !.dev[m] = kept \cup {d}]
    BY <1>e, <2>6 DEF Evict
  <2> DEFINE K == kept \cup {d}
             s == [Stored EXCEPT !.dev[m] = K]
  <2>8. K \in KeptWith(D, d)
    BY <2>1, <2>7 DEF KeptWith
  <2>9. K \in SUBSET Devices
    BY <1>2, <1>5, <2>1, <2>8, Kept
  <2>10. /\ s \in Database /\ s.dev = [Stored.dev EXCEPT ![m] = K] /\ s.reg = Stored.reg
         /\ s.ckpt = Stored.ckpt /\ s.wake = Stored.wake /\ s.stat = Stored.stat
    BY <1>2, <1>6, <2>9, DevicesSet
  <2>11. /\ db' \in Database /\ db'.dev = [db.dev EXCEPT ![m] = K] /\ db'.reg = db.reg
         /\ db'.ckpt = db.ckpt /\ db'.wake = db.wake /\ db'.stat = db.stat
    BY <1>2, <1>3, <2>7, <2>9, DevicesSet
  <2>12. Counting(s, "registrations") \in Effects
    BY <1>9, <2>1, <2>8
  <2>13. db' = Counting(s, "registrations")
    <3> HIDE DEF s, K, m, d, D
    <3>1. /\ Counting(s, "registrations") \in Database
          /\ Counting(s, "registrations").stat = [s.stat EXCEPT !["registrations"] = @ + 1]
          /\ Counting(s, "registrations").dev = s.dev /\ Counting(s, "registrations").reg = s.reg
          /\ Counting(s, "registrations").ckpt = s.ckpt /\ Counting(s, "registrations").wake = s.wake
      BY <2>10, Counted DEF Counters
    <3>2. db'.dev = s.dev
      BY <1>6, <2>3, <2>4, <2>5, <2>10, <2>11
    <3> QED
      BY <2>3, <2>4, <2>10, <2>11, <3>1, <3>2, SameTables
  <2> QED
    BY <1>1, <1>4, <1>8, <2>1, <2>11, <2>12, <2>13 DEF Progressed, Statements, Effects
<1> QED
  BY <1>a, <1>b, <1>c, <1>d, <1>e

\* unregisterDevice()'s statements, up to the deletion of the mailbox.
LEMMA UnregisterSteps ==
  ASSUME StoreInv, DeleteDevice \/ CountRemoval \/ CheckRemaining
  PROVE  StoreInv'
<1> USE DEF Run, Goes
<1>1. at # "idle" /\ UNCHANGED <<disk, calls, open>> /\ queue # <<>> /\ Asks.kind = "unregister"
  BY DEF DeleteDevice, CountRemoval, CheckRemaining, StoreInv, Progressed
<1>2. Asks.mailbox \in Mailboxes /\ Asks.device \in Devices
  BY <1>1, RunningCall
<1>3. db \in Database /\ disk \in Database /\ Progressed
  BY DEF StoreInv, TypeOK
<1>4. /\ Asks' = Asks /\ Left' = Left /\ LeftAndCounted' = LeftAndCounted /\ disk' = disk
      /\ Base' = Base /\ Deleting' = Deleting
  BY <1>1, SameMeasure
<1>5. Base = LeftAndCounted
  BY <1>1 DEF Base
<1>6. Left \in Database
  <2>1. disk.dev[Asks.mailbox] \ {Asks.device} \in SUBSET Devices
    BY <1>2, <1>3 DEF Database
  <2>2. Left = [disk EXCEPT !.dev[Asks.mailbox] = disk.dev[Asks.mailbox] \ {Asks.device}]
    BY <1>2, <1>3 DEF Left, Database
  <2> QED
    BY <1>2, <1>3, <2>1, <2>2, DevicesSet
<1>7. LeftAndCounted \in Database /\ LeftAndCounted.dev = Left.dev
  BY <1>6, Counted DEF LeftAndCounted, Counters
<1> DEFINE Effects == Effect(disk, Asks)
<1>8. Effects' = Effects
  BY <1>4
<1>9. Left.dev[Asks.mailbox] # {} => LeftAndCounted \in Effects
  BY <1>1 DEF Effect, Unregister, LeftAndCounted, Left
<1> HIDE DEF Effects
<1> SUFFICES db' \in Database /\ at' \in Statements \ {"idle"} /\ Progressed'
  BY <1>1, StatementStep
<1>a. CASE DeleteDevice
  <2>1. /\ db' = Left
        /\ at' = IF Asks.device \in disk.dev[Asks.mailbox] THEN "countRemoval" ELSE "checkRemaining"
    BY <1>3, <1>a DEF DeleteDevice, Left, Progressed
  <2> QED
    BY <1>1, <1>4, <1>6, <2>1 DEF Progressed, Statements, LeftAndCounted
<1>b. CASE CountRemoval
  <2>1. db' = LeftAndCounted /\ at' = "checkRemaining"
    BY <1>3, <1>b DEF CountRemoval, LeftAndCounted, Progressed
  <2> QED
    BY <1>1, <1>4, <1>7, <2>1 DEF Progressed, Statements
<1>c. CASE CheckRemaining
  <2>1. /\ db' = LeftAndCounted
        /\ at' = IF Left.dev[Asks.mailbox] = {} THEN "clearDev" ELSE "commit"
    BY <1>3, <1>7, <1>c DEF CheckRemaining, Progressed
  <2>2. Left.dev[Asks.mailbox] = {} => Deleting
    BY <1>1 DEF Deleting
  <2> QED
    BY <1>1, <1>4, <1>5, <1>7, <1>8, <1>9, <2>1, <2>2 DEF Progressed, Statements, Effects
<1> QED
  BY <1>a, <1>b, <1>c

\* Deleting every row of the mailbox is what the call asked for.
LEMMA DeletionIsAsked ==
  ASSUME Deleting, disk \in Database, Asks.mailbox \in Mailboxes
  PROVE  ClearAll(Base, Goner) \in Effect(disk, Asks)
<1>1. CASE Asks.kind = "unregister"
  BY <1>1 DEF Deleting, Base, Goner, LeftAndCounted, Left, Effect, Unregister
<1>2. CASE Asks.kind = "deleteMailbox" /\ disk.reg[Asks.mailbox] = Asks.token
  <2>1. ClearAll(Base, Goner) = ClearAll(disk, {Asks.mailbox})
    BY <1>2, ClearedTwice DEF Base, Goner
  <2> QED
    BY <1>2, <2>1 DEF Effect, DeleteMailbox
<1> QED
  BY <1>1, <1>2 DEF Deleting

\* deleteMailbox()'s first statement, and the statements of _deleteMailbox().
LEMMA DeletionSteps ==
  ASSUME StoreInv, DeleteIfToken \/ DeleteRows
  PROVE  StoreInv'
<1> USE DEF Run, Goes
<1>1. /\ at # "idle" /\ UNCHANGED <<disk, calls, open>> /\ queue # <<>>
      /\ Asks.kind \in {"unregister", "deleteMailbox"}
  BY DEF DeleteIfToken, DeleteRows, StoreInv, Progressed, Deleting
<1>2. Asks.mailbox \in Mailboxes
  BY <1>1, RunningCall
<1>3. db \in Database /\ disk \in Database /\ Progressed
  BY DEF StoreInv, TypeOK
<1>4. /\ Asks' = Asks /\ disk' = disk /\ Base' = Base /\ Goner' = Goner /\ Deleting' = Deleting
  BY <1>1, SameMeasure
<1> DEFINE Effects == Effect(disk, Asks)
<1>5. Effects' = Effects
  BY <1>4
<1>6. Deleting => ClearAll(Base, Goner) \in Effects
  BY <1>2, <1>3, DeletionIsAsked
<1>7. Asks.kind = "deleteMailbox" /\ disk.reg[Asks.mailbox] # Asks.token => disk \in Effects
  BY DEF Effect, DeleteMailbox
<1> HIDE DEF Effects
<1> SUFFICES db' \in Database /\ at' \in Statements \ {"idle"} /\ Progressed'
  BY <1>1, StatementStep
<1>a. CASE DeleteIfToken
  <2>1. at = "deleteIfToken" /\ db = disk /\ Asks.kind = "deleteMailbox"
    BY <1>3, <1>a DEF DeleteIfToken, Progressed
  <2>2. CASE disk.reg[Asks.mailbox] = Asks.token
    <3>1. db' = Base /\ at' = "clearDev" /\ Deleting
      BY <1>a, <2>1, <2>2 DEF DeleteIfToken, Base, Deleting
    <3>2. Base \in Database
      BY <1>3, <2>1, RegCleared DEF Base
    <3> QED
      BY <1>1, <1>4, <3>1, <3>2 DEF Progressed, Statements
  <2>3. CASE disk.reg[Asks.mailbox] # Asks.token
    <3>1. db' = disk /\ at' = "commit"
      BY <1>a, <2>1, <2>3 DEF DeleteIfToken
    <3> QED
      BY <1>3, <1>4, <1>5, <1>7, <2>1, <2>3, <3>1 DEF Progressed, Statements, Effects
  <2> QED
    BY <2>2, <2>3
<1>b. CASE DeleteRows
  <2>1. CASE at = "clearDev"
    <3>1. db' = ClearDev(Base, Goner) /\ at' = "clearReg" /\ Deleting
      BY <1>3, <1>b, <2>1 DEF DeleteRows, Progressed, Goner
    <3>2. db' \in Database
      BY <1>3, <1>b, <2>1, DevCleared DEF DeleteRows
    <3> QED
      BY <1>4, <3>1, <3>2 DEF Progressed, Statements
  <2>2. CASE at = "clearReg"
    <3>1. db' = ClearReg(ClearDev(Base, Goner), Goner) /\ at' = "clearCkpt" /\ Deleting
      BY <1>3, <1>b, <2>2 DEF DeleteRows, Progressed, Goner
    <3>2. db' \in Database
      BY <1>3, <1>b, <2>2, RegCleared DEF DeleteRows
    <3> QED
      BY <1>4, <3>1, <3>2 DEF Progressed, Statements
  <2>3. CASE at = "clearCkpt"
    <3>1. /\ db' = ClearCkpt(ClearReg(ClearDev(Base, Goner), Goner), Goner)
          /\ at' = "clearWake" /\ Deleting
      BY <1>3, <1>b, <2>3 DEF DeleteRows, Progressed, Goner
    <3>2. db' \in Database
      BY <1>3, <1>b, <2>3, CkptCleared DEF DeleteRows
    <3> QED
      BY <1>4, <3>1, <3>2 DEF Progressed, Statements
  <2>4. CASE at = "clearWake"
    <3>1. db' = ClearAll(Base, Goner) /\ at' = "commit" /\ Deleting
      BY <1>3, <1>b, <2>4 DEF DeleteRows, Progressed, Goner, ClearAll
    <3>2. db' \in Database
      BY <1>3, <1>b, <2>4, WakeCleared DEF DeleteRows
    <3> QED
      BY <1>4, <1>5, <1>6, <3>1, <3>2 DEF Progressed, Statements, Effects
  <2> QED
    BY <1>b, <2>1, <2>2, <2>3, <2>4 DEF DeleteRows
<1> QED
  BY <1>a, <1>b

\* deleteOrphans()'s statements.
LEMMA RetentionSteps ==
  ASSUME StoreInv, DeleteOrphanRows
  PROVE  StoreInv'
<1> USE DEF Run, Goes
<1>1. /\ at # "idle" /\ UNCHANGED <<disk, calls, open>> /\ queue # <<>>
      /\ Asks.kind = "deleteOrphans"
  BY DEF DeleteOrphanRows, StoreInv, Progressed
<1>2. db \in Database /\ disk \in Database /\ Progressed
  BY DEF StoreInv, TypeOK
<1>3. /\ Asks' = Asks /\ disk' = disk
      /\ Swept1' = Swept1 /\ Swept2' = Swept2 /\ Swept3' = Swept3
  BY <1>1, SameMeasure
<1> DEFINE Effects == Effect(disk, Asks)
           last == ClearWake(Swept3, Mailboxes \ Registered(Swept3))
<1>4. Effects' = Effects
  BY <1>3
<1>5. Effects = {DeleteOrphans(disk)}
  BY <1>1 DEF Effect
<1>6. last = DeleteOrphans(disk)
  BY <1>2, SweptInSteps DEF Swept1, Swept2, Swept3
<1> HIDE DEF Effects, last
<1> SUFFICES db' \in Database /\ at' \in Statements \ {"idle"} /\ Progressed'
  BY <1>1, StatementStep
<1>a. CASE at = "orphanReg"
  <2>1. db' = Swept1 /\ at' = "orphanDev"
    BY <1>2, <1>a DEF DeleteOrphanRows, Progressed, Swept1
  <2>2. db' \in Database
    BY <1>2, <2>1, RegCleared DEF Swept1
  <2> QED
    BY <1>1, <1>3, <2>1, <2>2 DEF Progressed, Statements
<1>b. CASE at = "orphanDev"
  <2>1. db' = Swept2 /\ at' = "orphanCkpt" /\ db = Swept1
    BY <1>2, <1>b DEF DeleteOrphanRows, Progressed, Swept2
  <2>2. db' \in Database
    BY <1>2, <2>1, DevCleared DEF Swept2
  <2> QED
    BY <1>1, <1>3, <2>1, <2>2 DEF Progressed, Statements
<1>c. CASE at = "orphanCkpt"
  <2>1. db' = Swept3 /\ at' = "orphanWake" /\ db = Swept2
    BY <1>2, <1>c DEF DeleteOrphanRows, Progressed, Swept3
  <2>2. db' \in Database
    BY <1>2, <2>1, CkptCleared DEF Swept3
  <2> QED
    BY <1>1, <1>3, <2>1, <2>2 DEF Progressed, Statements
<1>d. CASE at = "orphanWake"
  <2>1. db' = last /\ at' = "commit" /\ db = Swept3
    BY <1>2, <1>d DEF DeleteOrphanRows, Progressed, last
  <2>2. db' \in Database
    BY <1>2, <2>1, WakeCleared DEF last
  <2> QED
    BY <1>3, <1>4, <1>5, <1>6, <2>1, <2>2 DEF Progressed, Statements, Effects
<1> QED
  BY <1>a, <1>b, <1>c, <1>d DEF DeleteOrphanRows

\* recordMailboxMessage()'s statements.
LEMMA MessageSteps ==
  ASSUME StoreInv, SetCheckpointOf \/ CountMessage
  PROVE  StoreInv'
<1> USE DEF Run, Goes
<1>1. /\ at # "idle" /\ UNCHANGED <<disk, calls, open>> /\ queue # <<>>
      /\ Asks.kind = "message"
  BY DEF SetCheckpointOf, CountMessage, StoreInv, Progressed
<1>2. Asks.mailbox \in Mailboxes /\ Asks.checkpoint \in Checkpoints
  BY <1>1, RunningCall
<1>3. db \in Database /\ disk \in Database /\ Progressed
  BY DEF StoreInv, TypeOK
<1>4. Asks' = Asks /\ disk' = disk
  BY <1>1, SameMeasure
<1> DEFINE Effects == Effect(disk, Asks)
           s == SetCheckpoint(disk, Asks.mailbox, Asks.checkpoint)
<1>5. Effects' = Effects /\ s' = s
  BY <1>4
<1>6. Effects = {Counting(s, "messages")}
  BY <1>1 DEF Effect
<1>7. s \in Database
  BY <1>2, <1>3, CheckpointSet
<1>8. CASE SetCheckpointOf
  <2>1. db' = s /\ at' = "countMessage"
    BY <1>3, <1>8 DEF SetCheckpointOf, Progressed
  <2>2. at' \in Statements \ {"idle"} /\ Progressed'
    BY <1>1, <1>4, <2>1 DEF Progressed, Statements
  <2> QED
    BY <1>1, <1>7, <2>1, <2>2, StatementStep
<1>9. CASE CountMessage
  <2>1. db' = Counting(s, "messages") /\ at' = "commit"
    BY <1>3, <1>9 DEF CountMessage, Progressed
  <2>2. db' \in Database
    BY <1>7, <2>1, Counted DEF Counters
  <2> HIDE DEF s, Effects
  <2>3. at' \in Statements \ {"idle"} /\ Progressed'
    BY <1>4, <1>5, <1>6, <2>1 DEF Progressed, Statements, Effects
  <2> QED
    BY <1>1, <2>2, <2>3, StatementStep
<1> QED
  BY <1>8, <1>9

-----------------------------------------------------------------------------
(* And so does every other step *)

\* The queue without the call that settled.
LEMMA Settled ==
  ASSUME StoreInv, queue # <<>>, NEW result \in {"ok", "failed"}, Settle(result),
         disk' \in Database, db' = disk', open' \in BOOLEAN
  PROVE  StoreInv'
<1>1. queue \in Seq(Requests) /\ write \in [Requests -> Writes \cup {None}]
      /\ status \in [Requests -> {"unused", "waiting", "ok", "failed", "lost"}]
  BY DEF StoreInv, TypeOK
<1>2. /\ queue' \in Seq(Requests) /\ Len(queue') = Len(queue) - 1 /\ Len(queue) \in Nat
      /\ Len(queue') \in Nat
      /\ \A i \in 1..Len(queue') : queue'[i] = queue[i + 1]
  BY <1>1, HeadTailProperties, LenProperties DEF Settle
<1>3. \A r \in Requests : status[r] # "unused" => status'[r] # "unused"
  BY <1>1 DEF Settle
<1>4. \A i \in 1..Len(queue') : queue'[i] \in Requests
  BY <1>2
<1>5. QueuedAsked'
  <2> SUFFICES ASSUME NEW i \in 1..Len(queue')
               PROVE  status'[queue'[i]] # "unused" /\ write'[queue'[i]] \in Writes
    BY DEF QueuedAsked
  <2>1. i + 1 \in 1..Len(queue) /\ queue'[i] = queue[i + 1] /\ queue'[i] \in Requests
    BY <1>2, <1>4
  <2>2. status[queue[i + 1]] # "unused" /\ write[queue[i + 1]] \in Writes
    BY <2>1 DEF StoreInv, QueuedAsked
  <2> QED
    BY <1>3, <2>1, <2>2 DEF Settle
<1>6. TypeOK'
  BY <1>1, <1>2 DEF TypeOK, Settle, Statements
<1>7. Progressed'
  BY DEF Settle, Progressed
<1> QED
  BY <1>5, <1>6, <1>7 DEF StoreInv, Settle

\* A call that joins the queue leaves the running one alone.
LEMMA SubmitStep ==
  ASSUME StoreInv, NEW r \in Requests, NEW w \in Asked, Submit(r, w)
  PROVE  StoreInv'
<1>1. queue \in Seq(Requests) /\ write \in [Requests -> Writes \cup {None}]
      /\ status \in [Requests -> {"unused", "waiting", "ok", "failed", "lost"}] /\ w \in Writes
  BY StoreAssumption DEF StoreInv, TypeOK
<1>2. /\ queue' \in Seq(Requests) /\ Len(queue') = Len(queue) + 1 /\ Len(queue) \in Nat
      /\ queue' # <<>>
      /\ \A i \in 1..Len(queue) : queue'[i] = queue[i] /\ queue[i] \in Requests
      /\ queue'[Len(queue) + 1] = r
  BY <1>1, AppendProperties, LenProperties, ElementOfSeq DEF Submit
<1>3. TypeOK'
  BY <1>1, <1>2 DEF StoreInv, TypeOK, Submit
<1>4. QueuedAsked'
  <2> SUFFICES ASSUME NEW i \in 1..Len(queue')
               PROVE  status'[queue'[i]] # "unused" /\ write'[queue'[i]] \in Writes
    BY DEF QueuedAsked
  <2>1. CASE i = Len(queue) + 1
    BY <1>1, <1>2, <2>1 DEF Submit
  <2>2. CASE i # Len(queue) + 1
    <3>1. i \in 1..Len(queue)
      BY <1>2, <2>2
    <3>2. queue'[i] = queue[i] /\ queue[i] \in Requests
      BY <1>2, <3>1
    <3>3. status[queue[i]] # "unused" /\ write[queue[i]] \in Writes
      BY <3>1 DEF StoreInv, QueuedAsked
    <3> QED
      BY <1>1, <3>2, <3>3 DEF Submit
  <2> QED
    BY <2>1, <2>2
<1>5. Progressed'
  <2>1. CASE at = "idle"
    BY <2>1 DEF StoreInv, Progressed, Submit
  <2>2. CASE at # "idle"
    <3>1. queue # <<>>
      BY <2>2 DEF StoreInv
    <3>2. Head(queue') = Head(queue)
      BY <1>1, <3>1, HeadTailAppend DEF Submit
    <3>3. Running \in Requests /\ status[Running] # "unused"
      BY <3>1, RunningCall
    <3>4. Asks' = Asks
      BY <1>1, <3>2, <3>3 DEF Asks, Running, Submit
    <3>5. disk' = disk /\ db' = db /\ at' = at
      BY DEF Submit
    <3>6. Stored' = Stored /\ Left' = Left /\ Goner' = Goner /\ Swept1' = Swept1
      BY <3>4, <3>5 DEF Stored, Left, Goner, Swept1
    <3>7. Added' = Added /\ LeftAndCounted' = LeftAndCounted /\ Swept2' = Swept2 /\ Deleting' = Deleting
      BY <3>4, <3>5, <3>6 DEF Added, LeftAndCounted, Swept2, Deleting
    <3>8. Base' = Base /\ Swept3' = Swept3
      BY <3>4, <3>5, <3>7 DEF Base, Swept3
    <3> QED
      BY <3>4, <3>5, <3>6, <3>7, <3>8 DEF StoreInv, Progressed
  <2> QED
    BY <2>1, <2>2
<1> QED
  BY <1>2, <1>3, <1>4, <1>5 DEF StoreInv

\* BEGIN IMMEDIATE.
LEMMA BeginStep ==
  ASSUME StoreInv, Begin
  PROVE  StoreInv'
<1>1. db = disk /\ UNCHANGED <<disk, calls, db>> /\ queue # <<>> /\ ~Standalone(Asks)
  BY DEF Begin, StoreInv, Progressed
<1>2. Asks' = Asks
  BY <1>1, SameMeasure
<1>3. Asks \in Writes
  BY <1>1, RunningCall
<1>4. Asks.kind \in {"register", "unregister", "deleteMailbox", "deleteOrphans", "message"}
  BY <1>1, <1>3 DEF Writes, Standalone
<1>5. /\ Asks.kind = "register" => at' = "setMailbox"
      /\ Asks.kind = "unregister" => at' = "deleteDevice"
      /\ Asks.kind = "deleteMailbox" => at' = "deleteIfToken"
      /\ Asks.kind = "deleteOrphans" => at' = "orphanReg"
      /\ Asks.kind = "message" => at' = "setCheckpoint"
  BY <1>4 DEF Begin
<1>6. at' \in {"setMailbox", "deleteDevice", "deleteIfToken", "orphanReg", "setCheckpoint"}
  BY <1>4, <1>5
<1>7. Progressed'
  BY <1>1, <1>2, <1>4, <1>5 DEF Progressed
<1>8. TypeOK'
  BY <1>1, <1>6 DEF StoreInv, TypeOK, Begin, calls, Statements
<1>9. QueuedAsked'
  BY <1>1 DEF StoreInv, QueuedAsked, calls
<1> QED
  BY <1>1, <1>7, <1>8, <1>9 DEF StoreInv, calls

\* The databases a crash may leave.
LEMMA SurvivingEffect ==
  ASSUME StoreInv, NEW x \in Surviving
  PROVE  x \in Database /\ (x = disk \/ (queue # <<>> /\ x \in Effect(disk, Asks)))
<1>1. disk \in Database /\ db \in Database /\ Progressed
  BY DEF StoreInv, TypeOK
<1>2. CASE at = "commit"
  <2>1. x = disk \/ x = db
    BY <1>2 DEF Surviving
  <2> QED
    BY <1>1, <1>2, <2>1 DEF StoreInv, Progressed
<1>3. CASE at = "idle" /\ queue # <<>> /\ Standalone(Asks)
  <2>1. x = disk \/ x \in Effect(disk, Asks)
    <3>1. db = disk
      BY <1>1, <1>3 DEF Progressed
    <3>2. Surviving = {disk} \cup Effect(db, Asks)
      BY <1>3 DEF Surviving
    <3> QED
      BY <3>1, <3>2
  <2>2. Asks \in Writes
    BY <1>3, RunningCall
  <2> QED
    BY <1>1, <1>3, <2>1, <2>2, WriteEffect
<1>4. CASE at # "commit" /\ ~(at = "idle" /\ queue # <<>> /\ Standalone(Asks))
  <2>1. x = disk
    BY <1>4 DEF Surviving
  <2> QED
    BY <1>1, <2>1
<1> QED
  BY <1>2, <1>3, <1>4

\* The process dies.
LEMMA CrashStep ==
  ASSUME StoreInv, Crash
  PROVE  StoreInv'
<1>1. disk' \in Database
  BY SurvivingEffect DEF Crash
<1>2. TypeOK'
  BY <1>1, EmptySeq DEF StoreInv, TypeOK, Crash, Statements
<1>3. QueuedAsked'
  BY EmptySeq DEF QueuedAsked, Crash
<1>4. Progressed'
  BY DEF Progressed, Crash
<1> QED
  BY <1>2, <1>3, <1>4 DEF StoreInv, Crash

\* A standalone write takes effect at once, a transaction when it commits.
LEMMA SuccessEffect ==
  ASSUME StoreInv, StandaloneWrite \/ Commit
  PROVE  /\ queue # <<>> /\ Settle("ok")
         /\ disk' \in Effect(disk, Asks) /\ disk' \in Database /\ db' = disk'
BY RunningCall, WriteEffect DEF StoreInv, TypeOK, Progressed, StandaloneWrite, Commit

\* Every step keeps the invariant.
LEMMA StoreInvStep == StoreInv /\ [Next]_vars => StoreInv'
<1> SUFFICES ASSUME StoreInv, [Next]_vars
             PROVE  StoreInv'
  OBVIOUS
<1>1. ASSUME NEW r \in Requests, NEW w \in Asked, Submit(r, w)
      PROVE  StoreInv'
  BY <1>1, SubmitStep
<1>2. CASE StandaloneWrite \/ Commit
  <2>1. open' \in BOOLEAN
    BY <1>2 DEF StandaloneWrite, Commit, StoreInv, TypeOK
  <2> QED
    BY <1>2, <2>1, SuccessEffect, Settled
<1>3. CASE Rollback \/ FirstStatementFails
  <2>1. /\ queue # <<>> /\ Settle("failed") /\ disk' = disk /\ db' = disk /\ open' \in BOOLEAN
        /\ disk \in Database
    BY <1>3 DEF Rollback, FirstStatementFails, StoreInv, TypeOK, Progressed
  <2> QED
    BY <2>1, Settled
<1>4. CASE StatementFails
  <2>1. at # "idle" /\ at' = "rollback" /\ UNCHANGED <<disk, calls>>
    BY <1>4 DEF StatementFails
  <2>2. db' \in Database /\ open' \in BOOLEAN
    BY <1>4 DEF StatementFails, StoreInv, TypeOK
  <2>3. TypeOK' /\ QueuedAsked'
    BY <2>1, <2>2 DEF StoreInv, TypeOK, QueuedAsked, calls, Statements
  <2>4. Progressed'
    BY <2>1 DEF Progressed
  <2> QED
    BY <2>1, <2>3, <2>4 DEF StoreInv, calls
<1>5. CASE UNCHANGED vars
  <2>1. Progressed'
    <3>1. UNCHANGED <<disk, calls>> /\ at' = at /\ db' = db
      BY <1>5 DEF vars, calls
    <3> QED
      BY <3>1, SameMeasure DEF StoreInv, Progressed
  <2> QED
    BY <1>5, <2>1 DEF StoreInv, TypeOK, QueuedAsked, vars, calls
<1> QED
  BY <1>1, <1>2, <1>3, <1>4, <1>5, BeginStep, RegisterSteps, UnregisterSteps, DeletionSteps,
     RetentionSteps, MessageSteps, CrashStep DEF Next, Progress

\* The store starts in it.
LEMMA StoreInvInit == Init => StoreInv
<1> SUFFICES ASSUME Init
             PROVE  StoreInv
  OBVIOUS
<1>1. disk \in Database
  BY DEF Init, Database
<1>2. TypeOK
  BY <1>1, EmptySeq DEF Init, TypeOK, Statements
<1> QED
  BY <1>2, EmptySeq DEF Init, StoreInv, QueuedAsked, Progressed

-----------------------------------------------------------------------------
(* What follows *)

\* Whatever happens, the database stays or the running call took effect on it.
LEMMA OneEffect ==
  ASSUME StoreInv, [Next]_vars
  PROVE  \/ UNCHANGED disk
         \/ queue # <<>> /\ disk \in Database /\ Asks \in Writes /\ disk' \in Effect(disk, Asks)
<1>1. disk \in Database
  BY DEF StoreInv, TypeOK
<1>2. CASE StandaloneWrite \/ Commit
  BY <1>1, <1>2, SuccessEffect, RunningCall
<1>3. CASE Crash
  BY <1>1, <1>3, SurvivingEffect, RunningCall DEF Crash
<1>4. CASE ~(StandaloneWrite \/ Commit \/ Crash)
  <2>1. UNCHANGED disk
    BY <1>4 DEF Next, Progress, vars, Submit, Begin, Run, Goes, SetMailbox, InsertDevice,
       UpdateDevice, CountDevice, Evict, DeleteDevice, CountRemoval, CheckRemaining,
       DeleteIfToken, DeleteRows, DeleteOrphanRows, SetCheckpointOf, CountMessage, Rollback,
       FirstStatementFails, StatementFails
  <2> QED
    BY <2>1
<1> QED
  BY <1>2, <1>3, <1>4

\* A step of the store is a step of the atomic store, or leaves it alone.
LEMMA AtomicStep ==
  ASSUME StoreInv, [Next]_vars
  PROVE  [Atomic!Next]_(Atomic!vars)
<1>1. CASE StandaloneWrite \/ Commit
  <2>1. queue # <<>> /\ Settle("ok") /\ disk' \in Effect(disk, Asks)
    BY <1>1, SuccessEffect
  <2>2. disk' \in Atomic!Effect(disk, write[Head(queue)])
    BY <2>1, EffectIsAtomic DEF Asks, Running
  <2>3. Atomic!Succeed
    BY <2>1, <2>2 DEF Atomic!Succeed, Atomic!Answer, Settle, Running
  <2> QED
    BY <2>3 DEF Atomic!Next
<1>2. CASE Rollback \/ FirstStatementFails
  <2>1. queue # <<>> /\ Settle("failed") /\ UNCHANGED disk
    BY <1>2 DEF Rollback, FirstStatementFails, StoreInv
  <2>2. Atomic!Fail
    BY <2>1 DEF Atomic!Fail, Atomic!Answer, Settle, Running
  <2> QED
    BY <2>2 DEF Atomic!Next
<1>3. CASE Crash
  <2>1. disk' = disk \/ (queue # <<>> /\ disk' \in Effect(disk, Asks))
    BY <1>3, SurvivingEffect DEF Crash
  <2>2. disk' \in {disk} \cup IF queue = <<>> THEN {}
                             ELSE Atomic!Effect(disk, write[Head(queue)])
    BY <2>1, EffectIsAtomic DEF Asks, Running
  <2>3. Atomic!Crash
    BY <1>3, <2>2 DEF Atomic!Crash, Crash
  <2> QED
    BY <2>3 DEF Atomic!Next
<1>4. ASSUME NEW r \in Requests, NEW w \in Asked, Submit(r, w)
      PROVE  Atomic!Next
  <2>1. w \in Atomic!Writes
    BY StoreAssumption, EffectIsAtomic
  <2>2. Atomic!Submit(r, w)
    BY <1>4 DEF Atomic!Submit, Submit
  <2> QED
    BY <2>1, <2>2 DEF Atomic!Next
<1>5. CASE UNCHANGED vars
  BY <1>5 DEF vars, calls, Atomic!vars
<1>6. CASE \/ Begin \/ StatementFails
           \/ SetMailbox \/ InsertDevice \/ UpdateDevice \/ CountDevice \/ Evict
           \/ DeleteDevice \/ CountRemoval \/ CheckRemaining \/ DeleteIfToken
           \/ DeleteRows \/ DeleteOrphanRows \/ SetCheckpointOf \/ CountMessage
  <2>1. UNCHANGED <<disk, calls>>
    BY <1>6 DEF Begin, Run, Goes, SetMailbox, InsertDevice, UpdateDevice, CountDevice, Evict,
       DeleteDevice, CountRemoval, CheckRemaining, DeleteIfToken, DeleteRows, DeleteOrphanRows,
       SetCheckpointOf, CountMessage, StatementFails
  <2> QED
    BY <2>1 DEF calls, Atomic!vars
<1> QED
  BY <1>1, <1>2, <1>3, <1>4, <1>5, <1>6 DEF Next, Progress

\* Every variable of the store has its type (the tables of StoreRows, the queue
\* of calls and the statements of checkpoint-store.js).
THEOREM StoreTypeCorrect == Spec => []TypeOK
<1>1. StoreInv => TypeOK
  BY DEF StoreInv
<1> QED
  BY <1>1, StoreInvInit, StoreInvStep, PTL DEF Spec

\* The store implements the atomic store: whatever statement fails and
\* wherever the process dies, the writes take effect one after the other, whole
\* or not at all, and callers are told which (checkpoint-store.js:430).
THEOREM StoreIsAtomic == Spec => ImplementsAtomic
<1>1. Init => Atomic!Init
  <2> SUFFICES ASSUME Init
               PROVE  Atomic!Init
    OBVIOUS
  <2>1. disk \in Atomic!Database
    BY StoreInvInit, EffectIsAtomic DEF StoreInv, TypeOK
  <2> QED
    BY <2>1 DEF Init, Atomic!Init
<1>2. StoreInv /\ [Next]_vars => [Atomic!Next]_(Atomic!vars)
  BY AtomicStep
<1> QED
  BY <1>1, <1>2, StoreInvInit, StoreInvStep, PTL DEF Spec, ImplementsAtomic, Atomic!Spec

\* No write, failed write or crash leaves rows behind that belong to no
\* registered mailbox with a device, beyond those that were there before.
THEOREM OrphansShrink == Spec => OrphansOnlyShrink
<1>1. StoreInv /\ [Next]_vars => [Orphans(disk') \subseteq Orphans(disk)]_disk
  <2> SUFFICES ASSUME StoreInv, [Next]_vars
               PROVE  [Orphans(disk') \subseteq Orphans(disk)]_disk
    OBVIOUS
  <2> QED
    BY OneEffect, WriteEffect
<1> QED
  BY <1>1, StoreInvInit, StoreInvStep, PTL DEF Spec, OrphansOnlyShrink

\* A mailbox gains devices up to the limit only, for any limit and also when it
\* has more than that already (_evictOldestDevices()).
THEOREM DevicesLimited == Spec => DeviceLimit
<1> DEFINE Limited == \A m \in Mailboxes :
             MaxDevices > 0 /\ Cardinality(disk'.dev[m]) > Cardinality(disk.dev[m])
               => Cardinality(disk'.dev[m]) <= MaxDevices
<1>1. StoreInv /\ [Next]_vars => [Limited]_disk
  <2> SUFFICES ASSUME StoreInv, [Next]_vars
               PROVE  [Limited]_disk
    OBVIOUS
  <2> QED
    BY OneEffect, WriteEffect
<1>2. DeviceLimit <=> [][Limited]_disk
  BY DEF DeviceLimit
<1> HIDE DEF Limited
<1> QED
  BY <1>1, <1>2, StoreInvInit, StoreInvStep, PTL DEF Spec
=============================================================================
