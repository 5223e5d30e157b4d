--------------------------- MODULE EventLogProofs ---------------------------
(***************************************************************************)
(* EventLog implements EventTotals for every value of its constants: no    *)
(* event is counted twice, whatever becomes of a flush.  The argument      *)
(* needs what the connection sees during a transaction: the committed      *)
(* totals and the counts of the batch that are written already.            *)
(*                                                                         *)
(* The rows follow from the order in which events pass from the buffer     *)
(* through the batch to a row: what is still to be written is later than   *)
(* everything that is in a row.                                            *)
(***************************************************************************)
EXTENDS EventLog, FiniteSetTheorems, TLAPS

\* The tables are records with totals in them.
Shape(t) ==
  /\ t = [rows |-> t.rows, gone |-> t.gone, rollup |-> t.rollup, seq |-> t.seq]
  /\ t.rollup \in [Keys -> Nat]

Types ==
  /\ recorded \in Seq([kind: Kinds, ts: 0 .. MaxTime]) /\ now \in 0 .. MaxTime
  /\ Shape(db) /\ Shape(disk) /\ open \in BOOLEAN
  /\ rollups \in [Keys -> Nat]
  /\ batch = [events |-> batch.events, next |-> batch.next, rollups |-> batch.rollups,
              keys |-> batch.keys]
  /\ batch.rollups \in [Keys -> Nat] /\ batch.keys \subseteq Keys
  /\ at \in {"idle", "begin", "write", "insert", "rollup", "commit", "rollback"}

\* What the connection sees of the totals.
Visible ==
  \A k \in Keys :
    db.rollup[k] = disk.rollup[k] + (IF open /\ k \notin batch.keys THEN batch.rollups[k] ELSE 0)

Progress ==
  /\ open => at \notin {"idle", "begin"}
  /\ at = "begin" => \A k \in Keys \ batch.keys : batch.rollups[k] = 0
  /\ at = "commit" => batch.keys = {}

LogInv == Types /\ Visible /\ Progress

-----------------------------------------------------------------------------
(* Steps of the totals *)

LEMMA InFlightType ==
  ASSUME LogInv
  PROVE  InFlight \in [Keys -> Nat]
BY DEF LogInv, Types, InFlight

LEMMA CountedType ==
  ASSUME recorded \in Seq([kind: Kinds, ts: 0 .. MaxTime]), NEW k
  PROVE  Counted(k) \in Nat
<1>1. IsFiniteSet(1 .. Len(recorded))
  <2>1. Len(recorded) \in Int
    OBVIOUS
  <2> QED
    BY <2>1, FS_Interval
<1>2. IsFiniteSet({n \in DOMAIN recorded : KeyOf(n) = k})
  BY <1>1, FS_Subset
<1> QED
  BY <1>2, FS_CardinalityType DEF Counted

\* A step that leaves the totals and what is in flight alone.
LEMMA Silent ==
  ASSUME UNCHANGED <<recorded, rollups>>, disk'.rollup = disk.rollup, InFlight' = InFlight
  PROVE  Lost' = Lost
<1>1. \A k \in Keys : Counted(k)' = Counted(k)
  BY DEF Counted, KeyOf
<1> QED
  BY <1>1 DEF Lost

LEMMA Losing ==
  ASSUME LogInv, NEW S \in SUBSET Keys,
         UNCHANGED <<recorded, rollups>>, disk'.rollup = disk.rollup,
         InFlight' = [k \in Keys |-> IF k \in S THEN 0 ELSE InFlight[k]]
  PROVE  Totals!Lose(S)
<1>1. \A k \in Keys : Counted(k)' = Counted(k)
  BY DEF Counted, KeyOf
<1>2. \A k \in Keys : /\ Counted(k) \in Int /\ disk.rollup[k] \in Int
                      /\ rollups[k] \in Int /\ InFlight[k] \in Int
  BY CountedType, InFlightType DEF LogInv, Types, Shape
<1>3. InFlight' = Totals!Only(InFlight, Keys \ S)
  BY DEF Totals!Only
<1>4. \A k \in Keys : Lost'[k] = Lost[k] + Totals!Only(InFlight, S)[k]
  BY <1>1, <1>2 DEF Lost, Totals!Only
<1>5. Lost' = Totals!Plus(Lost, Totals!Only(InFlight, S))
  BY <1>4 DEF Lost, Totals!Plus
<1> QED
  BY <1>3, <1>5 DEF Totals!Lose

LEMMA Saving ==
  ASSUME LogInv, NEW S \in SUBSET Keys,
         UNCHANGED <<recorded, rollups, errors>>, Failed' = Failed,
         disk'.rollup = [k \in Keys |-> IF k \in S THEN disk.rollup[k] + InFlight[k]
                                                   ELSE disk.rollup[k]],
         InFlight' = [k \in Keys |-> IF k \in S THEN 0 ELSE InFlight[k]]
  PROVE  Totals!Save(S)
<1>1. \A k \in Keys : Counted(k)' = Counted(k)
  BY DEF Counted, KeyOf
<1>2. \A k \in Keys : /\ Counted(k) \in Int /\ disk.rollup[k] \in Int
                      /\ rollups[k] \in Int /\ InFlight[k] \in Int
  BY CountedType, InFlightType DEF LogInv, Types, Shape
<1>3. InFlight' = Totals!Only(InFlight, Keys \ S)
  BY DEF Totals!Only
<1>4. disk'.rollup = Totals!Plus(disk.rollup, Totals!Only(InFlight, S))
  BY <1>2 DEF Totals!Plus, Totals!Only
<1>5. \A k \in Keys : Lost'[k] = Lost[k]
  BY <1>1, <1>2 DEF Lost
<1>6. Lost' = Lost
  BY <1>5 DEF Lost
<1> QED
  BY <1>3, <1>4, <1>6 DEF Totals!Save

-----------------------------------------------------------------------------
(* Steps of the log *)

\* What a step of the log is to the totals.
Step == Totals!Next \/ UNCHANGED Totals!vars

\* A successful statement that is not about the totals.
LEMMA WriteKeeps ==
  ASSUME LogInv, NEW t, Shape(t), t.rollup = db.rollup, Write(t)
  PROVE  /\ UNCHANGED open /\ Shape(db)' /\ Shape(disk)'
         /\ db'.rollup = db.rollup /\ disk'.rollup = disk.rollup
<1>1. ~open => db.rollup = disk.rollup
  <2>1. ~open => \A k \in Keys : db.rollup[k] = disk.rollup[k]
    BY DEF LogInv, Types, Shape, Visible
  <2> QED
    BY <2>1 DEF LogInv, Types, Shape
<1> QED
  BY <1>1 DEF Write, LogInv, Types, Shape

\* A statement fails, and the transaction with it or not.
LEMMA Failing ==
  ASSUME LogInv, NEW S \in SUBSET Keys, Totals!Lose(S), errors' = errors + 1, Failed'
  PROVE  Step
<1>1. Failed' = TRUE
  BY DEF Failed
<1>2. Totals!Error
  BY <1>1 DEF Totals!Error
<1> QED
  BY <1>2 DEF Step, Totals!Next

\* A step that leaves the counts of the flush alone, wherever it gets to.
LEMMA Kept ==
  ASSUME LogInv, UNCHANGED <<recorded, rollups, open>>, now' \in 0 .. MaxTime,
         Shape(db)', Shape(disk)', db'.rollup = db.rollup, disk'.rollup = disk.rollup,
         batch' = [events |-> batch'.events, next |-> batch'.next,
                   rollups |-> batch'.rollups, keys |-> batch'.keys],
         batch'.rollups = batch.rollups, batch'.keys = batch.keys,
         \/ at' = at /\ errors' \in {errors, errors + 1}
         \/ /\ at \in {"write", "insert"} /\ errors' = errors
            /\ at' \in {"write", "insert", "rollup"} \/ (at' = "commit" /\ batch.keys = {})
         \/ at # "idle" /\ at' = "rollback" /\ errors' = errors + 1
         \/ at = "commit" /\ ~open /\ at' = "rollback" /\ errors' = errors
  PROVE  LogInv' /\ Step
<1>1. InFlight' = InFlight
  BY DEF InFlight
<1>2. UNCHANGED <<disk.rollup, rollups, InFlight, Lost>>
  BY <1>1, Silent
<1>3. Types'
  BY DEF LogInv, Types
<1>4. Visible'
  BY DEF LogInv, Visible
<1>5. Progress'
  BY DEF LogInv, Progress
<1>6. LogInv'
  BY <1>3, <1>4, <1>5 DEF LogInv
<1>7. CASE /\ errors' = errors
           /\ \/ at' = at
              \/ at \in {"write", "insert"} /\ at' \in {"write", "insert", "rollup", "commit"}
              \/ at = "commit" /\ ~open /\ at' = "rollback"
  <2>1. Failed' = Failed
    BY <1>7 DEF LogInv, Types, Failed
  <2> QED
    BY <1>2, <1>6, <1>7, <2>1 DEF Step, Totals!vars
<1>8. CASE errors' = errors + 1 /\ at' = at
  <2>1. Failed' = Failed
    BY <1>8 DEF Failed
  <2> QED
    BY <1>2, <1>6, <1>8, <2>1 DEF Step, Totals!Next, Totals!Error
<1>9. CASE errors' = errors + 1 /\ at' = "rollback"
  <2>1. InFlight' = [k \in Keys |-> IF k \in {} THEN 0 ELSE InFlight[k]]
    BY <1>1, InFlightType
  <2>2. Totals!Lose({})
    BY <2>1, Losing
  <2> QED
    BY <1>6, <1>9, <2>2, Failing DEF Failed
<1> QED
  BY <1>7, <1>8, <1>9

\* The transaction is undone under a flush: what it has written is lost.
LEMMA Undone ==
  ASSUME LogInv, open, Undo, UNCHANGED <<now, recorded, rollups, batch>>,
         at' \in {at, "rollback"}, errors' = errors + 1
  PROVE  LogInv' /\ Step
<1>1. at \notin {"idle", "begin"} /\ at' \notin {"idle", "begin"}
  BY DEF LogInv, Progress
<1>2. UNCHANGED disk /\ db' = disk /\ ~open'
  BY DEF Undo
<1>3. InFlight' = [k \in Keys |-> IF k \in Keys \ batch.keys THEN 0 ELSE InFlight[k]]
  BY <1>1, <1>2 DEF InFlight
<1>4. Totals!Lose(Keys \ batch.keys)
  <2>1. Keys \ batch.keys \in SUBSET Keys
    OBVIOUS
  <2> QED
    BY <1>2, <1>3, <2>1, Losing
<1>5. Types'
  BY <1>2 DEF Undo, LogInv, Types, Shape
<1>6. Visible'
  <2>1. \A k \in Keys : disk.rollup[k] \in Nat
    BY DEF LogInv, Types, Shape
  <2> QED
    BY <1>2, <2>1 DEF Visible
<1>7. Progress'
  BY <1>1, <1>2 DEF LogInv, Progress
<1>8. Failed'
  BY <1>1, <1>2 DEF LogInv, Types, Failed
<1>9. Step
  BY <1>4, <1>8, Failing
<1> QED
  BY <1>5, <1>6, <1>7, <1>9 DEF LogInv

LEMMA RecordStep ==
  ASSUME LogInv, NEW kind \in Kinds, Record(kind)
  PROVE  LogInv' /\ Step
<1>1. PICK key : key = <<now \div Hour, SeriesOf[kind]>>
  OBVIOUS
<1>2. PICK n : n = Len(recorded) + 1
  OBVIOUS
<1>3. PICK event : event = [kind |-> kind, ts |-> now]
  OBVIOUS
<1>4. /\ UNCHANGED <<now, disk, db, open, batch, at, errors>>
      /\ recorded' = Append(recorded, event)
      /\ rollups' = [rollups EXCEPT ![key] = @ + 1]
  BY <1>1, <1>3 DEF Record, CountsWith, tables, history
<1>5. Len(recorded) \in Nat /\ n \notin DOMAIN recorded /\ DOMAIN recorded' = DOMAIN recorded \cup {n}
  BY <1>4, <1>2, <1>3 DEF LogInv, Types
<1>6. recorded'[n] = event /\ \A i \in DOMAIN recorded : recorded'[i] = recorded[i]
  BY <1>4, <1>5, <1>2 DEF LogInv, Types
<1>7. LogInv'
  <2>1. Types'
    <3>1. recorded' \in Seq([kind: Kinds, ts: 0 .. MaxTime])
      BY <1>4, <1>3 DEF LogInv, Types
    <3>2. rollups' \in [Keys -> Nat]
      <4>1. rollups \in [Keys -> Nat]
        BY DEF LogInv, Types
      <4>2. rollups' = [k \in Keys |-> IF k = key THEN rollups[k] + 1 ELSE rollups[k]]
        BY <1>4, <4>1
      <4>3. \A k \in Keys : rollups[k] \in Nat /\ rollups[k] + 1 \in Nat
        BY <4>1
      <4> QED
        BY <4>2, <4>3
    <3> QED
      BY <1>4, <3>1, <3>2 DEF LogInv, Types
  <2>2. Visible' /\ Progress'
    BY <1>4 DEF LogInv, Visible, Progress
  <2> QED
    BY <2>1, <2>2 DEF LogInv
<1>8. \A i \in DOMAIN recorded : KeyOf(i)' = KeyOf(i)
  BY <1>6 DEF KeyOf
<1>9. KeyOf(n)' = key
  <2>1. KeyOf(n)' = <<recorded'[n].ts \div Hour, SeriesOf[recorded'[n].kind]>>
    BY DEF KeyOf
  <2>2. event.ts = now /\ event.kind = kind
    BY <1>3
  <2> QED
    BY <1>6, <1>1, <2>1, <2>2
<1>10. \A k \in Keys : Counted(k)' = Counted(k) + (IF k = key THEN 1 ELSE 0)
  <2> SUFFICES ASSUME NEW k \in Keys
               PROVE  Counted(k)' = Counted(k) + (IF k = key THEN 1 ELSE 0)
    OBVIOUS
  <2> DEFINE Of == {i \in DOMAIN recorded : KeyOf(i) = k}
             OfNext == {i \in DOMAIN recorded' : KeyOf(i)' = k}
  <2>1. OfNext = IF k = key THEN Of \cup {n} ELSE Of
    <3>1. \A i : i \in OfNext <=> i \in DOMAIN recorded \cup {n} /\ KeyOf(i)' = k
      BY <1>5
    <3>2. \A i : i \in OfNext <=> i \in Of \/ (i = n /\ key = k)
      BY <3>1, <1>8, <1>9, <1>5
    <3> HIDE DEF OfNext, Of
    <3> QED
      BY <3>2
  <2>2. IsFiniteSet(Of) /\ n \notin Of
    <3>1. Len(recorded) \in Int /\ DOMAIN recorded = 1 .. Len(recorded)
      BY DEF LogInv, Types
    <3>2. IsFiniteSet(DOMAIN recorded)
      BY <3>1, FS_Interval
    <3> QED
      BY <1>5, <3>2, FS_Subset
  <2>3. Cardinality(Of \cup {n}) = Cardinality(Of) + 1
    BY <2>2, FS_AddElement
  <2>4. Cardinality(Of) \in Nat
    BY <2>2, FS_CardinalityType
  <2>5. Counted(k) = Cardinality(Of) /\ Counted(k)' = Cardinality(OfNext)
    BY DEF Counted
  <2> QED
    BY <2>1, <2>3, <2>4, <2>5
<1>11. InFlight' = InFlight
  BY <1>4 DEF InFlight
<1>12. \A k \in Keys : rollups'[k] = rollups[k] + (IF k = key THEN 1 ELSE 0)
  BY <1>4 DEF LogInv, Types
<1>13. Lost' = Lost
  <2>1. \A k \in Keys : /\ Counted(k) \in Int /\ disk.rollup[k] \in Int
                         /\ rollups[k] \in Int /\ InFlight[k] \in Int
    BY CountedType, InFlightType DEF LogInv, Types, Shape
  <2>2. \A k \in Keys : Lost'[k] = Lost[k]
    BY <1>4, <1>10, <1>11, <1>12, <2>1 DEF Lost
  <2> QED
    BY <2>2 DEF Lost
<1>14. CASE key \in Keys
  <2>1. Failed' = Failed
    BY <1>4 DEF Failed
  <2>2. Totals!Record(key)
    BY <1>4, <1>11, <1>13, <2>1 DEF Totals!Record
  <2> QED
    BY <1>7, <1>14, <2>2 DEF Step, Totals!Next
<1>15. CASE key \notin Keys
  <2>1. rollups' = rollups
    BY <1>4, <1>15 DEF LogInv, Types
  <2>2. Failed' = Failed
    BY <1>4 DEF Failed
  <2> QED
    BY <1>4, <1>7, <1>11, <1>13, <2>1, <2>2 DEF Step, Totals!vars
<1> QED
  BY <1>14, <1>15

\* A flush takes the buffered counts.
LEMMA TakeStep ==
  ASSUME LogInv, StartFlush, UNCHANGED <<now, recorded, disk, db, open, errors>>
  PROVE  LogInv' /\ Step
<1>1. at = "idle" /\ at' = "begin" /\ ~open
  BY DEF StartFlush, LogInv, Progress
<1>2. /\ rollups' = Zero
      /\ batch' = [events |-> batch'.events, next |-> batch'.next,
                   rollups |-> batch'.rollups, keys |-> batch'.keys]
      /\ batch'.rollups = rollups /\ batch'.keys = {k \in Keys : rollups[k] > 0}
  BY DEF StartFlush
<1>3. rollups \in [Keys -> Nat] /\ \A k \in Keys \ batch'.keys : rollups[k] = 0
  BY <1>2 DEF LogInv, Types
<1>4. InFlight = Zero /\ InFlight' = rollups
  BY <1>1, <1>2, <1>3 DEF InFlight, Zero
<1>5. \A k \in Keys : Counted(k)' = Counted(k)
  BY DEF Counted, KeyOf
<1>6. Lost' = Lost
  <2>1. \A k \in Keys : /\ Counted(k) \in Int /\ disk.rollup[k] \in Int
                         /\ rollups[k] \in Int /\ Zero[k] = 0
    BY CountedType, <1>3 DEF LogInv, Types, Shape, Zero
  <2>2. \A k \in Keys : Lost'[k] = Lost[k]
    BY <1>2, <1>4, <1>5, <2>1 DEF Lost
  <2> QED
    BY <2>2 DEF Lost
<1>7. Totals!Take
  BY <1>1, <1>2, <1>4, <1>6 DEF Failed, Totals!Take, Totals!Zero, Zero
<1>8. Types'
  <2>1. rollups' \in [Keys -> Nat]
    BY <1>2 DEF Zero
  <2> QED
    BY <1>1, <1>2, <1>3, <2>1 DEF LogInv, Types
<1>9. Visible' /\ Progress'
  BY <1>1, <1>2, <1>3 DEF LogInv, Visible, Progress
<1> QED
  BY <1>7, <1>8, <1>9 DEF LogInv, Step, Totals!Next

LEMMA BeginStep ==
  ASSUME LogInv, Begin
  PROVE  LogInv' /\ Step
<1>1. /\ at = "begin" /\ at' \in {"write", "rollup"} /\ ~open /\ open'
      /\ UNCHANGED <<now, recorded, disk, db, rollups, batch, errors>>
  BY DEF Begin, past, buffers, history, LogInv, Progress
<1>2. \A k \in Keys \ batch.keys : batch.rollups[k] = 0
  BY <1>1 DEF LogInv, Progress
<1>3. InFlight' = InFlight
  BY <1>1, <1>2 DEF InFlight
<1>4. UNCHANGED Totals!vars
  <2>1. Failed' = Failed
    BY <1>1 DEF Failed
  <2> QED
    BY <1>1, <1>3, <2>1, Silent DEF Totals!vars
<1>5. Types'
  BY <1>1 DEF LogInv, Types, Shape
<1>6. Visible'
  BY <1>1, <1>2 DEF LogInv, Types, Visible, Shape
<1>7. Progress'
  BY <1>1 DEF Progress
<1> QED
  BY <1>4, <1>5, <1>6, <1>7 DEF LogInv, Step

\* Changes of the rows alone.
LEMMA RowsOnly ==
  ASSUME LogInv, NEW t, Write(t),
         t = [rows |-> t.rows, gone |-> t.gone, rollup |-> db.rollup, seq |-> t.seq]
  PROVE  /\ UNCHANGED open /\ Shape(db)' /\ Shape(disk)'
         /\ db'.rollup = db.rollup /\ disk'.rollup = disk.rollup
<1>1. t.rollup = db.rollup /\ Shape(t)
  BY DEF LogInv, Types, Shape
<1> QED
  BY <1>1, WriteKeeps

LEMMA RowsExcept ==
  ASSUME LogInv, NEW r, NEW x
  PROVE  /\ [db EXCEPT !.rows = r]
              = [rows |-> r, gone |-> db.gone, rollup |-> db.rollup, seq |-> db.seq]
         /\ [db EXCEPT !.rows = r, !.seq = x]
              = [rows |-> r, gone |-> db.gone, rollup |-> db.rollup, seq |-> x]
         /\ [db EXCEPT !.rows = r, !.gone = x]
              = [rows |-> r, gone |-> x, rollup |-> db.rollup, seq |-> db.seq]
<1>1. db = [rows |-> db.rows, gone |-> db.gone, rollup |-> db.rollup, seq |-> db.seq]
  BY DEF LogInv, Types, Shape
<1>2. PICK t : t = [db EXCEPT !.rows = r]
  OBVIOUS
<1>3. t = [rows |-> r, gone |-> db.gone, rollup |-> db.rollup, seq |-> db.seq]
  BY <1>1, <1>2
<1>4. [db EXCEPT !.rows = r, !.seq = x] = [t EXCEPT !.seq = x]
  BY <1>1, <1>2
<1>5. [db EXCEPT !.rows = r, !.gone = x] = [t EXCEPT !.gone = x]
  BY <1>1, <1>2
<1>6. /\ [t EXCEPT !.seq = x]
           = [rows |-> r, gone |-> db.gone, rollup |-> db.rollup, seq |-> x]
      /\ [t EXCEPT !.gone = x]
           = [rows |-> r, gone |-> x, rollup |-> db.rollup, seq |-> db.seq]
  BY <1>3
<1> QED
  BY <1>2, <1>3, <1>4, <1>5, <1>6

LEMMA EventStep ==
  ASSUME LogInv, UpdateEvent \/ InsertEvent
  PROVE  LogInv' /\ Step
<1>1. /\ at \in {"write", "insert"} /\ UNCHANGED <<now, recorded, rollups, errors>>
      /\ now' \in 0 .. MaxTime
  BY DEF UpdateEvent, InsertEvent, past, buffers, history, LogInv, Types
<1>2. CASE NextEvent /\ \E t : /\ Write(t)
                               /\ t = [rows |-> t.rows, gone |-> t.gone,
                                       rollup |-> db.rollup, seq |-> t.seq]
  <2>1. /\ UNCHANGED open /\ Shape(db)' /\ Shape(disk)'
        /\ db'.rollup = db.rollup /\ disk'.rollup = disk.rollup
    BY <1>2, RowsOnly
  <2>2. /\ batch' = [events |-> batch'.events, next |-> batch'.next,
                     rollups |-> batch'.rollups, keys |-> batch'.keys]
        /\ batch'.rollups = batch.rollups /\ batch'.keys = batch.keys
    BY <1>2 DEF NextEvent, LogInv, Types
  <2>3. at' \in {"write", "rollup"} \/ (at' = "commit" /\ batch.keys = {})
    BY <1>2 DEF NextEvent
  <2> QED
    BY <1>1, <2>1, <2>2, <2>3, Kept
<1>3. CASE UNCHANGED <<tables, batch>> /\ at' = "insert"
  BY <1>1, <1>3, Kept DEF tables, LogInv, Types, Shape
<1>4. CASE UpdateEvent
  <2> DEFINE id == targets[recorded[Event].kind].id
             rows == [db.rows EXCEPT ![id] = @ \cup {Event}]
             t == [db EXCEPT !.rows = rows]
  <2>1. (Write(t) /\ NextEvent) \/ (at' = "insert" /\ UNCHANGED <<tables, batch>>)
    BY <1>4 DEF UpdateEvent
  <2>2. t = [rows |-> t.rows, gone |-> t.gone, rollup |-> db.rollup, seq |-> t.seq]
    BY RowsExcept
  <2> QED
    BY <1>2, <1>3, <2>1, <2>2
<1>5. CASE InsertEvent
  <2> DEFINE id == db.seq + 1
             t == [db EXCEPT !.rows = Put(@, id, {Event}), !.seq = id]
  <2>1. Write(t) /\ NextEvent
    BY <1>5 DEF InsertEvent
  <2>2. t = [rows |-> t.rows, gone |-> t.gone, rollup |-> db.rollup, seq |-> t.seq]
    BY RowsExcept
  <2> QED
    BY <1>2, <2>1, <2>2
<1> QED
  BY <1>4, <1>5

\* Outside a transaction each count is saved by itself.
LEMMA RollupStep ==
  ASSUME LogInv, WriteRollup
  PROVE  LogInv' /\ Step
<1>1. PICK k \in batch.keys :
        /\ Write([db EXCEPT !.rollup[k] = @ + batch.rollups[k]])
        /\ batch' = [batch EXCEPT !.keys = @ \ {k}]
        /\ at' = IF batch.keys = {k} THEN "commit" ELSE "rollup"
  BY DEF WriteRollup
<1>2. at = "rollup" /\ UNCHANGED <<now, recorded, rollups, errors>>
  BY DEF WriteRollup, past, buffers, history
<1>3. k \in Keys /\ batch.keys \subseteq Keys
  BY <1>1 DEF LogInv, Types
<1>4. PICK sum : sum = [j \in Keys |-> IF j = k THEN db.rollup[j] + batch.rollups[j]
                                               ELSE db.rollup[j]]
  OBVIOUS
<1>5. PICK t : t = [rows |-> db.rows, gone |-> db.gone, rollup |-> sum, seq |-> db.seq]
  OBVIOUS
<1>6. /\ sum \in [Keys -> Nat] /\ disk.rollup \in [Keys -> Nat]
      /\ batch.rollups \in [Keys -> Nat]
  BY <1>4 DEF LogInv, Types, Shape
<1>7. Write(t)
  <2>1. sum = [db.rollup EXCEPT ![k] = @ + batch.rollups[k]]
    BY <1>4 DEF LogInv, Types, Shape
  <2>2. t = [db EXCEPT !.rollup = sum]
    <3>1. db = [rows |-> db.rows, gone |-> db.gone, rollup |-> db.rollup, seq |-> db.seq]
      BY DEF LogInv, Types, Shape
    <3> QED
      BY <1>5, <3>1
  <2> QED
    BY <1>1, <2>1, <2>2
<1>8. /\ db' = t /\ disk' = (IF open THEN disk ELSE t) /\ open' = open
      /\ db'.rollup = sum
  BY <1>5, <1>7 DEF Write
<1>9. /\ batch' = [events |-> batch'.events, next |-> batch'.next,
                   rollups |-> batch'.rollups, keys |-> batch'.keys]
      /\ batch'.rollups = batch.rollups /\ batch'.keys = batch.keys \ {k}
  BY <1>1 DEF LogInv, Types
<1>10. at' \in {"rollup", "commit"} /\ (at' = "commit" => batch'.keys = {})
  BY <1>1, <1>9
<1>11. Types'
  <2>1. Shape(db)' /\ Shape(disk)'
    BY <1>5, <1>6, <1>8 DEF LogInv, Types, Shape
  <2> QED
    BY <1>2, <1>6, <1>8, <1>9, <1>10, <2>1 DEF LogInv, Types
<1>12. Progress'
  BY <1>10 DEF Progress
<1>16. Failed' = Failed
  BY <1>2, <1>8, <1>10 DEF Failed
<1>13. CASE open
  <2>1. disk' = disk /\ open'
    BY <1>8, <1>13
  <2>2. Visible'
    BY <1>3, <1>4, <1>6, <1>8, <1>9, <1>13, <2>1 DEF LogInv, Visible
  <2>3. InFlight' = InFlight
    BY <1>2, <1>9, <1>10, <1>13, <2>1 DEF InFlight
  <2>4. UNCHANGED Totals!vars
    BY <1>2, <1>16, <2>1, <2>3, Silent DEF Totals!vars
  <2> QED
    BY <1>11, <1>12, <2>2, <2>4 DEF LogInv, Step
<1>14. CASE ~open
  <2>1. disk'.rollup = sum /\ ~open'
    BY <1>8, <1>14
  <2>2. Visible'
    BY <1>6, <1>8, <2>1 DEF Visible
  <2>3. \A j \in Keys : db.rollup[j] = disk.rollup[j]
    BY <1>6, <1>14 DEF LogInv, Visible
  <2>4. InFlight[k] = batch.rollups[k]
    BY <1>1, <1>2, <1>3 DEF InFlight
  <2>5. disk'.rollup = [j \in Keys |-> IF j \in {k} THEN disk.rollup[j] + InFlight[j]
                                                     ELSE disk.rollup[j]]
    BY <1>4, <2>1, <2>3, <2>4
  <2>6. InFlight' = [j \in Keys |-> IF j \in {k} THEN 0 ELSE InFlight[j]]
    BY <1>2, <1>9, <1>10, <1>14, <2>1 DEF InFlight
  <2>7. {k} \in SUBSET Keys
    BY <1>3
  <2>8. Totals!Save({k})
    BY <1>2, <1>16, <2>5, <2>6, <2>7, Saving
  <2> QED
    BY <1>11, <1>12, <2>2, <2>7, <2>8 DEF LogInv, Step, Totals!Next
<1> QED
  BY <1>13, <1>14

LEMMA CommitStep ==
  ASSUME LogInv, Commit
  PROVE  LogInv' /\ Step
<1>1. /\ at = "commit" /\ open /\ ~open' /\ open' \in BOOLEAN /\ disk' = db /\ db' = db
      /\ at' = "idle" /\ batch' = Idle /\ UNCHANGED <<now, recorded, rollups, errors>>
  BY DEF Commit, EndFlush, past, buffers, history
<1>2. batch.keys = {}
  BY <1>1 DEF LogInv, Progress
<1>3. /\ db.rollup \in [Keys -> Nat] /\ disk.rollup \in [Keys -> Nat]
      /\ batch.rollups \in [Keys -> Nat]
  BY DEF LogInv, Types, Shape
<1>4. \A k \in Keys : db.rollup[k] = disk.rollup[k] + InFlight[k]
  BY <1>1, <1>2, <1>3 DEF LogInv, Visible, InFlight
<1>5. disk'.rollup = [k \in Keys |-> IF k \in Keys THEN disk.rollup[k] + InFlight[k]
                                                  ELSE disk.rollup[k]]
  BY <1>1, <1>3, <1>4
<1>6. InFlight' = [k \in Keys |-> IF k \in Keys THEN 0 ELSE InFlight[k]]
  BY <1>1 DEF InFlight
<1>7. Totals!Save(Keys)
  <2>1. Failed' = Failed
    BY <1>1 DEF Failed
  <2> QED
    BY <1>1, <1>5, <1>6, <2>1, Saving
<1>8. Types'
  BY <1>1 DEF LogInv, Types, Shape, Idle, Zero
<1>9. Visible' /\ Progress'
  BY <1>1, <1>3 DEF Visible, Progress
<1> QED
  BY <1>7, <1>8, <1>9 DEF LogInv, Step, Totals!Next

LEMMA FailStep ==
  ASSUME LogInv, StatementFails
  PROVE  LogInv' /\ Step
<1>1. /\ at # "idle" /\ at' = "rollback"
      /\ UNCHANGED <<now, recorded, rollups, batch>>
  BY DEF StatementFails, past, buffers
<1>2. CASE UNCHANGED tables /\ errors' = errors + 1
  BY <1>1, <1>2, Kept DEF tables, LogInv, Types, Shape
<1>3. CASE open /\ Undo /\ errors' = errors + 1
  BY <1>1, <1>3, Undone
<1>4. CASE at = "commit" /\ ~open /\ UNCHANGED tables /\ errors' = errors
  BY <1>1, <1>4, Kept DEF tables, LogInv, Types, Shape
<1> QED
  BY <1>2, <1>3, <1>4 DEF StatementFails, Error, tables

LEMMA RollbackStep ==
  ASSUME LogInv, Rollback
  PROVE  LogInv' /\ Step
<1>1. /\ at = "rollback" /\ at' = "idle" /\ batch' = Idle
      /\ UNCHANGED <<now, recorded, rollups, disk, errors>>
      /\ open' = FALSE /\ db' = (IF open THEN disk ELSE db)
  BY DEF Rollback, FailFlush, EndFlush, Undo, tables, past, buffers, history, LogInv, Types
<1>2. db.rollup \in [Keys -> Nat] /\ disk.rollup \in [Keys -> Nat]
  BY DEF LogInv, Types, Shape
<1>3. InFlight' = [k \in Keys |-> IF k \in Keys THEN 0 ELSE InFlight[k]]
  BY <1>1 DEF InFlight
<1>4. Totals!GiveUp
  <2>1. Totals!Lose(Keys)
    BY <1>1, <1>3, Losing
  <2> QED
    BY <1>1, <2>1 DEF Failed, Totals!GiveUp
<1>5. Types'
  BY <1>1 DEF LogInv, Types, Shape, Idle, Zero
<1>6. Visible'
  BY <1>1, <1>2 DEF LogInv, Visible
<1>7. Progress'
  BY <1>1 DEF Progress
<1> QED
  BY <1>4, <1>5, <1>6, <1>7 DEF LogInv, Step, Totals!Next

LEMMA PruneStep ==
  ASSUME LogInv, PruneAge \/ PruneCap \/ PruneFails
  PROVE  LogInv' /\ Step
<1>1. UNCHANGED <<now, recorded, rollups, batch, at>>
  BY DEF PruneAge, PruneCap, PruneFails, past, buffers, flushing
<1>2. ASSUME NEW ids, Write(Delete(ids)), errors' = errors PROVE LogInv' /\ Step
  <2>1. PICK t : t = Delete(ids)
    OBVIOUS
  <2>2. t = [rows |-> t.rows, gone |-> t.gone, rollup |-> db.rollup, seq |-> t.seq]
    <3> DEFINE rows == Restrict(db.rows, DOMAIN db.rows \ ids)
               gone == db.gone \cup UNION {db.rows[id] : id \in ids}
    <3>1. t = [db EXCEPT !.rows = rows, !.gone = gone]
      BY <2>1 DEF Delete
    <3> QED
      BY <3>1, RowsExcept
  <2>3. /\ UNCHANGED open /\ Shape(db)' /\ Shape(disk)'
        /\ db'.rollup = db.rollup /\ disk'.rollup = disk.rollup
    BY <1>2, <2>1, <2>2, RowsOnly
  <2> QED
    BY <1>1, <1>2, <2>3, Kept DEF LogInv, Types
<1>3. CASE PruneAge \/ PruneCap
  BY <1>2, <1>3 DEF PruneAge, PruneCap, history
<1>4. CASE PruneFails
  <2>1. CASE UNCHANGED tables /\ errors' = errors + 1
    BY <1>1, <2>1, Kept DEF tables, LogInv, Types, Shape
  <2>2. CASE open /\ Undo /\ errors' = errors + 1
    BY <1>1, <2>2, Undone
  <2> QED
    BY <1>4, <2>1, <2>2 DEF PruneFails, Error
<1> QED
  BY <1>3, <1>4

\* A step that does not touch the log.
LEMMA OtherStep ==
  ASSUME LogInv, UNCHANGED <<recorded, tables, buffers, batch, at, errors>>, now' \in 0 .. MaxTime
  PROVE  LogInv' /\ Step
BY Kept DEF tables, buffers, LogInv, Types, Shape

LEMMA CloseStep ==
  ASSUME LogInv, Close
  PROVE  LogInv' /\ Step
<1>1. UNCHANGED <<now, recorded, disk, db, open, errors>>
  BY DEF Close, past, tables, history
<1>2. CASE StartFlush
  BY <1>1, <1>2, TakeStep
<1>3. CASE UNCHANGED <<buffers, batch, at>>
  BY <1>1, <1>3, OtherStep DEF tables, LogInv, Types
<1> QED
  BY <1>2, <1>3 DEF Close

LEMMA ExitStep ==
  ASSUME LogInv, Exit
  PROVE  LogInv' /\ Step
<1>1. /\ at' = "idle" /\ batch' = Idle /\ rollups' = Zero
      /\ open' = FALSE /\ db' = disk /\ UNCHANGED <<now, recorded, disk, errors>>
  BY DEF Exit, Undo, Forget, past, history
<1>2. InFlight' = Zero
  BY <1>1 DEF InFlight, Zero
<1>3. \A k \in Keys : Counted(k)' = Counted(k)
  BY <1>1 DEF Counted, KeyOf
<1>4. \A k \in Keys : /\ Counted(k) \in Int /\ disk.rollup[k] \in Int /\ Zero[k] = 0
                      /\ rollups[k] \in Int /\ InFlight[k] \in Int
  BY CountedType, InFlightType DEF LogInv, Types, Shape, Zero
<1>5. Totals!Plus(InFlight, rollups) = [k \in Keys |-> InFlight[k] + rollups[k]]
  BY DEF Totals!Plus
<1>6. \A k \in Keys : Lost'[k] = Lost[k] + (InFlight[k] + rollups[k])
  BY <1>1, <1>2, <1>3, <1>4 DEF Lost
<1>7. Lost' = Totals!Plus(Lost, Totals!Plus(InFlight, rollups))
  BY <1>5, <1>6 DEF Lost, Totals!Plus
<1>8. Totals!End
  BY <1>1, <1>2, <1>7 DEF Failed, Totals!End, Totals!Zero, Zero
<1>9. Types'
  BY <1>1 DEF LogInv, Types, Shape, Idle, Zero
<1>10. Visible' /\ Progress'
  BY <1>1 DEF LogInv, Types, Shape, Visible, Progress
<1> QED
  BY <1>8, <1>9, <1>10 DEF LogInv, Step, Totals!Next

-----------------------------------------------------------------------------
(* The theorem *)

LEMMA LogInit ==
  ASSUME Init
  PROVE  LogInv /\ Totals!Init
<1>1. /\ at = "idle" /\ batch = Idle /\ rollups = Zero /\ open = FALSE /\ db = disk /\ now = 1
      /\ errors = 0
      /\ recorded \in {<<>>} \cup {<<[kind |-> kind, ts |-> 0]>> : kind \in Kinds}
      /\ disk = [rows |-> disk.rows, gone |-> {},
                 rollup |-> [k \in Keys |-> Counted(k)], seq |-> disk.seq]
  BY DEF Init
<1>2. recorded \in Seq([kind: Kinds, ts: 0 .. MaxTime]) /\ now \in 0 .. MaxTime
  <2>1. MaxTime \in Nat \ {0}
    BY EventLogAssumption
  <2>2. now \in 0 .. MaxTime
    BY <1>1, <2>1
  <2>3. ASSUME NEW kind \in Kinds, recorded = <<[kind |-> kind, ts |-> 0]>>
        PROVE  recorded \in Seq([kind: Kinds, ts: 0 .. MaxTime])
    <3>1. [kind |-> kind, ts |-> 0] \in [kind: Kinds, ts: 0 .. MaxTime]
      BY <2>1
    <3> QED
      BY <2>3, <3>1
  <2>4. CASE recorded = <<>>
    BY <2>2, <2>4
  <2> QED
    BY <1>1, <2>2, <2>3, <2>4 DEF Init
<1>3. \A k \in Keys : Counted(k) \in Nat
  BY <1>2, CountedType
<1>4. disk.rollup = [k \in Keys |-> Counted(k)] /\ disk.rollup \in [Keys -> Nat] /\ disk.gone = {}
  BY <1>1, <1>3
<1>5. Types
  BY <1>1, <1>2, <1>4 DEF Types, Shape, Idle, Zero
<1>6. Visible /\ Progress
  BY <1>1, <1>4 DEF Visible, Progress
<1>7. InFlight = Zero
  BY <1>1 DEF InFlight, Zero
<1>8. Lost = Zero
  <2>1. \A k \in Keys : Lost[k] = 0
    BY <1>1, <1>3, <1>4, <1>7 DEF Lost, Zero
  <2> QED
    BY <2>1 DEF Lost, Zero
<1>9. Totals!Init
  BY <1>1, <1>4, <1>7, <1>8 DEF Failed, Totals!Init, Totals!Counts, Totals!Zero, Zero
<1> QED
  BY <1>5, <1>6, <1>9 DEF LogInv

LEMMA LogNext ==
  ASSUME LogInv, [Next]_vars
  PROVE  LogInv' /\ Step
<1>1. ASSUME NEW kind \in Kinds, Record(kind) PROVE LogInv' /\ Step
  BY <1>1, RecordStep
<1>2. CASE FlushTimer
  BY <1>2, TakeStep DEF FlushTimer, past, tables, history
<1>3. CASE FlushStatement
  BY <1>3, BeginStep, EventStep, RollupStep, CommitStep, FailStep, RollbackStep
     DEF FlushStatement
<1>4. CASE PruneAge \/ PruneCap \/ PruneFails
  BY <1>4, PruneStep
<1>5. CASE Prune \/ Poll \/ Restart
  <2>1. /\ UNCHANGED <<recorded, tables, buffers, batch, at, errors>> /\ now' \in 0 .. MaxTime
    BY <1>5 DEF Prune, Poll, Restart, past, tables, buffers, flushing, history, LogInv, Types
  <2> QED
    BY <2>1, OtherStep
<1>6. CASE Tick
  <2>1. now \in 0 .. MaxTime /\ MaxTime \in Nat
    BY EventLogAssumption DEF LogInv, Types
  <2>2. now' \in 0 .. MaxTime
    BY <1>6, <2>1 DEF Tick
  <2>3. UNCHANGED <<recorded, tables, buffers, batch, at, errors>>
    BY <1>6 DEF Tick, tables, buffers, flushing, history
  <2> QED
    BY <2>2, <2>3, OtherStep
<1>7. CASE Close \/ Exit
  BY <1>7, CloseStep, ExitStep
<1>8. CASE UNCHANGED vars
  <2>1. /\ UNCHANGED <<recorded, tables, buffers, batch, at, errors>> /\ now' \in 0 .. MaxTime
    BY <1>8 DEF vars, past, tables, buffers, flushing, history, LogInv, Types
  <2> QED
    BY <2>1, OtherStep
<1> QED
  BY <1>1, <1>2, <1>3, <1>4, <1>5, <1>6, <1>7, <1>8 DEF Next

\* The hourly totals: every recorded event is buffered, in a flush, saved or
\* lost, and never counted twice, whichever statement of flush() or prune()
\* fails, and also when the transaction of a flush ends under it.
THEOREM TotalsImplemented == Spec => ImplementsTotals
<1>1. Init => LogInv /\ Totals!Init
  BY LogInit
<1>2. LogInv /\ [Next]_vars => LogInv' /\ [Totals!Next]_(Totals!vars)
  BY LogNext DEF Step
<1> QED
  BY <1>1, <1>2, PTL DEF Spec, ImplementsTotals, Totals!Spec

-----------------------------------------------------------------------------
(* The smallest and the largest of a set of numbers *)

\* The numbers are well-founded: the initial segments of a set of them have a
\* smallest.
LEMMA SmallestOf ==
  ASSUME NEW S \in SUBSET Nat, S # {}
  PROVE  \E s \in S : \A n \in S : s <= n
<1> DEFINE Up(n) == 0 .. n
           T == {Up(n) : n \in S}
           R == StrictSubsetOrdering(Nat)
<1>1. IsWellFoundedOn(R, FiniteSubsetsOf(Nat))
  BY FS_StrictSubsetOrderingWellFounded
<1>2. T \subseteq FiniteSubsetsOf(Nat) /\ T # {}
  <2>1. ASSUME NEW n \in S
        PROVE  Up(n) \in FiniteSubsetsOf(Nat)
    <3>1. n \in Int /\ 0 \in Int
      OBVIOUS
    <3>2. IsFiniteSet(0 .. n)
      BY <3>1, FS_Interval
    <3> QED
      BY <3>2 DEF FiniteSubsetsOf
  <2> QED
    BY <2>1
<1> HIDE DEF R
<1>3. \E x \in T : \A y \in T : ~ (<<y, x>> \in R)
  BY <1>1, <1>2, WFMin
<1>4. PICK s \in S : \A n \in S : ~ (<<Up(n), Up(s)>> \in R)
  BY <1>3
<1>5. ASSUME NEW n \in S, n < s
      PROVE  FALSE
  <2>1. n \in Nat /\ s \in Nat
    OBVIOUS
  <2>2. Up(n) \subseteq Up(s) /\ s \in Up(s) /\ s \notin Up(n)
    BY <1>5, <2>1
  <2>3. Up(n) \in SUBSET Nat /\ Up(s) \in SUBSET Nat
    BY <2>1
  <2>4. Up(n) # Up(s)
    BY <2>2
  <2> HIDE DEF Up
  <2> QED
    BY <1>4, <2>2, <2>3, <2>4 DEF R, StrictSubsetOrdering
<1>6. \A n \in S : s <= n
  BY <1>5
<1> QED
  BY <1>6

LEMMA MinOf ==
  ASSUME NEW S \in SUBSET Nat, S # {}
  PROVE  Min(S) \in S /\ \A n \in S : Min(S) <= n
<1>1. \E s : s \in S /\ \A n \in S : s <= n
  BY SmallestOf
<1> DEFINE P(x) == x \in S /\ \A n \in S : x <= n
<1>2. P(CHOOSE x : P(x))
  BY <1>1
<1>3. Min(S) = CHOOSE x : P(x)
  BY DEF Min
<1> QED
  BY <1>2, <1>3

LEMMA MaxOf ==
  ASSUME NEW S, NEW b \in Nat, S \subseteq 0 .. b, S # {}
  PROVE  Max(S) \in S /\ \A n \in S : Max(S) >= n
<1> DEFINE T == {n \in 0 .. b : b - n \in S}
<1>1. T \in SUBSET Nat /\ T # {}
  <2>1. PICK n : n \in S
    OBVIOUS
  <2>2. n \in 0 .. b /\ b - n \in 0 .. b /\ b - (b - n) = n
    BY <2>1
  <2> QED
    BY <2>1, <2>2
<1>2. PICK s \in T : \A n \in T : s <= n
  BY <1>1, SmallestOf
<1>3. \E x : x \in S /\ \A n \in S : x >= n
  <2>1. b - s \in S /\ s \in 0 .. b
    BY <1>2
  <2>2. ASSUME NEW n \in S
        PROVE  b - s >= n
    <3>1. n \in 0 .. b /\ b - n \in 0 .. b /\ b - (b - n) = n
      OBVIOUS
    <3>2. s <= b - n
      BY <1>2, <3>1
    <3> QED
      BY <2>1, <3>1, <3>2
  <2> QED
    BY <2>1, <2>2
<1> DEFINE P(x) == x \in S /\ \A n \in S : x >= n
<1>4. P(CHOOSE x : P(x))
  BY <1>3
<1>5. Max(S) = CHOOSE x : P(x)
  BY DEF Max
<1> QED
  BY <1>4, <1>5

-----------------------------------------------------------------------------
(* The way of an event: buffer, batch, row *)

\* The tables hold events that were recorded, each row at least one.
Rowed(t) ==
  /\ t.seq \in Nat /\ t.gone \subseteq DOMAIN recorded
  /\ DOMAIN t.rows \subseteq 1 .. t.seq
  /\ t.rows \in [DOMAIN t.rows -> SUBSET DOMAIN recorded]
  /\ \A id \in DOMAIN t.rows : t.rows[id] # {}

\* Events pass through in the order in which they were recorded.
InOrder ==
  /\ pending \in Seq(Events) /\ batch.events \in Seq(Events)
  /\ \A i, j \in DOMAIN pending : i < j => pending[i] < pending[j]
  /\ \A i, j \in DOMAIN batch.events : i < j => batch.events[i] < batch.events[j]
  /\ \A i \in DOMAIN batch.events, j \in DOMAIN pending :
       batch.events[i] < pending[j]
  /\ \A i \in DOMAIN pending : pending[i] <= Len(recorded)
  /\ \A i \in DOMAIN batch.events : batch.events[i] <= Len(recorded)

\* How far the running flush is with its batch.
Position ==
  /\ batch.next \in 1 .. Len(batch.events) + 1
  /\ at = "idle" => batch.events = <<>>
  /\ at = "begin" => batch.next = 1
  /\ at \in {"write", "insert"} => batch.next <= Len(batch.events)
  /\ at \in {"rollup", "commit"} => batch.next = Len(batch.events) + 1

ToWrite == batch.next .. Len(batch.events)

\* What is in a row came before what is still to be written.
Behind(t) ==
  \A id \in DOMAIN t.rows : \A n \in t.rows[id] :
    /\ \A j \in ToWrite : n < batch.events[j]
    /\ \A j \in DOMAIN pending : n < pending[j]

FlowInv ==
  /\ InOrder /\ Position
  /\ Rowed(db) /\ Rowed(disk) /\ Behind(db) /\ Behind(disk)
  /\ ~open => db = disk

-----------------------------------------------------------------------------
(* What the statements do to the rows *)

\* The statement was written: outside a transaction it is committed.
Wrote == disk' = (IF open THEN disk ELSE db') /\ UNCHANGED <<open, client>>

SameRows(u) == u.rows = db.rows /\ u.gone = db.gone /\ u.seq = db.seq

FoldedInto(u, id, n) ==
  /\ id \in DOMAIN db.rows /\ u.gone = db.gone /\ u.seq = db.seq
  /\ u.rows = [j \in DOMAIN db.rows |-> IF j = id THEN db.rows[j] \cup {n}
                                        ELSE db.rows[j]]

WithNewRow(u, n) ==
  /\ u.gone = db.gone /\ u.seq = db.seq + 1
  /\ u.rows = [j \in DOMAIN db.rows \cup {db.seq + 1} |->
                 IF j \in DOMAIN db.rows THEN db.rows[j] ELSE {n}]

Without(u, ids) ==
  /\ ids \subseteq DOMAIN db.rows /\ u.seq = db.seq
  /\ u.gone = db.gone \cup UNION {db.rows[id] : id \in ids}
  /\ u.rows = [j \in DOMAIN db.rows \ ids |-> db.rows[j]]

LEMMA UpdateRows ==
  ASSUME LogInv, FlowInv, UpdateEvent
  PROVE  \/ UNCHANGED <<tables, batch, client>> /\ at' = "insert"
         \/ /\ FoldedInto(db', targets[recorded[Event].kind].id, Event)
            /\ Wrote /\ NextEvent
<1> DEFINE id == targets[recorded[Event].kind].id
           n == Event
           u == [db EXCEPT !.rows[id] = @ \cup {n}]
<1>1. CASE id \in DOMAIN db.rows
  <2>1. Write(u) /\ NextEvent
    BY <1>1 DEF UpdateEvent
  <2>2. FoldedInto(u, id, n)
    <3>1. /\ db = [rows |-> db.rows, gone |-> db.gone, rollup |-> db.rollup,
                   seq |-> db.seq]
          /\ db.rows = [j \in DOMAIN db.rows |-> db.rows[j]]
      BY DEF LogInv, Types, Shape, FlowInv, Rowed
    <3> HIDE DEF n, id
    <3>2. u.rows = [db.rows EXCEPT ![id] = @ \cup {n}]
      BY <3>1
    <3>3. u.gone = db.gone /\ u.seq = db.seq
      BY <3>1
    <3> HIDE DEF u
    <3> QED
      BY <1>1, <3>1, <3>2, <3>3 DEF FoldedInto
  <2> HIDE DEF u, n, id
  <2>3. db' = u /\ Wrote
    BY <2>1 DEF Write, Wrote
  <2> QED
    BY <2>1, <2>2, <2>3 DEF n, id, FoldedInto
<1>2. CASE id \notin DOMAIN db.rows
  BY <1>2 DEF UpdateEvent
<1> QED
  BY <1>1, <1>2

LEMMA InsertRows ==
  ASSUME LogInv, FlowInv, InsertEvent
  PROVE  WithNewRow(db', Event) /\ Wrote /\ NextEvent
<1> DEFINE id == db.seq + 1
           n == Event
           u == [db EXCEPT !.rows = Put(@, id, {n}), !.seq = id]
<1>1. Write(u) /\ NextEvent
  BY DEF InsertEvent
<1>2. WithNewRow(u, n)
  <2>1. /\ db = [rows |-> db.rows, gone |-> db.gone, rollup |-> db.rollup,
                 seq |-> db.seq]
        /\ db.rows = [j \in DOMAIN db.rows |-> db.rows[j]]
        /\ id \notin DOMAIN db.rows /\ id = db.seq + 1
    BY DEF LogInv, Types, Shape, FlowInv, Rowed
  <2> HIDE DEF n, id
  <2> DEFINE r == Put(db.rows, id, {n})
  <2>2. r = [j \in DOMAIN db.rows \cup {id} |->
               IF j \in DOMAIN db.rows THEN db.rows[j] ELSE {n}]
    BY <2>1 DEF Put
  <2> HIDE DEF r
  <2>3. u = [db EXCEPT !.rows = r, !.seq = id]
    BY DEF r
  <2>4. u = [rows |-> r, gone |-> db.gone, rollup |-> db.rollup, seq |-> id]
    BY <2>3, RowsExcept
  <2> HIDE DEF u
  <2> QED
    BY <2>1, <2>2, <2>4 DEF WithNewRow
<1> HIDE DEF u, n, id
<1>3. db' = u /\ Wrote
  BY <1>1 DEF Write, Wrote
<1> QED
  BY <1>1, <1>2, <1>3 DEF n, WithNewRow

LEMMA RollupRows ==
  ASSUME LogInv, FlowInv, WriteRollup
  PROVE  /\ SameRows(db') /\ Wrote
         /\ batch'.events = batch.events /\ batch'.next = batch.next
         /\ at' \in {"rollup", "commit"}
<1>1. PICK k \in batch.keys :
        /\ Write([db EXCEPT !.rollup[k] = @ + batch.rollups[k]])
        /\ batch' = [batch EXCEPT !.keys = @ \ {k}]
        /\ at' = IF batch.keys = {k} THEN "commit" ELSE "rollup"
  BY DEF WriteRollup
<1> DEFINE u == [db EXCEPT !.rollup[k] = @ + batch.rollups[k]]
<1>2. SameRows(u)
  <2>1. db = [rows |-> db.rows, gone |-> db.gone, rollup |-> db.rollup, seq |-> db.seq]
    BY DEF LogInv, Types, Shape
  <2> QED
    BY <2>1 DEF SameRows
<1> HIDE DEF u
<1>3. db' = u /\ Wrote
  BY <1>1 DEF Write, Wrote, u
<1>4. batch'.events = batch.events /\ batch'.next = batch.next
  BY <1>1 DEF LogInv, Types
<1> QED
  BY <1>1, <1>2, <1>3, <1>4 DEF SameRows

LEMMA PruneRows ==
  ASSUME LogInv, FlowInv, PruneAge \/ PruneCap
  PROVE  Wrote /\ \E ids : Without(db', ids)
<1>1. PICK ids : ids \subseteq DOMAIN db.rows /\ Write(Delete(ids))
  <2>1. CASE PruneAge
    BY <2>1 DEF PruneAge
  <2>2. CASE PruneCap
    BY <2>2 DEF PruneCap
  <2> QED
    BY <2>1, <2>2
<1> DEFINE r == Restrict(db.rows, DOMAIN db.rows \ ids)
           g == db.gone \cup UNION {db.rows[id] : id \in ids}
<1>2. Delete(ids) = [db EXCEPT !.rows = r, !.gone = g]
  BY DEF Delete
<1> HIDE DEF r, g
<1>3. Delete(ids) = [rows |-> r, gone |-> g, rollup |-> db.rollup, seq |-> db.seq]
  BY <1>2, RowsExcept
<1>4. db' = [rows |-> r, gone |-> g, rollup |-> db.rollup, seq |-> db.seq] /\ Wrote
  BY <1>1, <1>3 DEF Write, Wrote
<1>5. Without(db', ids)
  BY <1>1, <1>4 DEF Without, r, g, Restrict
<1> QED
  BY <1>4, <1>5

-----------------------------------------------------------------------------
(* FlowInv is inductive *)

LEMMA NumbersOfEvents ==
  ASSUME LogInv, FlowInv
  PROVE  /\ Len(recorded) \in Nat /\ DOMAIN recorded = 1 .. Len(recorded)
         /\ Len(pending) \in Nat /\ DOMAIN pending = 1 .. Len(pending)
         /\ Len(batch.events) \in Nat
         /\ DOMAIN batch.events = 1 .. Len(batch.events)
         /\ \A i \in DOMAIN pending : pending[i] \in DOMAIN recorded
         /\ \A i \in DOMAIN batch.events : batch.events[i] \in DOMAIN recorded
         /\ \A t \in {db, disk} : \A id \in DOMAIN t.rows :
              id \in Nat /\ t.rows[id] \subseteq DOMAIN recorded /\ t.rows[id] # {}
<1>1. /\ recorded \in Seq([kind: Kinds, ts: 0 .. MaxTime])
      /\ pending \in Seq(Events) /\ batch.events \in Seq(Events)
      /\ Rowed(db) /\ Rowed(disk) /\ InOrder
  BY DEF LogInv, Types, FlowInv, InOrder
<1>2. Len(recorded) \in Nat /\ DOMAIN recorded = 1 .. Len(recorded)
  BY <1>1
<1>3. Len(pending) \in Nat /\ DOMAIN pending = 1 .. Len(pending)
  BY <1>1
<1>4. Len(batch.events) \in Nat /\ DOMAIN batch.events = 1 .. Len(batch.events)
  BY <1>1
<1>5. MaxEvents \in Nat /\ Events = 1 .. MaxEvents
  BY EventLogAssumption DEF Events
<1>6. /\ \A i \in DOMAIN pending : pending[i] \in Events
      /\ \A i \in DOMAIN batch.events : batch.events[i] \in Events
  BY <1>1
<1>7. \A i \in DOMAIN pending : pending[i] \in DOMAIN recorded
  BY <1>1, <1>2, <1>5, <1>6 DEF InOrder
<1>8. \A i \in DOMAIN batch.events : batch.events[i] \in DOMAIN recorded
  BY <1>1, <1>2, <1>5, <1>6 DEF InOrder
<1>9. \A t \in {db, disk} : \A id \in DOMAIN t.rows :
        id \in Nat /\ t.rows[id] \subseteq DOMAIN recorded /\ t.rows[id] # {}
  BY <1>1 DEF Rowed
<1> QED
  BY <1>2, <1>3, <1>4, <1>7, <1>8, <1>9

\* A step of the running flush, or of one who shares its connection.
LEMMA FlowGoesOn ==
  ASSUME LogInv, FlowInv, UNCHANGED <<recorded, pending>>,
         batch'.events = batch.events, batch'.next \in {batch.next, batch.next + 1},
         Position', Rowed(db)', Behind(db)', disk' = disk \/ disk' = db',
         ~open' => db' = disk'
  PROVE  FlowInv'
<1>1. InOrder'
  BY DEF FlowInv, InOrder
<1>2. /\ Len(batch.events) \in Nat /\ batch.next \in Nat
      /\ ToWrite' \subseteq ToWrite
  <2>1. Len(batch.events) \in Nat
    BY NumbersOfEvents
  <2>2. batch.next \in Nat
    BY <2>1 DEF FlowInv, Position
  <2> QED
    BY <2>1, <2>2 DEF ToWrite
<1>3. disk' = disk => Rowed(disk)' /\ Behind(disk)'
  <2>1. ASSUME disk' = disk
        PROVE  Rowed(disk)'
    BY <2>1 DEF FlowInv, Rowed
  <2>2. ASSUME disk' = disk
        PROVE  Behind(disk)'
    BY <2>2, <1>2 DEF FlowInv, Behind
  <2> QED
    BY <2>1, <2>2
<1>4. disk' = db' => Rowed(disk)' /\ Behind(disk)'
  <2>1. ASSUME disk' = db'
        PROVE  Rowed(disk)'
    BY <2>1 DEF Rowed
  <2>2. ASSUME disk' = db'
        PROVE  Behind(disk)'
    BY <2>2 DEF Behind
  <2> QED
    BY <2>1, <2>2
<1> QED
  BY <1>1, <1>3, <1>4 DEF FlowInv

\* The tables and the buffers stay, or the transaction is undone.
LEMMA FlowStays ==
  ASSUME LogInv, FlowInv, UNCHANGED <<recorded, pending, batch, disk>>, Position',
         db' = db \/ db' = disk, ~open' => db' = disk
  PROVE  FlowInv'
<1>1. ToWrite' = ToWrite
  BY DEF ToWrite
<1>2. Rowed(db)'
  <2>1. Rowed(db) /\ Rowed(disk)
    BY DEF FlowInv
  <2> QED
    BY <2>1 DEF Rowed
<1>3. Behind(db)'
  <2>1. Behind(db) /\ Behind(disk)
    BY DEF FlowInv
  <2> QED
    BY <2>1, <1>1 DEF Behind
<1> QED
  BY <1>2, <1>3, FlowGoesOn

\* The flush is over, or its process is.
LEMMA FlowEnds ==
  ASSUME LogInv, FlowInv, UNCHANGED recorded, batch' = Idle, at' = "idle",
         pending' = pending \/ pending' = <<>>,
         db' = db \/ db' = disk, disk' = disk \/ disk' = db, ~open' => db' = disk'
  PROVE  FlowInv'
<1>1. batch'.events = <<>> /\ batch'.next = 1
  BY DEF Idle
<1>2. InOrder'
  <2>1. /\ pending' \in Seq(Events) /\ batch'.events \in Seq(Events)
        /\ DOMAIN batch'.events = {} /\ DOMAIN pending' \subseteq DOMAIN pending
    <3>1. pending \in Seq(Events)
      BY DEF FlowInv, InOrder
    <3>2. <<>> \in Seq(Events) /\ DOMAIN <<>> = {}
      OBVIOUS
    <3> QED
      BY <1>1, <3>1, <3>2
  <2> QED
    BY <2>1 DEF FlowInv, InOrder
<1>3. Position' /\ ToWrite' = {}
  BY <1>1 DEF Position, ToWrite
<1>4. \A t \in {db, disk} : Rowed(t) /\ Behind(t)
  BY DEF FlowInv
<1>5. Rowed(db)' /\ Rowed(disk)'
  BY <1>4 DEF Rowed
<1>6. Behind(db)' /\ Behind(disk)'
  <2>1. DOMAIN pending' = {} \/ pending' = pending
    OBVIOUS
  <2> QED
    BY <1>3, <1>4, <2>1 DEF Behind
<1> QED
  BY <1>2, <1>3, <1>5, <1>6 DEF FlowInv

LEMMA FlowTaken ==
  ASSUME LogInv, FlowInv, StartFlush, UNCHANGED <<recorded, tables>>
  PROVE  FlowInv'
<1>1. /\ batch'.events = pending /\ batch'.next = 1 /\ pending' = <<>> /\ at' = "begin"
      /\ DOMAIN pending' = {} /\ UNCHANGED <<recorded, db, disk, open>>
  BY DEF StartFlush, tables
<1>2. InOrder'
  BY <1>1 DEF FlowInv, InOrder
<1>3. Position'
  BY <1>1, NumbersOfEvents DEF Position
<1>4. \A j \in ToWrite' : j \in DOMAIN pending /\ batch'.events[j] = pending[j]
  BY <1>1, NumbersOfEvents DEF ToWrite
<1>5. \A t \in {db, disk} : Rowed(t) /\ Behind(t)
  BY DEF FlowInv
<1>6. Rowed(db)' /\ Rowed(disk)'
  BY <1>1, <1>5 DEF Rowed
<1>7. Behind(db)' /\ Behind(disk)'
  BY <1>1, <1>4, <1>5 DEF Behind
<1> QED
  BY <1>1, <1>2, <1>3, <1>6, <1>7 DEF FlowInv

LEMMA Recorded ==
  ASSUME LogInv, NEW kind \in Kinds, Record(kind)
  PROVE  /\ Len(recorded') = Len(recorded) + 1 /\ DOMAIN recorded \subseteq DOMAIN recorded'
         /\ DOMAIN recorded' = 1 .. Len(recorded) + 1
         /\ recorded'[Len(recorded) + 1] = [kind |-> kind, ts |-> now]
         /\ \A n \in DOMAIN recorded : recorded'[n] = recorded[n]
         /\ Len(recorded') \in Events /\ Len(recorded) \in Nat
         /\ UNCHANGED <<now, base, tables, mode, batch, at, targets, prune, client, history>>
<1>1. /\ recorded' = Append(recorded, [kind |-> kind, ts |-> now])
      /\ Len(recorded) < MaxEvents
  BY DEF Record
<1>2. recorded \in Seq([kind: Kinds, ts: 0 .. MaxTime]) /\ now \in 0 .. MaxTime
  BY DEF LogInv, Types
<1>3. MaxEvents \in Nat
  BY EventLogAssumption
<1>4. [kind |-> kind, ts |-> now] \in [kind: Kinds, ts: 0 .. MaxTime]
  BY <1>2
<1> QED
  BY <1>1, <1>2, <1>3, <1>4 DEF Record, Events

LEMMA FlowRecords ==
  ASSUME LogInv, FlowInv, NEW kind \in Kinds, Record(kind)
  PROVE  FlowInv'
<1> DEFINE n == Len(recorded) + 1
<1>1. /\ Len(recorded') = n /\ DOMAIN recorded \subseteq DOMAIN recorded'
      /\ Len(recorded') \in Events /\ Len(recorded) \in Nat
      /\ UNCHANGED <<db, disk, open, batch, at>>
  BY Recorded DEF tables
<1>2. pending \in Seq(Events) /\ n \in Events
  BY <1>1 DEF FlowInv, InOrder
<1>3. pending' = pending \/ pending' = Append(pending, n)
  BY <1>1 DEF Record, Buffer
<1>4. /\ pending' \in Seq(Events)
      /\ \A i \in DOMAIN pending' : \/ i \in DOMAIN pending /\ pending'[i] = pending[i]
                                    \/ i = Len(pending) + 1 /\ pending'[i] = n
      /\ Len(pending) \in Nat /\ DOMAIN pending = 1 .. Len(pending)
  BY <1>2, <1>3
<1>5. DOMAIN pending' \subseteq Nat
  BY <1>4
<1>6. /\ \A i \in DOMAIN pending : pending[i] \in Nat /\ pending[i] < n
      /\ \A i \in DOMAIN batch.events : batch.events[i] \in Nat /\ batch.events[i] < n
      /\ \A t \in {db, disk} : \A id \in DOMAIN t.rows : \A m \in t.rows[id] :
           m \in Nat /\ m < n
  BY NumbersOfEvents
<1> HIDE DEF n
<1>7. \A i, j \in DOMAIN pending' : i < j => pending'[i] < pending'[j]
  <2>1. \A i, j \in DOMAIN pending : i < j => pending[i] < pending[j]
    BY DEF FlowInv, InOrder
  <2> SUFFICES ASSUME NEW i \in DOMAIN pending', NEW j \in DOMAIN pending', i < j
               PROVE  pending'[i] < pending'[j]
    OBVIOUS
  <2>2. i \in DOMAIN pending
    BY <1>4, <1>5
  <2>3. CASE j \in DOMAIN pending
    BY <2>1, <2>2, <2>3, <1>4
  <2>4. CASE j \notin DOMAIN pending
    BY <2>2, <2>4, <1>4, <1>6
  <2> QED
    BY <2>3, <2>4
<1>8. \A i \in DOMAIN batch.events, j \in DOMAIN pending' : batch.events[i] < pending'[j]
  BY <1>4, <1>6 DEF FlowInv, InOrder
<1>9. \A i \in DOMAIN pending' : pending'[i] <= n
  BY <1>2, <1>4, <1>6 DEF Events
<1>10. \A i \in DOMAIN batch.events : batch.events[i] <= n
  BY <1>2, <1>6 DEF Events
<1>11. InOrder'
  BY <1>1, <1>4, <1>7, <1>8, <1>9, <1>10 DEF FlowInv, InOrder
<1>12. Position' /\ ToWrite' = ToWrite
  BY <1>1 DEF FlowInv, Position, ToWrite
<1>13. \A t \in {db, disk} : Rowed(t) /\ Behind(t)
  BY DEF FlowInv
<1>14. Rowed(db)' /\ Rowed(disk)'
  BY <1>1, <1>13 DEF Rowed
<1>15. Behind(db)'
  BY <1>1, <1>4, <1>6, <1>12, <1>13 DEF Behind
<1>16. Behind(disk)'
  BY <1>1, <1>4, <1>6, <1>12, <1>13 DEF Behind
<1> QED
  BY <1>1, <1>11, <1>12, <1>14, <1>15, <1>16 DEF FlowInv

\* The flush is through with one event.
LEMMA Advance ==
  ASSUME LogInv, FlowInv, at \in {"write", "insert"}, NextEvent,
         UNCHANGED <<recorded, pending>>
  PROVE  /\ batch'.events = batch.events /\ batch'.next = batch.next + 1
         /\ Position' /\ Event \in DOMAIN recorded
         /\ \A j \in ToWrite' : j \in ToWrite /\ Event < batch.events[j]
         /\ \A j \in DOMAIN pending : Event < pending[j]
         /\ batch.next \in DOMAIN batch.events
<1>1. /\ Len(batch.events) \in Nat /\ DOMAIN batch.events = 1 .. Len(batch.events)
      /\ Event = batch.events[batch.next]
  BY NumbersOfEvents DEF Event
<1>2. batch.next \in 1 .. Len(batch.events)
  BY <1>1 DEF FlowInv, Position
<1>3. /\ batch'.events = batch.events /\ batch'.next = batch.next + 1
      /\ at' = IF batch.next < Len(batch.events) THEN "write"
               ELSE IF batch.keys # {} THEN "rollup" ELSE "commit"
  BY DEF NextEvent, LogInv, Types
<1>4. Position'
  BY <1>1, <1>2, <1>3 DEF Position
<1>5. Event \in DOMAIN recorded
  BY <1>1, <1>2, NumbersOfEvents
<1>6. \A j \in ToWrite' : j \in ToWrite /\ j \in DOMAIN batch.events /\ batch.next < j
  BY <1>1, <1>2, <1>3 DEF ToWrite
<1>7. \A j \in ToWrite' : Event < batch.events[j]
  BY <1>1, <1>2, <1>6 DEF FlowInv, InOrder
<1>8. \A j \in DOMAIN pending : Event < pending[j]
  BY <1>1, <1>2 DEF FlowInv, InOrder
<1> QED
  BY <1>1, <1>2, <1>3, <1>4, <1>5, <1>6, <1>7, <1>8

LEMMA FlowFolds ==
  ASSUME LogInv, FlowInv, at \in {"write", "insert"}, NextEvent,
         UNCHANGED <<recorded, pending>>, Wrote,
         NEW id, FoldedInto(db', id, Event)
  PROVE  FlowInv'
<1>1. /\ batch'.events = batch.events /\ batch'.next = batch.next + 1
      /\ Position' /\ Event \in DOMAIN recorded
      /\ \A j \in ToWrite' : j \in ToWrite /\ Event < batch.events[j]
      /\ \A j \in DOMAIN pending : Event < pending[j]
  BY Advance
<1>2. PICK n : n = Event
  OBVIOUS
<1>3. /\ id \in DOMAIN db.rows /\ db'.gone = db.gone /\ db'.seq = db.seq
      /\ DOMAIN db'.rows = DOMAIN db.rows
      /\ db'.rows = [j \in DOMAIN db.rows |-> IF j = id THEN db.rows[j] \cup {n}
                                              ELSE db.rows[j]]
  BY <1>2 DEF FoldedInto
<1>4. Rowed(db)'
  <2>1. Rowed(db) /\ n \in DOMAIN recorded
    BY <1>1, <1>2 DEF FlowInv
  <2> QED
    BY <1>3, <2>1 DEF Rowed
<1>5. Behind(db)'
  <2>1. Behind(db) /\ \A j \in ToWrite' : j \in ToWrite /\ n < batch.events[j]
    BY <1>1, <1>2 DEF FlowInv
  <2>2. \A j \in DOMAIN pending : n < pending[j]
    BY <1>1, <1>2
  <2> QED
    BY <1>1, <1>3, <2>1, <2>2 DEF Behind
<1>6. disk' = (IF open THEN disk ELSE db') /\ open' = open
  BY DEF Wrote
<1> QED
  BY <1>1, <1>4, <1>5, <1>6, FlowGoesOn

LEMMA FlowInserts ==
  ASSUME LogInv, FlowInv, at \in {"write", "insert"}, NextEvent,
         UNCHANGED <<recorded, pending>>, Wrote, WithNewRow(db', Event)
  PROVE  FlowInv'
<1>1. /\ batch'.events = batch.events /\ batch'.next = batch.next + 1
      /\ Position' /\ Event \in DOMAIN recorded
      /\ \A j \in ToWrite' : j \in ToWrite /\ Event < batch.events[j]
      /\ \A j \in DOMAIN pending : Event < pending[j]
  BY Advance
<1>2. PICK n : n = Event
  OBVIOUS
<1>3. /\ db'.gone = db.gone /\ db'.seq = db.seq + 1
      /\ DOMAIN db'.rows = DOMAIN db.rows \cup {db.seq + 1}
      /\ db'.rows = [j \in DOMAIN db.rows \cup {db.seq + 1} |->
                       IF j \in DOMAIN db.rows THEN db.rows[j] ELSE {n}]
  BY <1>2 DEF WithNewRow
<1>4. Rowed(db)'
  <2>1. Rowed(db) /\ n \in DOMAIN recorded
    BY <1>1, <1>2 DEF FlowInv
  <2>2. db'.seq \in Nat /\ DOMAIN db'.rows \subseteq 1 .. db'.seq
    BY <1>3, <2>1 DEF Rowed
  <2> QED
    BY <1>3, <2>1, <2>2 DEF Rowed
<1>5. Behind(db)'
  <2>1. Behind(db) /\ \A j \in ToWrite' : j \in ToWrite /\ n < batch.events[j]
    BY <1>1, <1>2 DEF FlowInv
  <2>2. \A j \in DOMAIN pending : n < pending[j]
    BY <1>1, <1>2
  <2> QED
    BY <1>1, <1>3, <2>1, <2>2 DEF Behind
<1>6. disk' = (IF open THEN disk ELSE db') /\ open' = open
  BY DEF Wrote
<1> QED
  BY <1>1, <1>4, <1>5, <1>6, FlowGoesOn

LEMMA FlowWritesRollup ==
  ASSUME LogInv, FlowInv, WriteRollup
  PROVE  FlowInv'
<1>1. /\ SameRows(db') /\ Wrote /\ batch'.events = batch.events /\ batch'.next = batch.next
      /\ at' \in {"rollup", "commit"} /\ at = "rollup" /\ UNCHANGED <<recorded, pending>>
  BY RollupRows DEF WriteRollup, past, buffers
<1>2. Position' /\ ToWrite' = ToWrite
  BY <1>1 DEF FlowInv, Position, ToWrite
<1>3. Rowed(db)' /\ Behind(db)'
  BY <1>1, <1>2 DEF FlowInv, Rowed, Behind, SameRows
<1>4. disk' = (IF open THEN disk ELSE db') /\ open' = open
  BY <1>1 DEF Wrote
<1> QED
  BY <1>1, <1>2, <1>3, <1>4, FlowGoesOn

LEMMA FlowDeletes ==
  ASSUME LogInv, FlowInv, PruneAge \/ PruneCap
  PROVE  FlowInv'
<1>1. PICK ids : Without(db', ids) /\ Wrote
  BY PruneRows
<1>2. UNCHANGED <<recorded, pending, batch, at>>
  BY DEF PruneAge, PruneCap, past, buffers, flushing
<1>3. Position' /\ ToWrite' = ToWrite
  BY <1>2 DEF FlowInv, Position, ToWrite
<1>4. Rowed(db)'
  <2>1. Rowed(db)
    BY DEF FlowInv
  <2>2. db'.gone \subseteq DOMAIN recorded
    BY <1>1, <2>1 DEF Without, Rowed
  <2> QED
    BY <1>1, <1>2, <2>1, <2>2 DEF Rowed, Without
<1>5. Behind(db)'
  BY <1>1, <1>2, <1>3 DEF FlowInv, Behind, Without
<1>6. disk' = (IF open THEN disk ELSE db') /\ open' = open
  BY <1>1 DEF Wrote
<1> QED
  BY <1>2, <1>3, <1>4, <1>5, <1>6, FlowGoesOn

\* A statement that fails, whose it may be.
LEMMA FlowFails ==
  ASSUME LogInv, FlowInv, StatementFails \/ PruneFails
  PROVE  FlowInv'
<1>1. UNCHANGED <<recorded, pending, batch>> /\ Position'
  BY DEF StatementFails, PruneFails, past, buffers, flushing, FlowInv, Position
<1>2. (UNCHANGED tables) \/ Undo
  BY DEF StatementFails, PruneFails, Error, tables
<1> QED
  BY <1>1, <1>2, FlowStays DEF tables, Undo, FlowInv

\* A step that touches neither the tables nor what is to be written.
LEMMA FlowOther ==
  ASSUME LogInv, FlowInv, UNCHANGED <<recorded, tables, pending, batch, at>>
  PROVE  FlowInv'
<1>1. Position'
  BY DEF FlowInv, Position
<1> QED
  BY <1>1, FlowStays DEF tables, FlowInv

LEMMA FlowStep ==
  ASSUME LogInv, FlowInv, [Next]_vars
  PROVE  FlowInv'
<1>1. ASSUME NEW kind \in Kinds, Record(kind) PROVE FlowInv'
  BY <1>1, FlowRecords
<1>2. CASE FlushTimer
  BY <1>2, FlowTaken DEF FlushTimer, past
<1>3. CASE Begin
  <2>1. /\ UNCHANGED <<recorded, pending, batch, disk, db>> /\ open'
        /\ at = "begin" /\ at' = IF batch.events # <<>> THEN "write" ELSE "rollup"
    BY <1>3 DEF Begin, past, buffers
  <2>2. Position'
    <3>1. Len(batch.events) \in Nat /\ batch.events \in Seq(Events) /\ batch.next = 1
      BY <2>1, NumbersOfEvents DEF FlowInv, Position, InOrder
    <3> QED
      BY <2>1, <3>1 DEF Position
  <2> QED
    BY <2>1, <2>2, FlowStays
<1>4. CASE UpdateEvent
  <2>1. at = "write" /\ UNCHANGED <<recorded, pending>>
    BY <1>4 DEF UpdateEvent, past, buffers
  <2>2. CASE (UNCHANGED <<tables, batch>>) /\ at' = "insert"
    <3>1. Position'
      BY <2>1, <2>2 DEF FlowInv, Position
    <3> QED
      BY <2>1, <2>2, <3>1, FlowStays DEF tables, FlowInv
  <2>3. CASE /\ FoldedInto(db', targets[recorded[Event].kind].id, Event)
             /\ Wrote /\ NextEvent
    BY <2>1, <2>3, FlowFolds
  <2> QED
    BY <1>4, <2>2, <2>3, UpdateRows
<1>5. CASE InsertEvent
  <2>1. at \in {"write", "insert"} /\ UNCHANGED <<recorded, pending>>
    BY <1>5 DEF InsertEvent, past, buffers
  <2> QED
    BY <1>5, <2>1, InsertRows, FlowInserts
<1>6. CASE WriteRollup
  BY <1>6, FlowWritesRollup
<1>7. CASE Commit
  BY <1>7, FlowEnds DEF Commit, EndFlush, past, buffers
<1>8. CASE StatementFails \/ PruneFails
  BY <1>8, FlowFails
<1>9. CASE Rollback
  <2>1. /\ UNCHANGED <<recorded, pending, disk>> /\ batch' = Idle /\ at' = "idle"
        /\ db' = (IF open THEN disk ELSE db) /\ open' = FALSE
    BY <1>9 DEF Rollback, FailFlush, EndFlush, Undo, tables, past, buffers, LogInv, Types
  <2> QED
    BY <2>1, FlowEnds DEF FlowInv
<1>10. CASE PruneAge \/ PruneCap
  BY <1>10, FlowDeletes
<1>11. CASE Prune \/ Poll \/ Restart \/ Tick
  BY <1>11, FlowOther DEF Prune, Poll, Restart, Tick, past, buffers, flushing
<1>12. CASE Close
  <2>1. CASE StartFlush
    BY <1>12, <2>1, FlowTaken DEF Close, past
  <2>2. CASE UNCHANGED <<buffers, batch, at>>
    BY <1>12, <2>2, FlowOther DEF Close, past, buffers
  <2> QED
    BY <1>12, <2>1, <2>2 DEF Close
<1>13. CASE Exit
  BY <1>13, FlowEnds DEF Exit, Undo, Forget, past
<1>14. CASE UNCHANGED vars
  BY <1>14, FlowOther DEF vars, past, buffers, flushing
<1> QED
  BY <1>1, <1>2, <1>3, <1>4, <1>5, <1>6, <1>7, <1>8, <1>9, <1>10, <1>11, <1>12,
     <1>13, <1>14 DEF Next, FlushStatement

-----------------------------------------------------------------------------
(* Type correctness *)

\* What TypeOK says beyond LogInv and FlowInv.
OtherTypes ==
  /\ Len(recorded) <= MaxEvents /\ base \in 0 .. Len(recorded)
  /\ mode \in {"running", "closing", "closed", "down"}
  /\ Len(pending) <= MaxPending
  /\ at \in {"idle", "begin", "write", "insert", "rollup", "commit", "rollback"}
  /\ DOMAIN targets \subseteq Kinds /\ dropped \in Nat
  /\ prune \in [at: {"idle", "age", "cap"}, cutoff: Int]
  /\ client \in [since: Nat, seen: SUBSET Events, dirty: BOOLEAN, undone: BOOLEAN]
  /\ errors \in 0 .. MaxErrors /\ starts \in 0 .. MaxStarts /\ torn \in BOOLEAN

TypeInv == LogInv /\ FlowInv /\ OtherTypes

LEMMA TypesImplied ==
  ASSUME TypeInv
  PROVE  TypeOK
<1>1. batch \in [events: Seq(Events), next: Nat, rollups: [Keys -> Nat], keys: SUBSET Keys]
  <2>1. batch = [events |-> batch.events, next |-> batch.next,
                 rollups |-> batch.rollups, keys |-> batch.keys]
    BY DEF TypeInv, LogInv, Types
  <2>2. batch.events \in Seq(Events)
    BY DEF TypeInv, FlowInv, InOrder
  <2>3. batch.next \in Nat
    BY NumbersOfEvents DEF TypeInv, FlowInv, Position
  <2>4. batch.rollups \in [Keys -> Nat] /\ batch.keys \in SUBSET Keys
    BY DEF TypeInv, LogInv, Types
  <2> QED
    BY <2>1, <2>2, <2>3, <2>4
<1>2. Table(db) /\ Table(disk)
  <2>1. ASSUME NEW t, Rowed(t), Shape(t)
        PROVE  Table(t)
    <3>1. \A id \in DOMAIN t.rows : t.rows[id] \in (SUBSET DOMAIN recorded) \ {{}}
      BY <2>1 DEF Rowed
    <3> QED
      BY <2>1, <3>1 DEF Rowed, Shape, Table
  <2> QED
    BY <2>1 DEF TypeInv, LogInv, Types, FlowInv
<1>3. pending \in Seq(Events)
  BY DEF TypeInv, FlowInv, InOrder
<1> QED
  BY <1>1, <1>2, <1>3 DEF TypeInv, LogInv, Types, OtherTypes, TypeOK

LEMMA EventTyped ==
  ASSUME LogInv, NEW n \in DOMAIN recorded
  PROVE  recorded[n].kind \in Kinds /\ recorded[n].ts \in 0 .. MaxTime
<1> DEFINE S == [kind: Kinds, ts: 0 .. MaxTime]
<1>1. recorded \in Seq(S)
  BY DEF LogInv, Types
<1> HIDE DEF S
<1>2. n \in 1 .. Len(recorded)
  BY <1>1
<1>3. recorded[n] \in S
  BY <1>1, <1>2
<1> QED
  BY <1>3 DEF S

\* The row of each event, and the first of its events.
LEMMA RowMin ==
  ASSUME LogInv, FlowInv, NEW t \in {db, disk}, NEW id \in DOMAIN t.rows
  PROVE  /\ Min(t.rows[id]) \in t.rows[id]
         /\ \A n \in t.rows[id] : Min(t.rows[id]) <= n
<1>1. t.rows[id] \in SUBSET Nat /\ t.rows[id] # {}
  BY NumbersOfEvents
<1> QED
  BY <1>1, MinOf

LEMMA PageMax ==
  ASSUME LogInv, FlowInv, Page # {}
  PROVE  /\ Page \subseteq DOMAIN db.rows /\ Page \subseteq Newer
         /\ Max(Page) \in Page /\ \A id \in Page : Max(Page) >= id
<1>1. Page \subseteq DOMAIN db.rows /\ Page \subseteq Newer
  BY DEF Page, Newer
<1>2. db.seq \in Nat /\ Page \subseteq 0 .. db.seq
  BY <1>1 DEF FlowInv, Rowed
<1> QED
  BY <1>1, <1>2, MaxOf

LEMMA ClientUndone ==
  ASSUME OtherTypes, Undo
  PROVE  client' \in [since: Nat, seen: SUBSET Events, dirty: BOOLEAN, undone: BOOLEAN]
BY DEF OtherTypes, Undo, Misled, Fresh

\* A statement of the connection, and what it may do to the bookkeeping.
LEMMA ErrorTypes ==
  ASSUME OtherTypes, Error
  PROVE  /\ errors' \in 0 .. MaxErrors
         /\ client' \in [since: Nat, seen: SUBSET Events, dirty: BOOLEAN, undone: BOOLEAN]
<1>1. errors' \in 0 .. MaxErrors
  <2>1. MaxErrors \in Nat
    BY EventLogAssumption
  <2> QED
    BY <2>1 DEF OtherTypes, Error
<1>2. client' \in [since: Nat, seen: SUBSET Events, dirty: BOOLEAN, undone: BOOLEAN]
  BY ClientUndone DEF OtherTypes, Error
<1> QED
  BY <1>1, <1>2

LEMMA TargetsKept ==
  ASSUME NEW kept, DOMAIN kept \subseteq Kinds, EndFlush(kept)
  PROVE  /\ DOMAIN targets' \subseteq DOMAIN kept
         /\ \A kind \in DOMAIN targets' : targets'[kind] = kept[kind]
         /\ mode' \in {mode, "closed"} /\ at' = "idle" /\ batch' = Idle
BY DEF EndFlush, Restrict

LEMMA TypesStep ==
  ASSUME LogInv, FlowInv, OtherTypes, [Next]_vars
  PROVE  OtherTypes'
<1> USE DEF OtherTypes
<1>1. ASSUME NEW kind \in Kinds, Record(kind) PROVE OtherTypes'
  <2>1. /\ Len(recorded') = Len(recorded) + 1 /\ Len(recorded') \in Events
        /\ Len(recorded) \in Nat
        /\ UNCHANGED <<base, mode, at, targets, prune, client, errors, starts, torn>>
    BY <1>1, Recorded DEF history
  <2>2. Len(recorded') <= MaxEvents /\ base \in 0 .. Len(recorded')
    BY <2>1, EventLogAssumption DEF Events
  <2>3. dropped' \in Nat
    BY <1>1 DEF Record, Buffer
  <2>4. Len(pending') <= MaxPending
    <3>1. pending \in Seq(Events) /\ Len(recorded') \in Events /\ MaxPending \in Nat
      BY <2>1, EventLogAssumption DEF FlowInv, InOrder
    <3>2. \/ pending' = pending
          \/ pending' = Append(pending, Len(recorded')) /\ ~(Len(pending) >= MaxPending)
      BY <1>1 DEF Record, Buffer, Full
    <3>3. Len(Append(pending, Len(recorded'))) = Len(pending) + 1
      BY <3>1
    <3> QED
      BY <3>1, <3>2, <3>3
  <2> QED
    BY <2>1, <2>2, <2>3, <2>4
<1>2. CASE FlushTimer
  <2>1. pending' = <<>> /\ at' = "begin"
    BY <1>2 DEF FlushTimer, StartFlush
  <2>2. Len(pending') <= MaxPending
    BY <2>1, EventLogAssumption
  <2> QED
    BY <1>2, <2>1, <2>2 DEF FlushTimer, past, history
<1>3. CASE Begin
  BY <1>3 DEF Begin, past, buffers, history
<1>4. CASE UpdateEvent
  <2>1. at' \in {"write", "insert", "rollup", "commit"} /\ UNCHANGED client
    BY <1>4 DEF UpdateEvent, NextEvent, Write
  <2> QED
    BY <1>4, <2>1 DEF UpdateEvent, past, buffers, history
<1>5. CASE InsertEvent
  <2>1. at' \in {"write", "rollup", "commit"} /\ UNCHANGED client
    BY <1>5 DEF InsertEvent, NextEvent, Write
  <2>2. DOMAIN targets' \subseteq Kinds
    <3>1. at \in {"write", "insert"} /\ NextEvent /\ UNCHANGED <<recorded, pending>>
      BY <1>5 DEF InsertEvent, past, buffers
    <3>2. Event \in DOMAIN recorded
      BY <3>1, Advance
    <3>3. recorded[Event].kind \in Kinds
      BY <3>2, EventTyped
    <3> QED
      BY <1>5, <3>3 DEF InsertEvent, Put
  <2> QED
    BY <1>5, <2>1, <2>2 DEF InsertEvent, past, buffers, history
<1>6. CASE WriteRollup
  BY <1>6 DEF WriteRollup, Write, past, buffers, history
<1>7. CASE Commit
  <2>1. client' \in [since: Nat, seen: SUBSET Events, dirty: BOOLEAN, undone: BOOLEAN]
    BY <1>7 DEF Commit
  <2>2. EndFlush(targets)
    BY <1>7 DEF Commit
  <2> QED
    BY <1>7, <2>1, <2>2, TargetsKept DEF Commit, past, buffers, history
<1>8. CASE StatementFails
  <2>1. /\ errors' \in 0 .. MaxErrors
        /\ client' \in [since: Nat, seen: SUBSET Events, dirty: BOOLEAN, undone: BOOLEAN]
    BY <1>8, ErrorTypes DEF StatementFails
  <2> QED
    BY <1>8, <2>1 DEF StatementFails, past, buffers, history
<1>9. CASE Rollback
  <2>1. client' \in [since: Nat, seen: SUBSET Events, dirty: BOOLEAN, undone: BOOLEAN]
    BY <1>9, ClientUndone DEF Rollback, FailFlush
  <2>2. EndFlush(<<>>) /\ dropped' = dropped + Len(batch.events)
    BY <1>9 DEF Rollback, FailFlush
  <2>3. dropped' \in Nat
    BY <2>2, NumbersOfEvents
  <2>4. DOMAIN <<>> \subseteq Kinds
    OBVIOUS
  <2> QED
    BY <1>9, <2>1, <2>2, <2>3, <2>4, TargetsKept DEF Rollback, FailFlush, past, buffers, history
<1>10. CASE PruneFails
  <2>1. /\ errors' \in 0 .. MaxErrors
        /\ client' \in [since: Nat, seen: SUBSET Events, dirty: BOOLEAN, undone: BOOLEAN]
    BY <1>10, ErrorTypes DEF PruneFails
  <2>2. torn' \in BOOLEAN
    BY <1>10 DEF PruneFails
  <2>3. prune' \in [at: {"idle", "age", "cap"}, cutoff: Int]
    BY <1>10 DEF PruneFails, NotPruning
  <2> QED
    BY <1>10, <2>1, <2>2, <2>3 DEF PruneFails, past, buffers, flushing
<1>11. CASE PruneAge \/ PruneCap
  <2>1. prune' \in [at: {"idle", "age", "cap"}, cutoff: Int]
    BY <1>11 DEF PruneAge, PruneCap, NotPruning
  <2> QED
    BY <1>11, <2>1 DEF PruneAge, PruneCap, Write, past, buffers, flushing, history
<1>12. CASE Prune
  <2>1. now - Retention \in Int
    BY EventLogAssumption DEF LogInv, Types
  <2> QED
    BY <1>12, <2>1 DEF Prune, past, buffers, flushing, history
<1>13. CASE Poll
  <2>1. Max(Page) \in Nat
    BY <1>13, PageMax, NumbersOfEvents DEF Poll
  <2>2. {Min(db.rows[id]) : id \in Page} \subseteq Events
    <3>1. DOMAIN recorded \subseteq Events
      BY NumbersOfEvents, EventLogAssumption DEF Events
    <3>2. \A id \in Page : Min(db.rows[id]) \in DOMAIN recorded
      BY <1>13, PageMax, NumbersOfEvents, RowMin DEF Poll
    <3> QED
      BY <3>1, <3>2
  <2>3. open \in BOOLEAN
    BY DEF LogInv, Types
  <2>4. client' \in [since: Nat, seen: SUBSET Events, dirty: BOOLEAN, undone: BOOLEAN]
    <3> DEFINE s == Max(Page)
               m == {Min(db.rows[id]) : id \in Page}
    <3>1. client' = [client EXCEPT !.since = s, !.seen = @ \cup m, !.dirty = open]
      BY <1>13 DEF Poll
    <3>2. s \in Nat /\ m \subseteq Events
      BY <2>1, <2>2
    <3> HIDE DEF s, m
    <3> QED
      BY <2>3, <3>1, <3>2
  <2> QED
    BY <1>13, <2>4 DEF Poll, past, buffers, flushing, history
<1>14. CASE Restart
  <2>1. starts' \in 0 .. MaxStarts
    BY <1>14, EventLogAssumption DEF Restart
  <2>2. now - Retention \in Int
    BY EventLogAssumption DEF LogInv, Types
  <2>3. base' \in 0 .. Len(recorded)
    BY <1>14, NumbersOfEvents DEF Restart
  <2> QED
    BY <1>14, <2>1, <2>2, <2>3 DEF Restart, buffers, flushing
<1>15. CASE Tick
  BY <1>15 DEF Tick, buffers, flushing, history
<1>16. CASE Close
  <2>1. \/ pending' = <<>> /\ at' = "begin"
        \/ UNCHANGED <<pending, at>>
    BY <1>16 DEF Close, StartFlush, buffers
  <2>2. Len(pending') <= MaxPending
    BY <2>1, EventLogAssumption
  <2>3. mode' \in {"closing", "closed"}
    BY <1>16 DEF Close
  <2> QED
    BY <1>16, <2>1, <2>2, <2>3 DEF Close, past, history
<1>17. CASE Exit
  <2>1. client' \in [since: Nat, seen: SUBSET Events, dirty: BOOLEAN, undone: BOOLEAN]
    BY <1>17, ClientUndone DEF Exit
  <2>2. Len(pending') <= MaxPending /\ DOMAIN targets' = {}
    BY <1>17, EventLogAssumption DEF Exit, Forget
  <2> QED
    BY <1>17, <2>1, <2>2 DEF Exit, Forget, NotPruning, past, history
<1>18. CASE UNCHANGED vars
  BY <1>18 DEF vars, past, buffers, flushing, history
<1> QED
  BY <1>1, <1>2, <1>3, <1>4, <1>5, <1>6, <1>7, <1>8, <1>9, <1>10, <1>11, <1>12,
     <1>13, <1>14, <1>15, <1>16, <1>17, <1>18 DEF Next, FlushStatement

LEMMA InitialEvents ==
  ASSUME Init
  PROVE  /\ Len(recorded) \in {0, 1} /\ DOMAIN recorded = 1 .. Len(recorded)
         /\ db = disk /\ disk.seq = Len(recorded) /\ disk.gone = {}
         /\ disk.rows = [id \in DOMAIN recorded |-> {id}]
         /\ DOMAIN disk.rows = DOMAIN recorded
<1>1. \/ recorded = <<>>
      \/ \E kind \in Kinds : recorded = <<[kind |-> kind, ts |-> 0]>>
  BY DEF Init
<1>2. Len(recorded) \in {0, 1} /\ DOMAIN recorded = 1 .. Len(recorded)
  <2>1. CASE recorded = <<>>
    BY <2>1
  <2>2. CASE \E kind \in Kinds : recorded = <<[kind |-> kind, ts |-> 0]>>
    <3>1. PICK kind \in Kinds : recorded = <<[kind |-> kind, ts |-> 0]>>
      BY <2>2
    <3> QED
      BY <3>1
  <2> QED
    BY <1>1, <2>1, <2>2
<1> QED
  BY <1>2 DEF Init

LEMMA TypeInit ==
  ASSUME Init
  PROVE  TypeInv
<1>1. LogInv
  BY LogInit
<1>2. /\ Len(recorded) \in {0, 1} /\ DOMAIN recorded = 1 .. Len(recorded)
      /\ db = disk /\ disk.seq = Len(recorded) /\ disk.gone = {}
      /\ disk.rows = [id \in DOMAIN recorded |-> {id}]
      /\ DOMAIN disk.rows = DOMAIN recorded
  BY InitialEvents
<1>3. /\ pending = <<>> /\ batch.events = <<>> /\ batch.next = 1 /\ at = "idle"
      /\ DOMAIN <<>> = {} /\ <<>> \in Seq(Events) /\ Len(<<>>) = 0
  BY DEF Init, Idle
<1>4. FlowInv
  <2>1. InOrder
    BY <1>3 DEF InOrder
  <2>2. Position
    BY <1>3 DEF Position
  <2>3. Rowed(disk)
    BY <1>2 DEF Rowed
  <2>4. Behind(disk)
    BY <1>2, <1>3 DEF Behind, ToWrite
  <2> QED
    BY <1>2, <2>1, <2>2, <2>3, <2>4 DEF FlowInv
<1>5. OtherTypes
  <2>1. client \in [since: Nat, seen: SUBSET Events, dirty: BOOLEAN, undone: BOOLEAN]
    BY DEF Init, Fresh
  <2>2. prune \in [at: {"idle", "age", "cap"}, cutoff: Int]
    BY DEF Init, NotPruning
  <2>3. Len(recorded) <= MaxEvents /\ base \in 0 .. Len(recorded)
    BY <1>2, EventLogAssumption DEF Init
  <2>4. Len(pending) <= MaxPending /\ errors \in 0 .. MaxErrors /\ starts \in 0 .. MaxStarts
    BY <1>3, EventLogAssumption DEF Init
  <2>5. DOMAIN targets = {}
    BY DEF Init
  <2> QED
    BY <2>1, <2>2, <2>3, <2>4, <2>5 DEF Init, OtherTypes
<1> QED
  BY <1>1, <1>4, <1>5 DEF TypeInv

LEMMA TypeNext ==
  ASSUME TypeInv, [Next]_vars
  PROVE  TypeInv'
BY LogNext, FlowStep, TypesStep DEF TypeInv

-----------------------------------------------------------------------------
(* Rows of one kind *)

OneKind(t) ==
  \A id \in DOMAIN t.rows :
    /\ \A n \in t.rows[id] :
         /\ recorded[n].kind = KindOf(t.rows[id])
         /\ recorded[n].ts - FirstTs(t.rows[id]) < Window
    /\ \A other \in DOMAIN t.rows \ {id} : t.rows[other] \cap t.rows[id] = {}

\* A target is the row of its kind, or no row any more.
TargetsName(t) ==
  \A kind \in DOMAIN targets :
    /\ targets[kind].id \in 1 .. t.seq
    /\ targets[kind].id \in DOMAIN t.rows =>
         /\ KindOf(t.rows[targets[kind].id]) = kind
         /\ FirstTs(t.rows[targets[kind].id]) = targets[kind].firstTs

KindInv ==
  torn \/ /\ OneKind(db) /\ OneKind(disk)
          /\ at \in {"write", "insert", "rollup", "commit"} => open
          /\ at # "rollback" => TargetsName(db)

LEMMA MinUnique ==
  ASSUME NEW S \in SUBSET Nat, NEW s \in S, \A n \in S : s <= n
  PROVE  Min(S) = s
<1>1. Min(S) \in S /\ \A n \in S : Min(S) <= n
  BY MinOf
<1>2. Min(S) <= s /\ s <= Min(S) /\ s \in Nat /\ Min(S) \in Nat
  BY <1>1
<1> QED
  BY <1>2

\* Tables that say the same of their rows.
LEMMA KindStays ==
  ASSUME LogInv, FlowInv, KindInv, ~torn', ~torn,
         \A n \in DOMAIN recorded : recorded'[n] = recorded[n],
         db' = db \/ db' = disk, disk' = disk \/ disk' = db,
         at' \in {"write", "insert", "rollup", "commit"} => open',
         at' # "rollback" =>
           \/ at # "rollback" /\ db' = db /\ targets' = targets
           \/ at # "rollback" /\ db' = db /\ DOMAIN targets' \subseteq DOMAIN targets
              /\ \A kind \in DOMAIN targets' : targets'[kind] = targets[kind]
           \/ DOMAIN targets' = {}
  PROVE  KindInv'
<1>1. \A t \in {db, disk} : \A id \in DOMAIN t.rows :
        /\ Min(t.rows[id]) \in DOMAIN recorded /\ t.rows[id] \subseteq DOMAIN recorded
  BY RowMin, NumbersOfEvents
<1>2. OneKind(db)'
  <2>1. OneKind(db) /\ OneKind(disk)
    BY DEF KindInv
  <2>2. CASE db' = db
    BY <1>1, <2>1, <2>2 DEF OneKind, KindOf, FirstTs
  <2>3. CASE db' = disk
    BY <1>1, <2>1, <2>3 DEF OneKind, KindOf, FirstTs
  <2> QED
    BY <2>2, <2>3
<1>3. OneKind(disk)'
  <2>1. OneKind(db) /\ OneKind(disk)
    BY DEF KindInv
  <2>2. CASE disk' = db
    BY <1>1, <2>1, <2>2 DEF OneKind, KindOf, FirstTs
  <2>3. CASE disk' = disk
    BY <1>1, <2>1, <2>3 DEF OneKind, KindOf, FirstTs
  <2> QED
    BY <2>2, <2>3
<1>4. at' # "rollback" => TargetsName(db)'
  <2>1. CASE at' # "rollback" /\ DOMAIN targets' = {}
    BY <2>1 DEF TargetsName
  <2>2. CASE /\ at # "rollback" /\ db' = db /\ DOMAIN targets' \subseteq DOMAIN targets
             /\ \A kind \in DOMAIN targets' : targets'[kind] = targets[kind]
    <3>1. TargetsName(db)
      BY <2>2 DEF KindInv
    <3> QED
      BY <1>1, <2>2, <3>1 DEF TargetsName, KindOf, FirstTs
  <2> QED
    BY <2>1, <2>2
<1> QED
  BY <1>2, <1>3, <1>4 DEF KindInv

\* An event that is folded into a row is none of its first.
LEMMA FoldedMin ==
  ASSUME LogInv, FlowInv, at \in {"write", "insert"}, NextEvent,
         UNCHANGED <<recorded, pending>>, NEW id, FoldedInto(db', id, Event)
  PROVE  \A j \in DOMAIN db.rows : Min(db'.rows[j]) = Min(db.rows[j])
<1> SUFFICES ASSUME NEW j \in DOMAIN db.rows
             PROVE  Min(db'.rows[j]) = Min(db.rows[j])
  OBVIOUS
<1>1. PICK n : n = Event
  OBVIOUS
<1>2. n \in DOMAIN recorded /\ batch.next \in ToWrite /\ n = batch.events[batch.next]
  <2>1. batch.next \in DOMAIN batch.events /\ Event \in DOMAIN recorded
    BY Advance
  <2>2. batch.next \in ToWrite
    BY <2>1, NumbersOfEvents DEF ToWrite
  <2> QED
    BY <1>1, <2>1, <2>2 DEF Event
<1>3. db'.rows[j] = IF j = id THEN db.rows[j] \cup {n} ELSE db.rows[j]
  BY <1>1 DEF FoldedInto
<1>4. Min(db.rows[j]) \in db.rows[j] /\ \A m \in db.rows[j] : Min(db.rows[j]) <= m
  BY RowMin
<1>5. db.rows[j] \cup {n} \in SUBSET Nat
  BY <1>2, NumbersOfEvents
<1>6. Min(db.rows[j]) \in Nat /\ n \in Nat /\ Min(db.rows[j]) < n
  BY <1>2, <1>4, <1>5 DEF FlowInv, Behind
<1>7. Min(db.rows[j] \cup {n}) = Min(db.rows[j])
  BY <1>4, <1>5, <1>6, MinUnique
<1> QED
  BY <1>3, <1>7

LEMMA KindFolds ==
  ASSUME LogInv, FlowInv, KindInv, ~torn, UNCHANGED <<recorded, targets, torn>>,
         at = "write", Folds, NextEvent, UNCHANGED pending, Wrote,
         FoldedInto(db', targets[recorded[Event].kind].id, Event)
  PROVE  KindInv'
<1>1. PICK n : n = Event
  OBVIOUS
<1>2. PICK kind : kind = recorded[n].kind
  OBVIOUS
<1>3. PICK id : id = targets[kind].id
  OBVIOUS
<1>4. /\ n \in DOMAIN recorded /\ batch.next \in ToWrite /\ n = batch.events[batch.next]
      /\ at' \in {"write", "rollup", "commit"}
  <2>1. batch.next \in DOMAIN batch.events /\ Event \in DOMAIN recorded
    BY Advance
  <2>2. batch.next \in ToWrite
    BY <2>1, NumbersOfEvents DEF ToWrite
  <2> QED
    BY <1>1, <2>1, <2>2 DEF Event, NextEvent
<1>5. kind \in DOMAIN targets /\ recorded[n].ts - targets[kind].firstTs < Window
  BY <1>1, <1>2 DEF Folds
<1>6. /\ id \in DOMAIN db.rows /\ db'.seq = db.seq /\ DOMAIN db'.rows = DOMAIN db.rows
      /\ \A j \in DOMAIN db.rows :
           db'.rows[j] = IF j = id THEN db.rows[j] \cup {n} ELSE db.rows[j]
  BY <1>1, <1>2, <1>3 DEF FoldedInto
<1>7. OneKind(db) /\ TargetsName(db) /\ open
  BY DEF KindInv
<1>8. KindOf(db.rows[id]) = kind /\ FirstTs(db.rows[id]) = targets[kind].firstTs
  BY <1>3, <1>5, <1>6, <1>7 DEF TargetsName
<1>9. \A j \in DOMAIN db.rows : \A m \in db.rows[j] : m < n
  BY <1>4 DEF FlowInv, Behind
<1>10. \A j \in DOMAIN db.rows : Min(db'.rows[j]) = Min(db.rows[j])
  BY <1>3, <1>2, <1>1, FoldedMin
<1>11. \A j \in DOMAIN db.rows :
         KindOf(db'.rows[j]) = KindOf(db.rows[j]) /\ FirstTs(db'.rows[j]) = FirstTs(db.rows[j])
  BY <1>10 DEF KindOf, FirstTs
<1>12. n \notin UNION {db.rows[j] : j \in DOMAIN db.rows}
  BY <1>4, <1>9, NumbersOfEvents
<1>13. OneKind(db')
  <2> SUFFICES ASSUME NEW j \in DOMAIN db.rows
               PROVE  /\ \A m \in db'.rows[j] :
                           /\ recorded[m].kind = KindOf(db'.rows[j])
                           /\ recorded[m].ts - FirstTs(db'.rows[j]) < Window
                      /\ \A other \in DOMAIN db'.rows \ {j} :
                           db'.rows[other] \cap db'.rows[j] = {}
    BY <1>6 DEF OneKind
  <2>1. ASSUME NEW m \in db'.rows[j]
        PROVE  /\ recorded[m].kind = KindOf(db.rows[j])
               /\ recorded[m].ts - FirstTs(db.rows[j]) < Window
    <3>1. CASE m \in db.rows[j]
      BY <1>7, <3>1 DEF OneKind
    <3>2. CASE m \notin db.rows[j]
      <4>1. j = id /\ m = n
        BY <1>6, <3>2
      <4> QED
        BY <1>2, <1>5, <1>8, <4>1
    <3> QED
      BY <3>1, <3>2
  <2>2. ASSUME NEW other \in DOMAIN db'.rows \ {j}
        PROVE  db'.rows[other] \cap db'.rows[j] = {}
    <3>1. db.rows[other] \cap db.rows[j] = {}
      BY <1>6, <1>7 DEF OneKind
    <3>2. n \notin db.rows[other] /\ n \notin db.rows[j]
      BY <1>6, <1>12
    <3> QED
      BY <1>6, <3>1, <3>2
  <2> QED
    BY <1>11, <2>1, <2>2
<1>14. OneKind(db)'
  BY <1>13 DEF OneKind, KindOf, FirstTs
<1>15. TargetsName(db)'
  BY <1>6, <1>7, <1>11 DEF TargetsName, KindOf, FirstTs
<1>16. disk' = disk /\ open' = open
  BY <1>7 DEF Wrote
<1>17. OneKind(disk)'
  BY <1>16 DEF KindInv, OneKind, KindOf, FirstTs
<1> QED
  BY <1>7, <1>14, <1>15, <1>16, <1>17 DEF KindInv

LEMMA KindInserts ==
  ASSUME LogInv, FlowInv, KindInv, ~torn, InsertEvent
  PROVE  KindInv'
<1>1. PICK n : n = Event
  OBVIOUS
<1>2. PICK kind : kind = recorded[n].kind
  OBVIOUS
<1>3. PICK new : new = db.seq + 1
  OBVIOUS
<1>4. /\ at \in {"write", "insert"} /\ NextEvent /\ UNCHANGED <<recorded, pending, torn>>
      /\ WithNewRow(db', n) /\ Wrote
      /\ targets' = Put(targets, kind, [id |-> new, firstTs |-> recorded[n].ts])
  BY <1>1, <1>2, <1>3, InsertRows DEF InsertEvent, past, buffers, history
<1>5. /\ n \in DOMAIN recorded /\ batch.next \in ToWrite /\ n = batch.events[batch.next]
      /\ at' \in {"write", "rollup", "commit"}
  <2>1. batch.next \in DOMAIN batch.events /\ Event \in DOMAIN recorded
    BY <1>4, Advance
  <2>2. batch.next \in ToWrite
    BY <2>1, NumbersOfEvents DEF ToWrite
  <2> QED
    BY <1>1, <1>4, <2>1, <2>2 DEF Event, NextEvent
<1>6. /\ DOMAIN targets' = DOMAIN targets \cup {kind}
      /\ targets'[kind] = [id |-> new, firstTs |-> recorded[n].ts]
      /\ \A other \in DOMAIN targets \ {kind} : targets'[other] = targets[other]
  BY <1>4 DEF Put
<1>7. /\ db'.seq = new /\ db.seq \in Nat /\ DOMAIN db'.rows = DOMAIN db.rows \cup {new}
      /\ new \notin DOMAIN db.rows /\ DOMAIN db.rows \subseteq 1 .. db.seq
      /\ db'.rows[new] = {n} /\ \A j \in DOMAIN db.rows : db'.rows[j] = db.rows[j]
  <2>1. db.seq \in Nat /\ DOMAIN db.rows \subseteq 1 .. db.seq
    BY DEF FlowInv, Rowed
  <2>2. new \notin DOMAIN db.rows
    BY <1>3, <2>1
  <2> QED
    BY <1>3, <1>4, <2>1, <2>2 DEF WithNewRow
<1>8. OneKind(db) /\ TargetsName(db) /\ open
  BY <1>4 DEF KindInv
<1>9. \A j \in DOMAIN db.rows : n \notin db.rows[j]
  <2>1. \A j \in DOMAIN db.rows : \A m \in db.rows[j] : m < n
    BY <1>5 DEF FlowInv, Behind
  <2> QED
    BY <1>5, <2>1, NumbersOfEvents
<1>10. n \in Nat /\ Min({n}) = n
  <2>1. n \in Nat
    BY <1>5, NumbersOfEvents
  <2> QED
    BY <2>1, MinUnique
<1>11. KindOf({n}) = kind /\ FirstTs({n}) = recorded[n].ts
  BY <1>2, <1>10 DEF KindOf, FirstTs
<1>12. recorded[n].ts - recorded[n].ts < Window
  <2>1. recorded[n].ts \in 0 .. MaxTime /\ Window \in Nat \ {0} /\ MaxTime \in Nat
    BY <1>5, EventTyped, EventLogAssumption
  <2> QED
    BY <2>1
<1>13. OneKind(db')
  <2> SUFFICES ASSUME NEW j \in DOMAIN db'.rows
               PROVE  /\ \A m \in db'.rows[j] :
                           /\ recorded[m].kind = KindOf(db'.rows[j])
                           /\ recorded[m].ts - FirstTs(db'.rows[j]) < Window
                      /\ \A other \in DOMAIN db'.rows \ {j} :
                           db'.rows[other] \cap db'.rows[j] = {}
    BY DEF OneKind
  <2>1. CASE j = new
    <3>1. db'.rows[j] = {n} /\ DOMAIN db'.rows \ {j} = DOMAIN db.rows
      BY <1>7, <2>1
    <3> QED
      BY <1>2, <1>7, <1>9, <1>11, <1>12, <3>1
  <2>2. CASE j # new
    BY <1>7, <1>8, <1>9, <2>2 DEF OneKind
  <2> QED
    BY <2>1, <2>2
<1>14. OneKind(db)'
  BY <1>4, <1>13 DEF OneKind, KindOf, FirstTs
<1>15. TargetsName(db)'
  <2> SUFFICES ASSUME NEW k \in DOMAIN targets'
               PROVE  /\ targets'[k].id \in 1 .. db'.seq
                      /\ targets'[k].id \in DOMAIN db'.rows =>
                           /\ KindOf(db'.rows[targets'[k].id]) = k
                           /\ FirstTs(db'.rows[targets'[k].id]) = targets'[k].firstTs
    BY <1>4 DEF TargetsName, KindOf, FirstTs
  <2>1. CASE k = kind
    <3>1. targets'[k].id = new /\ targets'[k].firstTs = recorded[n].ts
      BY <1>6, <2>1
    <3>2. new \in 1 .. new
      BY <1>3, <1>7
    <3> QED
      BY <1>7, <1>11, <2>1, <3>1, <3>2
  <2>2. CASE k # kind
    <3>1. /\ targets'[k] = targets[k] /\ targets[k].id \in 1 .. db.seq
          /\ k \in DOMAIN targets
      BY <1>6, <1>8, <2>2 DEF TargetsName
    <3>2. targets[k].id # new /\ targets[k].id \in 1 .. new
      BY <3>1, <1>3, <1>7
    <3> QED
      BY <1>7, <1>8, <3>1, <3>2 DEF TargetsName
  <2> QED
    BY <2>1, <2>2
<1>16. disk' = disk /\ open' = open
  BY <1>4, <1>8 DEF Wrote
<1>17. OneKind(disk)'
  BY <1>4, <1>16 DEF KindInv, OneKind, KindOf, FirstTs
<1> QED
  BY <1>8, <1>14, <1>15, <1>16, <1>17 DEF KindInv

\* Fewer rows, or other totals.
LEMMA KindShrinks ==
  ASSUME LogInv, FlowInv, KindInv, ~torn, UNCHANGED <<recorded, targets>>, Wrote,
         at' = at \/ (at = "rollup" /\ at' \in {"rollup", "commit"}),
         db'.seq = db.seq, DOMAIN db'.rows \subseteq DOMAIN db.rows,
         \A j \in DOMAIN db'.rows : db'.rows[j] = db.rows[j]
  PROVE  KindInv'
<1>1. OneKind(db)'
  BY DEF KindInv, OneKind, KindOf, FirstTs
<1>2. at' # "rollback" => TargetsName(db)'
  BY DEF KindInv, TargetsName, KindOf, FirstTs
<1>3. disk' = (IF open THEN disk ELSE db') /\ open' = open
  BY DEF Wrote
<1>4. OneKind(disk)'
  <2>1. CASE disk' = disk
    BY <2>1 DEF KindInv, OneKind, KindOf, FirstTs
  <2>2. CASE disk' = db'
    BY <1>1, <2>2 DEF OneKind, KindOf, FirstTs
  <2> QED
    BY <1>3, <2>1, <2>2
<1> QED
  BY <1>1, <1>2, <1>3, <1>4 DEF KindInv

LEMMA KindStep ==
  ASSUME TypeInv, KindInv, [Next]_vars
  PROVE  KindInv'
<1> SUFFICES ASSUME ~torn' PROVE KindInv'
  BY DEF KindInv
<1> USE DEF TypeInv
<1>1. torn' = torn \/ PruneFails
  BY DEF Next, FlushStatement, Record, FlushTimer, Begin, UpdateEvent, InsertEvent,
         WriteRollup, Commit, StatementFails, Rollback, FailFlush, Prune, PruneAge, PruneCap,
         Poll, Close, Exit, Restart, Tick, vars, history
<1>2. ~torn
  BY <1>1 DEF PruneFails, OtherTypes
<1>3. ASSUME NEW kind \in Kinds, Record(kind) PROVE KindInv'
  <2>1. /\ \A n \in DOMAIN recorded : recorded'[n] = recorded[n]
        /\ UNCHANGED <<tables, at, targets>>
    BY <1>3, Recorded
  <2> QED
    BY <1>2, <2>1, KindStays DEF tables, KindInv
<1>4. CASE FlushTimer
  BY <1>2, <1>4, KindStays DEF FlushTimer, StartFlush, past, tables
<1>5. CASE Begin
  BY <1>2, <1>5, KindStays DEF Begin, past
<1>6. CASE UpdateEvent
  <2>1. /\ at = "write" /\ Folds /\ UNCHANGED <<recorded, pending, targets, torn>>
    BY <1>6 DEF UpdateEvent, past, buffers, history
  <2>2. CASE (UNCHANGED tables) /\ at' = "insert"
    BY <1>2, <2>1, <2>2, KindStays DEF tables, KindInv
  <2>3. CASE /\ FoldedInto(db', targets[recorded[Event].kind].id, Event)
             /\ Wrote /\ NextEvent
    BY <1>2, <2>1, <2>3, KindFolds
  <2> QED
    BY <1>6, <2>2, <2>3, UpdateRows
<1>7. CASE InsertEvent
  BY <1>2, <1>7, KindInserts
<1>8. CASE WriteRollup
  <2>1. /\ UNCHANGED <<recorded, targets>> /\ at = "rollup" /\ at' \in {"rollup", "commit"}
        /\ SameRows(db') /\ Wrote
    BY <1>8, RollupRows DEF WriteRollup, past
  <2> QED
    BY <1>2, <2>1, KindShrinks DEF SameRows
<1>9. CASE Commit
  <2>1. /\ UNCHANGED <<recorded, db>> /\ disk' = db /\ at = "commit"
        /\ EndFlush(targets)
    BY <1>9 DEF Commit, past
  <2>2. at' = "idle" /\ DOMAIN targets' \subseteq DOMAIN targets
        /\ \A kind \in DOMAIN targets' : targets'[kind] = targets[kind]
    BY <2>1, TargetsKept DEF OtherTypes
  <2> QED
    BY <1>2, <2>1, <2>2, KindStays
<1>10. CASE StatementFails
  <2>1. at' = "rollback" /\ UNCHANGED recorded /\ (UNCHANGED tables \/ Undo)
    BY <1>10 DEF StatementFails, Error, past, tables
  <2> QED
    BY <1>2, <2>1, KindStays DEF tables, Undo
<1>11. CASE Rollback
  <2>1. /\ UNCHANGED <<recorded, disk>> /\ EndFlush(<<>>) /\ db' \in {db, disk}
    BY <1>11 DEF Rollback, FailFlush, Undo, past, tables
  <2>2. at' = "idle" /\ DOMAIN targets' = {}
    <3>1. DOMAIN <<>> = {}
      OBVIOUS
    <3> QED
      BY <2>1, <3>1, TargetsKept
  <2> QED
    BY <1>2, <2>1, <2>2, KindStays
<1>12. CASE PruneAge \/ PruneCap
  <2>1. PICK ids : Without(db', ids) /\ Wrote
    BY <1>12, PruneRows
  <2>2. UNCHANGED <<recorded, targets, at>>
    BY <1>12 DEF PruneAge, PruneCap, past, flushing
  <2> QED
    BY <1>2, <2>1, <2>2, KindShrinks DEF Without
<1>13. CASE PruneFails
  <2>1. UNCHANGED <<recorded, targets, at>> /\ ~(open /\ ~open')
    BY <1>13 DEF PruneFails, past, flushing
  <2>2. UNCHANGED tables
    BY <1>13, <2>1 DEF PruneFails, Error, Undo
  <2> QED
    BY <1>2, <2>1, <2>2, KindStays DEF tables, KindInv
<1>14. CASE Prune \/ Poll \/ Restart \/ Tick
  <2>1. UNCHANGED <<recorded, tables, targets, at>>
    BY <1>14 DEF Prune, Poll, Restart, Tick, past, flushing
  <2> QED
    BY <1>2, <2>1, KindStays DEF tables, KindInv
<1>15. CASE Close
  <2>1. /\ UNCHANGED <<recorded, tables, targets>>
        /\ at' = at \/ (at = "idle" /\ at' = "begin")
    BY <1>15 DEF Close, StartFlush, past
  <2> QED
    BY <1>2, <2>1, KindStays DEF tables, KindInv
<1>16. CASE Exit
  <2>1. UNCHANGED <<recorded, disk>> /\ db' = disk /\ at' = "idle" /\ DOMAIN targets' = {}
    BY <1>16 DEF Exit, Undo, Forget, past
  <2> QED
    BY <1>2, <2>1, KindStays
<1>17. CASE UNCHANGED vars
  <2>1. UNCHANGED <<recorded, tables, targets, at>>
    BY <1>17 DEF vars, past, flushing
  <2> QED
    BY <1>2, <2>1, KindStays DEF tables, KindInv
<1> QED
  BY <1>3, <1>4, <1>5, <1>6, <1>7, <1>8, <1>9, <1>10, <1>11, <1>12, <1>13, <1>14,
     <1>15, <1>16, <1>17 DEF Next, FlushStatement

LEMMA KindInit ==
  ASSUME Init
  PROVE  KindInv
<1>1. /\ DOMAIN recorded = 1 .. Len(recorded) /\ Len(recorded) \in {0, 1} /\ db = disk
      /\ disk.rows = [id \in DOMAIN recorded |-> {id}] /\ DOMAIN disk.rows = DOMAIN recorded
  BY InitialEvents
<1>2. LogInv
  BY LogInit
<1>3. OneKind(disk)
  <2> SUFFICES ASSUME NEW id \in DOMAIN recorded
               PROVE  /\ \A n \in {id} : /\ recorded[n].kind = KindOf({id})
                                         /\ recorded[n].ts - FirstTs({id}) < Window
                      /\ \A other \in DOMAIN recorded \ {id} : {other} \cap {id} = {}
    BY <1>1 DEF OneKind
  <2>1. Min({id}) = id
    BY <1>1, MinUnique
  <2>2. recorded[id].ts - recorded[id].ts < Window
    <3>1. recorded[id].ts \in 0 .. MaxTime /\ Window \in Nat \ {0} /\ MaxTime \in Nat
      BY <1>2, EventTyped, EventLogAssumption
    <3> QED
      BY <3>1
  <2> QED
    BY <2>1, <2>2 DEF KindOf, FirstTs
<1> QED
  BY <1>1, <1>3 DEF Init, KindInv, TargetsName

-----------------------------------------------------------------------------
(* The tailing client *)

\* The client got the rows of a table up to the id it asks from.
Got(t) ==
  /\ client.since <= t.seq
  /\ \A id \in DOMAIN t.rows : id <= client.since => Min(t.rows[id]) \in client.seen

\* A client that read inside a transaction got what it will leave if it
\* commits, any other what is left if it does not.
TailInv ==
  client.undone \/ /\ Got(db)
                   /\ client.dirty => open
                   /\ ~client.dirty => Got(disk)

\* A page is the first of the newer rows: none between two of them is missing.
LEMMA PageIsWhole ==
  ASSUME LogInv, FlowInv, NEW last \in Page, NEW id \in Newer, id <= last
  PROVE  id \in Page
<1>1. db.seq \in Nat /\ Newer \subseteq 1 .. db.seq
  BY DEF FlowInv, Rowed, Newer
<1> DEFINE Before(x) == {other \in Newer : other < x}
<1>2. IsFiniteSet(Before(last))
  <2>1. db.seq \in Int /\ 1 \in Int
    BY <1>1
  <2>2. IsFiniteSet(1 .. db.seq)
    BY <2>1, FS_Interval
  <2> QED
    BY <1>1, <2>2, FS_Subset
<1>3. Before(id) \subseteq Before(last)
  <2>1. last \in Newer
    BY DEF Page
  <2>2. \A x \in Newer : x \in Nat
    BY <1>1
  <2>3. \A x \in Newer : x < id => x < last
    BY <2>1, <2>2
  <2> QED
    BY <2>3
<1>4. IsFiniteSet(Before(id)) /\ Cardinality(Before(id)) <= Cardinality(Before(last))
  BY <1>2, <1>3, FS_Subset
<1>5. Cardinality(Before(id)) \in Nat /\ Cardinality(Before(last)) \in Nat
  BY <1>2, <1>4, FS_CardinalityType
<1>6. Cardinality(Before(last)) < PageLimit /\ PageLimit \in Nat
  <2>1. Cardinality({other \in Newer : other < last}) < PageLimit
    BY DEF Page
  <2> QED
    BY <2>1, EventLogAssumption
<1>7. Cardinality(Before(id)) < PageLimit
  BY <1>4, <1>5, <1>6
<1> QED
  BY <1>7 DEF Page

\* The rows the client knows begin as they did.
LEMMA TailStays ==
  ASSUME TypeInv, TailInv, ~client.undone, UNCHANGED <<client, open>>,
         disk' = IF open THEN disk ELSE db',
         db'.seq \in Nat, db'.seq >= db.seq,
         \A id \in DOMAIN db'.rows :
           \/ id \in DOMAIN db.rows /\ Min(db'.rows[id]) = Min(db.rows[id])
           \/ id \in Nat /\ id > db.seq
  PROVE  TailInv'
<1>1. db.seq \in Nat /\ client.since \in Nat
  BY DEF TypeInv, FlowInv, Rowed, OtherTypes
<1>2. Got(db)'
  BY <1>1 DEF TailInv, Got
<1>3. ~client.dirty => Got(disk)'
  <2>1. CASE open
    BY <2>1 DEF TailInv, Got
  <2>2. CASE ~open
    BY <1>2, <2>2 DEF Got
  <2> QED
    BY <2>1, <2>2
<1> QED
  BY <1>2, <1>3 DEF TailInv

LEMMA TailUndone ==
  ASSUME TypeInv, TailInv, ~client.undone, Undo
  PROVE  TailInv'
<1>1. CASE client.dirty
  BY <1>1 DEF Undo, Misled, Fresh, TailInv
<1>2. CASE ~client.dirty
  BY <1>2 DEF Undo, TailInv, Got
<1> QED
  BY <1>1, <1>2

LEMMA TailPolls ==
  ASSUME TypeInv, TailInv, Poll
  PROVE  TailInv'
<1>1. PICK last : last = Max(Page)
  OBVIOUS
<1>2. /\ last \in Page /\ Page \subseteq DOMAIN db.rows /\ Page \subseteq Newer
      /\ \A id \in Page : last >= id
  BY <1>1, PageMax DEF Poll, TypeInv
<1>3. /\ client'.since = last /\ client'.dirty = open
      /\ client'.seen = client.seen \cup {Min(db.rows[id]) : id \in Page}
      /\ UNCHANGED <<db, disk, open>>
  BY <1>1 DEF Poll, tables, TypeInv, OtherTypes
<1>4. /\ db.seq \in Nat /\ DOMAIN db.rows \subseteq 1 .. db.seq /\ client.since \in Nat
      /\ open \in BOOLEAN
  BY DEF TypeInv, LogInv, Types, FlowInv, Rowed, OtherTypes
<1>5. ASSUME NEW id \in DOMAIN db.rows, id <= last
      PROVE  Min(db.rows[id]) \in client'.seen
  <2>1. CASE id <= client.since
    BY <1>3, <2>1 DEF Poll, TailInv, Got
  <2>2. CASE ~(id <= client.since)
    <3>1. id \in Newer
      BY <1>4, <2>2 DEF Newer
    <3>2. id \in Page
      BY <1>2, <1>5, <3>1, PageIsWhole DEF TypeInv
    <3> QED
      BY <1>3, <3>2
  <2> QED
    BY <2>1, <2>2
<1>6. Got(db)'
  <2>1. last <= db.seq
    BY <1>2, <1>4
  <2> QED
    BY <1>3, <1>5, <2>1 DEF Got
<1>7. ~open => Got(disk)'
  <2>1. ~open => disk = db
    BY DEF TypeInv, FlowInv
  <2> QED
    BY <1>3, <1>6, <2>1 DEF Got
<1> QED
  BY <1>3, <1>6, <1>7 DEF TailInv

LEMMA TailStep ==
  ASSUME TypeInv, TailInv, [Next]_vars
  PROVE  TailInv'
<1>1. CASE client.undone
  <2>1. client'.undone
    BY <1>1 DEF Next, FlushStatement, Record, FlushTimer, Begin, UpdateEvent,
           InsertEvent, WriteRollup, Write, Commit, StatementFails, Error, Rollback, FailFlush,
           Undo, Misled, Fresh, Prune, PruneAge, PruneCap, PruneFails, Poll, Close, Exit,
           Restart, Tick, vars, TypeInv, OtherTypes
  <2> QED
    BY <2>1 DEF TailInv
<1>2. CASE ~client.undone
  <2> USE <1>2
  <2>1. LogInv /\ FlowInv /\ db.seq \in Nat /\ (~open => db = disk)
    BY DEF TypeInv, FlowInv, Rowed
  <2>2. ASSUME UNCHANGED <<tables, client>> PROVE TailInv'
    BY <2>1, <2>2, TailStays DEF tables
  <2>3. CASE UpdateEvent
    <3>1. at = "write" /\ UNCHANGED <<recorded, pending>>
      BY <2>3 DEF UpdateEvent, past, buffers
    <3>2. CASE /\ FoldedInto(db', targets[recorded[Event].kind].id, Event)
               /\ Wrote /\ NextEvent
      <4>1. \A j \in DOMAIN db.rows : Min(db'.rows[j]) = Min(db.rows[j])
        BY <2>1, <3>1, <3>2, FoldedMin
      <4>2. DOMAIN db'.rows = DOMAIN db.rows /\ db'.seq = db.seq
        BY <3>2 DEF FoldedInto
      <4> QED
        BY <2>1, <3>2, <4>1, <4>2, TailStays DEF Wrote
    <3> QED
      BY <2>1, <2>2, <2>3, <3>2, UpdateRows
  <2>4. CASE InsertEvent
    <3>1. WithNewRow(db', Event) /\ Wrote
      BY <2>1, <2>4, InsertRows
    <3>2. /\ db'.seq = db.seq + 1
          /\ DOMAIN db'.rows = DOMAIN db.rows \cup {db.seq + 1}
          /\ \A j \in DOMAIN db.rows : db'.rows[j] = db.rows[j]
      BY <3>1 DEF WithNewRow
    <3> QED
      BY <2>1, <3>1, <3>2, TailStays DEF Wrote
  <2>5. CASE WriteRollup
    <3>1. SameRows(db') /\ Wrote
      BY <2>1, <2>5, RollupRows
    <3> QED
      BY <2>1, <3>1, TailStays DEF Wrote, SameRows
  <2>6. CASE PruneAge \/ PruneCap
    <3>1. PICK ids : Without(db', ids) /\ Wrote
      BY <2>1, <2>6, PruneRows
    <3> QED
      BY <2>1, <3>1, TailStays DEF Wrote, Without
  <2>7. CASE Commit
    <3>1. /\ disk' = db /\ db' = db /\ client' = [client EXCEPT !.dirty = FALSE]
      BY <2>7 DEF Commit
    <3>2. client'.since = client.since /\ client'.seen = client.seen /\ ~client'.dirty
      BY <3>1 DEF TypeInv, OtherTypes
    <3> QED
      BY <3>1, <3>2 DEF TailInv, Got
  <2>8. CASE Begin
    BY <2>8 DEF Begin, TailInv, Got
  <2>9. CASE StatementFails \/ PruneFails
    <3>1. (UNCHANGED <<tables, client>>) \/ Undo
      BY <2>9 DEF StatementFails, PruneFails, Error
    <3> QED
      BY <2>2, <3>1, TailUndone
  <2>10. CASE Rollback
    BY <2>2, <2>10, TailUndone DEF Rollback, FailFlush
  <2>11. CASE Poll
    BY <2>11, TailPolls
  <2>12. CASE Exit
    BY <2>12, TailUndone DEF Exit
  <2>13. ASSUME NEW kind \in Kinds, Record(kind) PROVE TailInv'
    BY <2>2, <2>13 DEF Record
  <2>14. CASE FlushTimer \/ Prune \/ Close \/ Restart \/ Tick \/ UNCHANGED vars
    BY <2>2, <2>14 DEF FlushTimer, Prune, Close, Restart, Tick, vars
  <2> QED
    BY <2>3, <2>4, <2>5, <2>6, <2>7, <2>8, <2>9, <2>10, <2>11, <2>12, <2>13, <2>14
       DEF Next, FlushStatement
<1> QED
  BY <1>1, <1>2

LEMMA TailInit ==
  ASSUME Init
  PROVE  TailInv
<1>1. db = disk /\ disk.seq \in Nat /\ DOMAIN disk.rows \subseteq 1 .. disk.seq
  BY InitialEvents
<1> QED
  BY <1>1 DEF Init, Fresh, TailInv, Got

-----------------------------------------------------------------------------
(* Dropped events *)

\* The events that are or were in a row.
InTable(t) == t.gone \cup UNION {t.rows[id] : id \in DOMAIN t.rows}

\* The events of this process that are nowhere.
Missing ==
  (base + 1 .. Len(recorded))
    \ (InTable(disk) \cup Range(pending) \cup Range(batch.events))

\* What a transaction adds to the table, and what the running flush added.
Adds ==
  open => /\ InTable(disk) \subseteq InTable(db)
          /\ \A j \in 1 .. batch.next - 1 : batch.events[j] \in InTable(db)

DropInv == Adds /\ (mode # "down" => Cardinality(Missing) <= dropped)

LEMMA MissingFinite ==
  ASSUME TypeInv
  PROVE  IsFiniteSet(Missing) /\ Cardinality(Missing) \in Nat
<1>1. base + 1 \in Int /\ Len(recorded) \in Int
  BY NumbersOfEvents DEF TypeInv, OtherTypes
<1>2. IsFiniteSet(base + 1 .. Len(recorded))
  BY <1>1, FS_Interval
<1>3. IsFiniteSet(Missing)
  BY <1>2, FS_Subset DEF Missing
<1> QED
  BY <1>3, FS_CardinalityType

\* Nothing gets lost.
LEMMA DropStays ==
  ASSUME TypeInv, DropInv, Adds', Missing' \subseteq Missing, dropped' = dropped,
         mode # "down" \/ mode' = "down"
  PROVE  DropInv'
<1>1. /\ IsFiniteSet(Missing) /\ Cardinality(Missing) \in Nat
  BY MissingFinite
<1>2. IsFiniteSet(Missing') /\ Cardinality(Missing') <= Cardinality(Missing)
  BY <1>1, FS_Subset
<1>3. Cardinality(Missing') \in Nat
  BY <1>2, FS_CardinalityType
<1>4. mode' # "down" => Cardinality(Missing') <= dropped'
  BY <1>1, <1>2, <1>3 DEF DropInv, TypeInv, OtherTypes
<1> QED
  BY <1>4 DEF DropInv

\* As many events may get lost as are reported.
LEMMA DropGrows ==
  ASSUME TypeInv, DropInv, Adds', mode # "down" \/ mode' = "down",
         NEW S, IsFiniteSet(S), NEW n \in Nat, Cardinality(S) <= n,
         Missing' \subseteq Missing \cup S, dropped' = dropped + n
  PROVE  DropInv'
<1>1. IsFiniteSet(Missing) /\ Cardinality(Missing) \in Nat
  BY MissingFinite
<1>2. /\ IsFiniteSet(Missing \cup S)
      /\ Cardinality(Missing \cup S)
           = Cardinality(Missing) + Cardinality(S) - Cardinality(Missing \cap S)
  BY <1>1, FS_Union
<1>3. IsFiniteSet(Missing \cap S) /\ IsFiniteSet(Missing')
      /\ Cardinality(Missing') <= Cardinality(Missing \cup S)
  BY <1>1, <1>2, FS_Subset
<1>4. /\ Cardinality(S) \in Nat /\ Cardinality(Missing \cap S) \in Nat
      /\ Cardinality(Missing') \in Nat
  BY <1>3, FS_CardinalityType
<1>5. mode # "down" => Cardinality(Missing) <= dropped
  BY DEF DropInv
<1>6. dropped \in Nat
  BY DEF TypeInv, OtherTypes
<1>7. mode' # "down" => Cardinality(Missing') <= dropped'
  BY <1>1, <1>2, <1>3, <1>4, <1>5, <1>6
<1> QED
  BY <1>7 DEF DropInv

LEMMA BatchSize ==
  ASSUME LogInv, FlowInv
  PROVE  /\ IsFiniteSet(Range(batch.events))
         /\ Cardinality(Range(batch.events)) <= Len(batch.events)
         /\ Len(batch.events) \in Nat
<1> DEFINE n == Len(batch.events)
           R == Range(batch.events)
<1>1. n \in Nat /\ DOMAIN batch.events = 1 .. n /\ batch.events \in Seq(Events)
  BY NumbersOfEvents DEF FlowInv, InOrder
<1>2. batch.events \in [1 .. n -> R]
  <2>1. batch.events = [i \in 1 .. n |-> batch.events[i]]
    BY <1>1
  <2>2. \A i \in 1 .. n : batch.events[i] \in R
    BY <1>1 DEF Range
  <2> HIDE DEF R, n
  <2> QED
    BY <2>1, <2>2
<1>3. \A e \in R : \E i \in 1 .. n : batch.events[i] = e
  BY <1>1 DEF Range
<1> HIDE DEF R
<1>4. batch.events \in Surjection(1 .. n, R)
  BY <1>2, <1>3 DEF Surjection
<1>5. IsFiniteSet(1 .. n) /\ Cardinality(1 .. n) = n
  <2>1. 1 \in Int /\ n \in Int
    BY <1>1
  <2>2. Cardinality(1 .. n) = IF 1 > n THEN 0 ELSE n - 1 + 1
    BY <2>1, FS_Interval
  <2> HIDE DEF n
  <2> QED
    BY <1>1, <2>1, <2>2, FS_Interval
<1>6. IsFiniteSet(R) /\ Cardinality(R) <= Cardinality(1 .. n)
  BY <1>4, <1>5, FS_Surjection
<1> QED
  BY <1>1, <1>5, <1>6 DEF R

\* The buffers are sequences.
LEMMA RangeOfAppend ==
  ASSUME NEW S, NEW s \in Seq(S), NEW e \in S
  PROVE  Range(s) \cup {e} \subseteq Range(Append(s, e))
<1>1. /\ DOMAIN s = 1 .. Len(s) /\ Len(s) \in Nat
      /\ DOMAIN Append(s, e) = 1 .. Len(s) + 1
      /\ \A i \in DOMAIN s : Append(s, e)[i] = s[i]
      /\ Append(s, e)[Len(s) + 1] = e
  OBVIOUS
<1>2. \A i \in DOMAIN s : i \in DOMAIN Append(s, e)
  BY <1>1
<1>3. Len(s) + 1 \in DOMAIN Append(s, e)
  BY <1>1
<1>4. Range(s) \subseteq Range(Append(s, e))
  BY <1>1, <1>2 DEF Range
<1>5. e \in Range(Append(s, e))
  BY <1>1, <1>3 DEF Range
<1> QED
  BY <1>4, <1>5

\* A statement that was written: whose rows it touched are still accounted for.
LEMMA DropWrites ==
  ASSUME TypeInv, DropInv, Wrote, UNCHANGED <<base, recorded, pending, mode, dropped>>,
         batch'.events = batch.events,
         InTable(db) \subseteq InTable(db'),
         \/ batch'.next = batch.next
         \/ batch'.next = batch.next + 1 /\ batch.events[batch.next] \in InTable(db')
  PROVE  DropInv'
<1>1. InTable(disk) \subseteq InTable(disk')
  <2>1. ~open => db = disk
    BY DEF TypeInv, FlowInv
  <2> QED
    BY <2>1 DEF Wrote
<1>2. Adds'
  <2>1. InTable(disk)' = InTable(disk') /\ InTable(db)' = InTable(db')
    BY DEF InTable
  <2>2. batch.next \in Nat
    BY NumbersOfEvents DEF TypeInv, FlowInv, Position
  <2>3. ASSUME open'
        PROVE  /\ InTable(disk') \subseteq InTable(db')
               /\ \A j \in 1 .. batch'.next - 1 : batch'.events[j] \in InTable(db')
    <3>1. open /\ disk' = disk
      BY <2>3 DEF Wrote
    <3>2. /\ InTable(disk) \subseteq InTable(db)
          /\ \A j \in 1 .. batch.next - 1 : batch.events[j] \in InTable(db)
      BY <3>1 DEF DropInv, Adds
    <3>3. \A j \in 1 .. batch'.next - 1 :
            \/ j \in 1 .. batch.next - 1
            \/ j = batch.next /\ batch'.next = batch.next + 1
      BY <2>2
    <3>4. \A j \in 1 .. batch'.next - 1 : batch'.events[j] \in InTable(db')
      BY <3>2, <3>3
    <3> QED
      BY <3>1, <3>2, <3>4
  <2> QED
    BY <2>1, <2>3 DEF Adds
<1>3. Missing' \subseteq Missing
  <2>1. InTable(disk)' = InTable(disk')
    BY DEF InTable
  <2>2. Range(pending)' = Range(pending) /\ Range(batch.events)' = Range(batch.events)
    BY DEF Range
  <2> QED
    BY <1>1, <2>1, <2>2 DEF Missing
<1> QED
  BY <1>2, <1>3, DropStays

LEMMA DropRecords ==
  ASSUME TypeInv, DropInv, NEW kind \in Kinds, Record(kind)
  PROVE  DropInv'
<1> DEFINE n == Len(recorded) + 1
<1>1. /\ Len(recorded') = n /\ Len(recorded) \in Nat /\ n \in Events
      /\ UNCHANGED <<base, tables, mode, batch>>
  BY Recorded DEF TypeInv
<1>2. mode # "down"
  BY DEF Record
<1>3. Adds'
  BY <1>1 DEF DropInv, Adds, InTable, tables
<1>4. /\ InTable(disk)' = InTable(disk) /\ Range(batch.events)' = Range(batch.events)
      /\ base' = base
  BY <1>1 DEF InTable, tables
<1>5. \A m \in base + 1 .. n : m \in base + 1 .. Len(recorded) \/ m = n
  BY <1>1 DEF TypeInv, OtherTypes
<1>6. CASE Full
  <2>1. dropped' = dropped + 1 /\ pending' = pending
    BY <1>6 DEF Record, Buffer
  <2>2. Missing' \subseteq Missing \cup {n}
    <3>1. Range(pending)' = Range(pending)
      BY <2>1 DEF Range
    <3> HIDE DEF n
    <3> QED
      BY <1>1, <1>4, <1>5, <3>1 DEF Missing
  <2>3. IsFiniteSet({n}) /\ Cardinality({n}) = 1
    BY FS_Singleton
  <2> HIDE DEF n
  <2> QED
    BY <1>2, <1>3, <2>1, <2>2, <2>3, DropGrows
<1>7. CASE ~Full
  <2>1. dropped' = dropped /\ pending' = Append(pending, n)
    BY <1>1, <1>7 DEF Record, Buffer
  <2>2. Range(pending) \cup {n} \subseteq Range(pending)'
    <3>1. pending \in Seq(Events)
      BY DEF TypeInv, FlowInv, InOrder
    <3> HIDE DEF n
    <3>2. Range(pending)' = Range(Append(pending, n))
      BY <2>1
    <3> QED
      BY <1>1, <3>1, <3>2, RangeOfAppend
  <2>3. Missing' \subseteq Missing
    <3> HIDE DEF n
    <3> QED
      BY <1>1, <1>4, <1>5, <2>2 DEF Missing
  <2> QED
    BY <1>2, <1>3, <2>1, <2>3, DropStays
<1> QED
  BY <1>6, <1>7

LEMMA DropTakes ==
  ASSUME TypeInv, DropInv, StartFlush, UNCHANGED <<base, recorded, tables, dropped>>,
         mode = "running"
  PROVE  DropInv'
<1>1. /\ at = "idle" /\ ~open /\ batch.events = <<>>
      /\ batch'.events = pending /\ pending' = <<>>
  BY DEF StartFlush, TypeInv, LogInv, Progress, FlowInv, Position
<1>2. Adds'
  BY <1>1 DEF Adds, tables
<1>3. Range(<<>>) = {}
  BY DEF Range
<1>4. Missing' \subseteq Missing
  <2>1. Range(batch.events)' = Range(pending)
    BY <1>1
  <2>2. InTable(disk)' = InTable(disk)
    BY DEF tables, InTable
  <2> QED
    BY <1>1, <1>3, <2>1, <2>2 DEF Missing
<1> QED
  BY <1>2, <1>4, DropStays

LEMMA DropEvents ==
  ASSUME TypeInv, DropInv, UpdateEvent \/ InsertEvent
  PROVE  DropInv'
<1>1. /\ UNCHANGED <<base, recorded, pending, mode, dropped>> /\ at \in {"write", "insert"}
      /\ LogInv /\ FlowInv
  BY DEF UpdateEvent, InsertEvent, past, buffers, TypeInv
<1>2. CASE UNCHANGED <<tables, batch>>
  <2>1. Adds' /\ Missing' \subseteq Missing
    BY <1>1, <1>2 DEF tables, DropInv, Adds, InTable, Missing
  <2> QED
    BY <1>1, <2>1, DropStays
<1>3. CASE \E id : FoldedInto(db', id, Event) /\ Wrote /\ NextEvent
  <2>1. PICK id : FoldedInto(db', id, Event) /\ Wrote /\ NextEvent
    BY <1>3
  <2>2. /\ batch'.events = batch.events /\ batch'.next = batch.next + 1
        /\ Event = batch.events[batch.next]
    BY <1>1, <2>1, Advance DEF Event
  <2>3. PICK n : n = Event
    OBVIOUS
  <2>4. /\ id \in DOMAIN db.rows /\ DOMAIN db'.rows = DOMAIN db.rows
        /\ db'.gone = db.gone
        /\ \A j \in DOMAIN db.rows :
             db'.rows[j] = IF j = id THEN db.rows[j] \cup {n} ELSE db.rows[j]
    BY <2>1, <2>3 DEF FoldedInto
  <2>5. InTable(db) \subseteq InTable(db') /\ n \in InTable(db')
    BY <2>4 DEF InTable
  <2> QED
    BY <1>1, <2>1, <2>2, <2>3, <2>5, DropWrites
<1>4. CASE InsertEvent
  <2>1. WithNewRow(db', Event) /\ Wrote /\ NextEvent
    BY <1>1, <1>4, InsertRows
  <2>2. /\ batch'.events = batch.events /\ batch'.next = batch.next + 1
        /\ Event = batch.events[batch.next]
    BY <1>1, <2>1, Advance DEF Event
  <2>3. PICK n : n = Event
    OBVIOUS
  <2>4. PICK new : new = db.seq + 1
    OBVIOUS
  <2>5. new \notin DOMAIN db.rows
    <3>1. db.seq \in Nat /\ DOMAIN db.rows \subseteq 1 .. db.seq
      BY <1>1 DEF FlowInv, Rowed
    <3> QED
      BY <2>4, <3>1
  <2>6. /\ DOMAIN db'.rows = DOMAIN db.rows \cup {new} /\ db'.gone = db.gone
        /\ db'.rows[new] = {n} /\ \A j \in DOMAIN db.rows : db'.rows[j] = db.rows[j]
    BY <2>1, <2>3, <2>4, <2>5 DEF WithNewRow
  <2>7. InTable(db) \subseteq InTable(db') /\ n \in InTable(db')
    BY <2>6 DEF InTable
  <2> QED
    BY <1>1, <2>1, <2>2, <2>3, <2>7, DropWrites
<1> QED
  BY <1>1, <1>2, <1>3, <1>4, UpdateRows

LEMMA DropRollups ==
  ASSUME TypeInv, DropInv, WriteRollup
  PROVE  DropInv'
<1>1. /\ SameRows(db') /\ Wrote
      /\ batch'.events = batch.events /\ batch'.next = batch.next
  BY RollupRows DEF TypeInv
<1>2. UNCHANGED <<base, recorded, pending, mode, dropped>>
  BY DEF WriteRollup, past, buffers
<1>3. InTable(db) \subseteq InTable(db')
  BY <1>1 DEF SameRows, InTable
<1> QED
  BY <1>1, <1>2, <1>3, DropWrites

LEMMA DropDeletes ==
  ASSUME TypeInv, DropInv, PruneAge \/ PruneCap
  PROVE  DropInv'
<1>1. PICK ids : Without(db', ids) /\ Wrote
  BY PruneRows DEF TypeInv
<1>2. UNCHANGED <<base, recorded, pending, mode, dropped, batch>>
  BY DEF PruneAge, PruneCap, past, buffers, flushing
<1>3. InTable(db) \subseteq InTable(db')
  BY <1>1 DEF Without, InTable
<1> QED
  BY <1>1, <1>2, <1>3, DropWrites

\* A transaction that is undone, or a step beside the tables.
LEMMA DropIdles ==
  ASSUME TypeInv, DropInv, UNCHANGED <<base, recorded, pending, dropped, batch, disk>>,
         (UNCHANGED <<db, open>>) \/ ~open', mode # "down" \/ mode' = "down"
  PROVE  DropInv'
<1>1. Adds'
  BY DEF DropInv, Adds, InTable
<1>2. Missing' \subseteq Missing
  BY DEF Missing, InTable
<1> QED
  BY <1>1, <1>2, DropStays

LEMMA DropCommits ==
  ASSUME TypeInv, DropInv, Commit
  PROVE  DropInv'
<1>1. /\ at = "commit" /\ open /\ ~open' /\ disk' = db /\ batch' = Idle
      /\ UNCHANGED <<base, recorded, pending, dropped>> 
      /\ mode # "down" \/ mode' = "down"
  <2>1. mode' = IF mode = "closing" THEN "closed" ELSE mode
    BY DEF Commit, EndFlush
  <2> QED
    BY <2>1 DEF Commit, EndFlush, past, buffers
<1>2. Range(batch.events) \subseteq InTable(db)
  <2>1. batch.next = Len(batch.events) + 1 /\ DOMAIN batch.events = 1 .. Len(batch.events)
        /\ Len(batch.events) \in Nat
    BY <1>1, NumbersOfEvents DEF TypeInv, FlowInv, Position
  <2>2. DOMAIN batch.events = 1 .. batch.next - 1
    BY <2>1
  <2> QED
    BY <1>1, <2>2 DEF DropInv, Adds, Range
<1>3. InTable(disk) \subseteq InTable(db)
  BY <1>1 DEF DropInv, Adds
<1>4. Missing' \subseteq Missing
  <2>1. InTable(disk)' = InTable(db)
    BY <1>1 DEF InTable
  <2>2. Range(pending)' = Range(pending)
    BY <1>1
  <2> QED
    BY <1>1, <1>2, <1>3, <2>1, <2>2 DEF Missing
<1>5. Adds'
  BY <1>1 DEF Adds
<1> QED
  BY <1>1, <1>4, <1>5, DropStays

LEMMA DropFlush ==
  ASSUME TypeInv, DropInv, Rollback
  PROVE  DropInv'
<1>1. /\ ~open' /\ UNCHANGED <<base, recorded, pending, disk>>
      /\ dropped' = dropped + Len(batch.events)
      /\ mode' = IF mode = "closing" THEN "closed" ELSE mode
  BY DEF Rollback, FailFlush, EndFlush, Undo, past, buffers, tables, TypeInv, LogInv, Types
<1>2. /\ IsFiniteSet(Range(batch.events)) /\ Len(batch.events) \in Nat
      /\ Cardinality(Range(batch.events)) <= Len(batch.events)
  BY BatchSize DEF TypeInv
<1>3. Missing' \subseteq Missing \cup Range(batch.events)
  <2>1. InTable(disk)' = InTable(disk) /\ Range(pending)' = Range(pending)
    BY <1>1 DEF InTable
  <2> QED
    BY <1>1, <2>1 DEF Missing
<1>4. Adds'
  BY <1>1 DEF Adds
<1> QED
  BY <1>1, <1>2, <1>3, <1>4, DropGrows

LEMMA DropRestarts ==
  ASSUME TypeInv, DropInv, Restart
  PROVE  DropInv'
<1>1. /\ base' = Len(recorded) /\ recorded' = recorded /\ UNCHANGED <<tables, batch, dropped>>
  BY DEF Restart, flushing
<1>2. Adds'
  BY <1>1 DEF DropInv, Adds, InTable, tables
<1>3. Missing' = {}
  <2>1. Len(recorded) \in Nat
    BY NumbersOfEvents DEF TypeInv
  <2> QED
    BY <1>1, <2>1 DEF Missing
<1>4. Cardinality(Missing') = 0
  BY <1>3, FS_EmptySet
<1> QED
  BY <1>1, <1>2, <1>4 DEF DropInv, TypeInv, OtherTypes

LEMMA DropStep ==
  ASSUME TypeInv, DropInv, [Next]_vars
  PROVE  DropInv'
<1>1. ASSUME NEW kind \in Kinds, Record(kind) PROVE DropInv'
  BY <1>1, DropRecords
<1>2. CASE FlushTimer
  BY <1>2, DropTakes DEF FlushTimer, past
<1>3. CASE Begin
  <2>1. /\ at = "begin" /\ ~open
        /\ UNCHANGED <<base, recorded, pending, dropped, batch, disk, db, mode>>
    BY <1>3 DEF Begin, past, buffers, TypeInv, LogInv, Progress
  <2>2. db = disk /\ batch.next = 1
    BY <2>1 DEF TypeInv, FlowInv, Position
  <2>3. Adds'
    BY <2>1, <2>2 DEF Adds, InTable
  <2>4. Missing' \subseteq Missing
    BY <2>1 DEF Missing, InTable
  <2> QED
    BY <2>1, <2>3, <2>4, DropStays
<1>4. CASE UpdateEvent \/ InsertEvent
  BY <1>4, DropEvents
<1>5. CASE WriteRollup
  BY <1>5, DropRollups
<1>6. CASE Commit
  BY <1>6, DropCommits
<1>7. CASE StatementFails \/ PruneFails
  <2>1. /\ UNCHANGED <<base, recorded, pending, dropped, batch, mode>>
        /\ (UNCHANGED tables) \/ Undo
    BY <1>7 DEF StatementFails, PruneFails, Error, tables, past, buffers, flushing
  <2> QED
    BY <2>1, DropIdles DEF tables, Undo
<1>8. CASE Rollback
  BY <1>8, DropFlush
<1>9. CASE PruneAge \/ PruneCap
  BY <1>9, DropDeletes
<1>10. CASE Prune \/ Poll \/ Tick \/ UNCHANGED vars
  <2>1. UNCHANGED <<base, recorded, pending, dropped, batch, tables, mode>>
    BY <1>10 DEF Prune, Poll, Tick, vars, past, buffers, flushing
  <2> QED
    BY <2>1, DropIdles DEF tables
<1>11. CASE Close
  <2>1. UNCHANGED <<base, recorded, tables, dropped>> /\ mode = "running"
    BY <1>11 DEF Close, past
  <2>2. CASE StartFlush
    BY <2>1, <2>2, DropTakes
  <2>3. CASE UNCHANGED <<buffers, batch>>
    BY <2>1, <2>3, DropIdles DEF tables, buffers
  <2> QED
    BY <1>11, <2>2, <2>3 DEF Close
<1>12. CASE Exit
  BY <1>12 DEF Exit, Undo, DropInv, Adds
<1>13. CASE Restart
  BY <1>13, DropRestarts
<1> QED
  BY <1>1, <1>2, <1>3, <1>4, <1>5, <1>6, <1>7, <1>8, <1>9, <1>10, <1>11, <1>12, <1>13
     DEF Next, FlushStatement

LEMMA DropInit ==
  ASSUME Init
  PROVE  DropInv
BY DEF Init, DropInv, Adds

-----------------------------------------------------------------------------
(* The theorems about the rows *)

\* Every value of the log is of its type: the tables hold events that were
\* recorded, no row is empty, and ids are handed out in order.
THEOREM LogTypeCorrect == Spec => []TypeOK
<1>1. Init => TypeInv
  BY TypeInit
<1>2. TypeInv /\ [Next]_vars => TypeInv'
  BY TypeNext
<1>3. TypeInv => TypeOK
  BY TypesImplied
<1> QED
  BY <1>1, <1>2, <1>3, PTL DEF Spec

\* The collapse targets the log remembers never name a row of another kind,
\* so that a row holds events of one kind from one window, each once.
THEOREM RowsStayOfOneKind == Spec => []RowsOfOneKind
<1>1. Init => TypeInv /\ KindInv
  BY TypeInit, KindInit
<1>2. TypeInv /\ KindInv /\ [Next]_vars => TypeInv' /\ KindInv'
  BY TypeNext, KindStep
<1>3. KindInv => RowsOfOneKind
  BY DEF KindInv, OneKind, RowsOfOneKind
<1> QED
  BY <1>1, <1>2, <1>3, PTL DEF Spec

\* What is lost of this process is counted: status() reports at least as many
\* dropped events as are neither buffered nor in a row nor pruned.
THEOREM EveryDropReported == Spec => []DropsAreReported
<1>1. Init => TypeInv /\ DropInv
  BY TypeInit, DropInit
<1>2. TypeInv /\ DropInv /\ [Next]_vars => TypeInv' /\ DropInv'
  BY TypeNext, DropStep
<1>3. DropInv => DropsAreReported
  <2>1. UNION Range(disk.rows) = UNION {disk.rows[id] : id \in DOMAIN disk.rows}
    BY DEF Range
  <2>2. Missing = (base + 1 .. Len(recorded))
                    \ ((disk.gone \cup UNION Range(disk.rows))
                       \cup (Range(pending) \cup Range(batch.events)))
    BY <2>1 DEF Missing, InTable
  <2> QED
    BY <2>2 DEF DropInv, DropsAreReported
<1> QED
  BY <1>1, <1>2, <1>3, PTL DEF Spec

\* A client that tails the log page by page has every row up to its since_id,
\* whatever prune() deletes and whichever transactions are undone, unless it
\* read inside one of those itself.
THEOREM TailComplete == Spec => []TailMissesNothing
<1>1. Init => TypeInv /\ TailInv
  BY TypeInit, TailInit
<1>2. TypeInv /\ TailInv /\ [Next]_vars => TypeInv' /\ TailInv'
  BY TypeNext, TailStep
<1>3. TailInv => TailMissesNothing
  BY DEF TailInv, Got, TailMissesNothing
<1> QED
  BY <1>1, <1>2, <1>3, PTL DEF Spec
=============================================================================
