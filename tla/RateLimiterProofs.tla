------------------------- MODULE RateLimiterProofs -------------------------
(***************************************************************************)
(* The rate limiter's bound, for every window and maximum.                 *)
(***************************************************************************)
EXTENDS RateLimiter, TLAPS

Counts == [count: Nat, resetAt: Nat]

LimiterTypes ==
  /\ time \in Nat
  /\ bucket \in Counts \cup {Absent}
  /\ passed \in Seq(Nat)

\* Requests are let through in the order of time.
InOrder ==
  /\ \A i \in DOMAIN passed : passed[i] <= time
  /\ \A i, j \in DOMAIN passed : i <= j => passed[i] <= passed[j]

\* How many requests the present window has let through, and when it began.
InWindow == IF bucket.count <= RateMax THEN bucket.count ELSE RateMax
Start == bucket.resetAt - RateWindow

\* The requests of the present window are the last ones, its first was let
\* through when it began, and by then as many earlier ones as a window may
\* have are a window old.
PresentWindow ==
  bucket # Absent =>
    /\ bucket.count > 0 /\ Start <= time
    /\ InWindow <= Len(passed) /\ passed[Len(passed) - InWindow + 1] = Start
    /\ Len(passed) - InWindow >= RateMax =>
         passed[Len(passed) - InWindow + 1 - RateMax] <= Start - RateWindow

\* Without a bucket, the next request opens a window.
BetweenWindows ==
  bucket = Absent /\ Len(passed) >= RateMax =>
    passed[Len(passed) + 1 - RateMax] <= time - RateWindow

\* The bound, for the request that is one too many.
Spread ==
  \A i, j \in DOMAIN passed :
    j = i + 2 * RateMax - 1 => passed[j] - passed[i] >= RateWindow

LimiterInv == LimiterTypes /\ InOrder /\ PresentWindow /\ BetweenWindows /\ Spread

-----------------------------------------------------------------------------

LEMMA Positive ==
  /\ RateMax \in Nat /\ RateMax >= 1 /\ RateWindow \in Nat /\ RateWindow >= 1
  /\ Absent \notin Counts
BY RateAssumption DEF Counts

LEMMA LimiterFacts ==
  ASSUME LimiterTypes
  PROVE  /\ Len(passed) \in Nat /\ DOMAIN passed = 1 .. Len(passed)
         /\ \A i \in DOMAIN passed : i \in Nat /\ passed[i] \in Nat
         /\ time \in Nat /\ RateMax \in Nat /\ RateMax >= 1 /\ RateWindow \in Nat
<1>1. Len(passed) \in Nat /\ DOMAIN passed = 1 .. Len(passed) /\ time \in Nat
  BY DEF LimiterTypes
<1>2. \A i \in 1 .. Len(passed) : i \in Nat
  BY <1>1
<1>3. \A i \in DOMAIN passed : passed[i] \in Nat
  BY DEF LimiterTypes
<1> QED
  BY <1>1, <1>2, <1>3, Positive

\* An expired bucket is as good as none.
LEMMA ExpiredIsAbsent ==
  ASSUME LimiterInv, Expired, Len(passed) >= RateMax
  PROVE  passed[Len(passed) + 1 - RateMax] <= time - RateWindow
<1>1. CASE bucket = Absent
  BY <1>1 DEF LimiterInv, BetweenWindows
<1>2. CASE bucket # Absent
  <2>1. /\ bucket \in Counts /\ time >= bucket.resetAt /\ bucket.count > 0
        /\ InWindow <= Len(passed) /\ passed[Len(passed) - InWindow + 1] = Start
    BY <1>2 DEF LimiterInv, LimiterTypes, PresentWindow, Expired
  <2>2. /\ Len(passed) \in Nat /\ RateMax \in Nat /\ RateMax >= 1 /\ RateWindow \in Nat
        /\ InWindow \in 1 .. RateMax /\ bucket.resetAt \in Nat /\ time \in Nat
    BY <2>1, Positive DEF LimiterInv, LimiterTypes, InWindow, Counts
  <2> DEFINE i == Len(passed) + 1 - RateMax
             j == Len(passed) - InWindow + 1
  <2>3. i \in DOMAIN passed /\ j \in DOMAIN passed /\ i <= j
    BY <2>1, <2>2 DEF LimiterInv, LimiterTypes
  <2>4. passed[i] <= passed[j] /\ passed[i] \in Nat
    BY <2>3 DEF LimiterInv, LimiterTypes, InOrder
  <2> QED
    BY <2>1, <2>2, <2>4 DEF Start
<1> QED
  BY <1>1, <1>2

\* What letting a request through keeps, whatever becomes of the bucket.
LEMMA LetThrough ==
  ASSUME LimiterInv, passed' = Append(passed, time), UNCHANGED time,
         Len(passed) + 1 >= 2 * RateMax =>
           time - passed[Len(passed) + 2 - 2 * RateMax] >= RateWindow
  PROVE  /\ passed' \in Seq(Nat) /\ Len(passed') = Len(passed) + 1
         /\ \A i \in DOMAIN passed : passed'[i] = passed[i]
         /\ passed'[Len(passed) + 1] = time
         /\ InOrder' /\ Spread'
<1>1. /\ passed' \in Seq(Nat) /\ Len(passed') = Len(passed) + 1
      /\ \A i \in DOMAIN passed : passed'[i] = passed[i]
      /\ passed'[Len(passed) + 1] = time
      /\ Len(passed) \in Nat /\ time \in Nat
      /\ RateMax \in Nat /\ RateMax >= 1 /\ RateWindow \in Nat
  BY Positive DEF LimiterInv, LimiterTypes
<1>2. /\ DOMAIN passed' = 1 .. Len(passed) + 1 /\ DOMAIN passed = 1 .. Len(passed)
      /\ \A i \in DOMAIN passed : passed[i] \in Nat
  BY <1>1 DEF LimiterInv, LimiterTypes
<1>3. InOrder'
  BY <1>1, <1>2 DEF LimiterInv, InOrder
<1>4. Spread'
  <2> SUFFICES ASSUME NEW i \in DOMAIN passed', NEW j \in DOMAIN passed',
                      j = i + 2 * RateMax - 1
               PROVE  passed'[j] - passed'[i] >= RateWindow
    BY DEF Spread
  <2>1. i \in DOMAIN passed
    BY <1>1, <1>2
  <2>2. CASE j \in DOMAIN passed
    BY <1>1, <2>1, <2>2 DEF LimiterInv, Spread
  <2>3. CASE j = Len(passed) + 1
    <3>1. i = Len(passed) + 2 - 2 * RateMax /\ Len(passed) + 1 >= 2 * RateMax
      <4>1. i \in Nat /\ i >= 1 /\ Len(passed) + 1 = i + 2 * RateMax - 1
        BY <1>1, <1>2, <2>1, <2>3
      <4> QED
        BY <1>1, <4>1
    <3>2. passed'[j] = time /\ passed'[i] = passed[i]
      BY <1>1, <2>1, <2>3
    <3> QED
      BY <3>1, <3>2
  <2> QED
    BY <1>2, <2>2, <2>3
<1> QED
  BY <1>1, <1>3, <1>4

LEMMA OpenStep ==
  ASSUME LimiterInv, Hit, Expired
  PROVE  LimiterInv'
<1>1. /\ bucket' = [count |-> 1, resetAt |-> time + RateWindow]
      /\ passed' = Append(passed, time) /\ UNCHANGED time
  BY DEF Hit
<1>2. /\ Len(passed) \in Nat /\ time \in Nat
      /\ RateMax \in Nat /\ RateMax >= 1 /\ RateWindow \in Nat
      /\ DOMAIN passed = 1 .. Len(passed) /\ \A i \in DOMAIN passed : passed[i] \in Nat
  BY Positive DEF LimiterInv, LimiterTypes
<1>3. Len(passed) >= RateMax => passed[Len(passed) + 1 - RateMax] <= time - RateWindow
  BY ExpiredIsAbsent
<1>4. Len(passed) + 1 >= 2 * RateMax =>
        time - passed[Len(passed) + 2 - 2 * RateMax] >= RateWindow
  <2> SUFFICES ASSUME Len(passed) + 1 >= 2 * RateMax
               PROVE  time - passed[Len(passed) + 2 - 2 * RateMax] >= RateWindow
    OBVIOUS
  <2> DEFINE i == Len(passed) + 2 - 2 * RateMax
             j == Len(passed) + 1 - RateMax
  <2>1. i \in DOMAIN passed /\ j \in DOMAIN passed /\ i <= j
    BY <1>2
  <2>2. passed[i] <= passed[j]
    BY <2>1 DEF LimiterInv, InOrder
  <2> QED
    BY <1>2, <1>3, <2>1, <2>2
<1>5. /\ passed' \in Seq(Nat) /\ Len(passed') = Len(passed) + 1
      /\ \A i \in DOMAIN passed : passed'[i] = passed[i]
      /\ passed'[Len(passed) + 1] = time
      /\ InOrder' /\ Spread'
  BY <1>1, <1>4, LetThrough
<1>6. bucket' \in Counts /\ bucket' # Absent /\ bucket'.count = 1 /\ Start' = time
  BY <1>1, <1>2, Positive DEF Counts, Start
<1>7. PresentWindow'
  <2>1. InWindow' = 1
    BY <1>2, <1>6 DEF InWindow
  <2> QED
    BY <1>1, <1>2, <1>3, <1>5, <1>6, <2>1 DEF PresentWindow
<1> QED
  BY <1>1, <1>2, <1>5, <1>6, <1>7 DEF LimiterInv, LimiterTypes, BetweenWindows

LEMMA CountStep ==
  ASSUME LimiterInv, Hit, ~Expired
  PROVE  LimiterInv'
<1>1. /\ bucket \in Counts /\ bucket # Absent /\ time < bucket.resetAt /\ UNCHANGED time
      /\ bucket' = [count |-> bucket.count + 1, resetAt |-> bucket.resetAt]
      /\ passed' = IF bucket'.count > RateMax THEN passed ELSE Append(passed, time)
  BY DEF Hit, Expired, LimiterInv, LimiterTypes, Counts
<1>2. /\ Len(passed) \in Nat /\ time \in Nat
      /\ RateMax \in Nat /\ RateMax >= 1 /\ RateWindow \in Nat
      /\ DOMAIN passed = 1 .. Len(passed) /\ \A i \in DOMAIN passed : passed[i] \in Nat
      /\ bucket.count \in Nat /\ bucket.resetAt \in Nat
  BY <1>1, Positive DEF LimiterInv, LimiterTypes, Counts
<1>3. /\ bucket.count > 0 /\ Start <= time
      /\ InWindow <= Len(passed) /\ passed[Len(passed) - InWindow + 1] = Start
      /\ Len(passed) - InWindow >= RateMax =>
           passed[Len(passed) - InWindow + 1 - RateMax] <= Start - RateWindow
  BY <1>1 DEF LimiterInv, PresentWindow
<1>4. bucket' \in Counts /\ bucket' # Absent /\ Start' = Start /\ bucket'.count = bucket.count + 1
  BY <1>1, <1>2, Positive DEF Counts, Start
<1>5. time' = time /\ bucket'.count > 0
  BY <1>1, <1>2, <1>4
<1>6. CASE bucket.count >= RateMax
  <2>1. bucket'.count > RateMax
    BY <1>2, <1>4, <1>6
  <2>2. passed' = passed
    BY <1>1, <2>1
  <2>3. InWindow = RateMax /\ InWindow' = RateMax
    BY <1>2, <1>4, <1>6 DEF InWindow
  <2>4. PresentWindow'
    BY <1>1, <1>3, <1>4, <1>5, <2>2, <2>3 DEF PresentWindow
  <2>5. InOrder' /\ Spread'
    BY <1>1, <2>2 DEF LimiterInv, InOrder, Spread
  <2> QED
    BY <1>1, <1>4, <2>2, <2>4, <2>5 DEF LimiterInv, LimiterTypes, BetweenWindows
<1>7. CASE bucket.count < RateMax
  <2>1. /\ passed' = Append(passed, time)
        /\ InWindow = bucket.count /\ InWindow' = bucket.count + 1
    <3>1. bucket'.count = bucket.count + 1 /\ bucket'.count <= RateMax
      BY <1>2, <1>4, <1>7
    <3>2. ~(bucket'.count > RateMax) /\ bucket.count <= RateMax
      BY <1>2, <1>7, <3>1
    <3> QED
      BY <1>1, <3>1, <3>2 DEF InWindow
  <2>2. Len(passed) + 1 >= 2 * RateMax =>
          time - passed[Len(passed) + 2 - 2 * RateMax] >= RateWindow
    <3> SUFFICES ASSUME Len(passed) + 1 >= 2 * RateMax
                 PROVE  time - passed[Len(passed) + 2 - 2 * RateMax] >= RateWindow
      OBVIOUS
    <3> DEFINE i == Len(passed) + 2 - 2 * RateMax
               j == Len(passed) - InWindow + 1 - RateMax
    <3>1. i \in DOMAIN passed /\ j \in DOMAIN passed /\ i <= j
      BY <1>2, <1>3, <1>7, <2>1
    <3>2. passed[i] <= passed[j]
      BY <3>1 DEF LimiterInv, InOrder
    <3>3. passed[j] <= Start - RateWindow /\ Start \in Int
      BY <1>2, <1>3, <1>7, <2>1 DEF Start
    <3> QED
      BY <1>2, <1>3, <3>1, <3>2, <3>3
  <2>3. /\ passed' \in Seq(Nat) /\ Len(passed') = Len(passed) + 1
        /\ \A i \in DOMAIN passed : passed'[i] = passed[i]
        /\ InOrder' /\ Spread'
    BY <1>1, <2>1, <2>2, LetThrough
  <2>4. PresentWindow'
    <3>1. Len(passed') - InWindow' = Len(passed) - InWindow
      BY <1>2, <2>1, <2>3
    <3>2. /\ Len(passed) - InWindow + 1 \in DOMAIN passed
          /\ Len(passed) - InWindow >= RateMax =>
               Len(passed) - InWindow + 1 - RateMax \in DOMAIN passed
      BY <1>2, <1>3, <1>7, <2>1
    <3>3. InWindow' <= Len(passed')
      BY <1>2, <1>3, <2>1, <2>3
    <3>4. passed'[Len(passed') - InWindow' + 1] = Start
      BY <1>3, <2>3, <3>1, <3>2
    <3>5. Len(passed') - InWindow' >= RateMax =>
            passed'[Len(passed') - InWindow' + 1 - RateMax] <= Start - RateWindow
      BY <1>3, <2>3, <3>1, <3>2
    <3> QED
      BY <1>3, <1>4, <1>5, <3>3, <3>4, <3>5 DEF PresentWindow
  <2> QED
    BY <1>1, <1>2, <1>4, <2>3, <2>4 DEF LimiterInv, LimiterTypes, BetweenWindows
<1> QED
  BY <1>2, <1>6, <1>7

LEMMA SweepStep ==
  ASSUME LimiterInv, Sweep
  PROVE  LimiterInv'
<1>1. UNCHANGED <<time, passed>> /\ bucket' = IF Expired THEN Absent ELSE bucket
  BY DEF Sweep
<1>2. LimiterTypes' /\ InOrder' /\ Spread'
  BY <1>1 DEF LimiterInv, LimiterTypes, InOrder, Spread
<1>3. PresentWindow'
  BY <1>1 DEF LimiterInv, PresentWindow, InWindow, Start
<1>4. BetweenWindows'
  BY <1>1, ExpiredIsAbsent DEF LimiterInv, BetweenWindows
<1> QED
  BY <1>2, <1>3, <1>4 DEF LimiterInv

LEMMA TickStep ==
  ASSUME LimiterInv, RateTick
  PROVE  LimiterInv'
<1>1. UNCHANGED <<bucket, passed>> /\ time' = time + 1 /\ time \in Nat
  BY DEF RateTick, LimiterInv, LimiterTypes
<1>2. LimiterTypes' /\ Spread'
  BY <1>1 DEF LimiterInv, LimiterTypes, Spread
<1>3. InOrder'
  BY <1>1 DEF LimiterInv, LimiterTypes, InOrder
<1>4. PresentWindow'
  <2>1. bucket # Absent => Start \in Int
    BY Positive DEF LimiterInv, LimiterTypes, Start, Counts
  <2> QED
    BY <1>1, <2>1 DEF LimiterInv, PresentWindow, InWindow, Start
<1>5. BetweenWindows'
  <2>1. /\ RateWindow \in Nat
        /\ Len(passed) >= RateMax => passed[Len(passed) + 1 - RateMax] \in Nat
    <3>1. Len(passed) >= RateMax => Len(passed) + 1 - RateMax \in DOMAIN passed
      BY LimiterFacts DEF LimiterInv
    <3> QED
      BY <3>1, LimiterFacts DEF LimiterInv
  <2> QED
    BY <1>1, <2>1 DEF LimiterInv, BetweenWindows
<1> QED
  BY <1>2, <1>3, <1>4, <1>5 DEF LimiterInv

\* However long the window and large the maximum, and whenever the sweep runs,
\* no stretch of one window's length lets more than twice the maximum, less
\* one, through.
THEOREM RateLimited == RateSpec => []RateIsBounded
<1>1. RateInit => LimiterInv
  <2> SUFFICES ASSUME RateInit PROVE LimiterInv
    OBVIOUS
  <2>1. passed \in Seq(Nat) /\ Len(passed) = 0 /\ DOMAIN passed = {}
    BY DEF RateInit
  <2> QED
    BY <2>1, Positive
       DEF RateInit, LimiterInv, LimiterTypes, InOrder, PresentWindow, BetweenWindows, Spread
<1>2. LimiterInv /\ [RateNext]_rate => LimiterInv'
  <2> SUFFICES ASSUME LimiterInv, [RateNext]_rate PROVE LimiterInv'
    OBVIOUS
  <2>1. CASE UNCHANGED rate
    BY <2>1 DEF rate, LimiterInv, LimiterTypes, InOrder, PresentWindow, InWindow, Start,
                BetweenWindows, Spread
  <2> QED
    BY <2>1, OpenStep, CountStep, SweepStep, TickStep DEF RateNext
<1>3. LimiterInv => RateIsBounded
  <2> SUFFICES ASSUME LimiterInv, NEW i \in DOMAIN passed, NEW j \in DOMAIN passed,
                      i <= j, passed[j] - passed[i] < RateWindow,
                      ~(j - i + 1 <= 2 * RateMax - 1)
               PROVE  FALSE
    BY DEF RateIsBounded
  <2> DEFINE k == i + 2 * RateMax - 1
  <2>1. k \in DOMAIN passed /\ k <= j
    BY LimiterFacts DEF LimiterInv
  <2>2. passed[k] <= passed[j] /\ passed[k] - passed[i] >= RateWindow
    BY <2>1 DEF LimiterInv, InOrder, Spread
  <2> QED
    BY <2>1, <2>2, LimiterFacts DEF LimiterInv
<1> QED
  BY <1>1, <1>2, <1>3, PTL DEF RateSpec
=============================================================================
