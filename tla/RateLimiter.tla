---------------------------- MODULE RateLimiter ----------------------------
(***************************************************************************)
(* createRateLimiter(): the fixed-window counter of one client.  Buckets   *)
(* of different clients do not affect each other, and the timer of the     *)
(* sweep may fire at any time.                                             *)
(***************************************************************************)
EXTENDS Integers, Sequences

CONSTANTS
  RateWindow, \* windowMs
  RateMax,    \* max
  RateTimes,  \* bound: the clock stops there
  RateCalls,  \* bound: the calls counted in one window
  Absent      \* no bucket

ASSUME RateAssumption ==
  /\ {RateWindow, RateMax} \subseteq Nat \ {0} /\ {RateTimes, RateCalls} \subseteq Nat
  /\ Absent \notin [count: Nat, resetAt: Nat]

VARIABLES
  time,
  bucket, \* the client's entry in buckets
  passed  \* history: when requests were let through

rate == <<time, bucket, passed>>

RateInit == time = 0 /\ bucket = Absent /\ passed = <<>>

Expired == bucket # Absent => time >= bucket.resetAt

\* hit()
Hit ==
  /\ ~Expired => bucket.count < RateCalls
  /\ bucket' = IF Expired THEN [count |-> 1, resetAt |-> time + RateWindow]
                          ELSE [bucket EXCEPT !.count = @ + 1]
  /\ passed' = IF ~Expired /\ bucket'.count > RateMax THEN passed ELSE Append(passed, time)
  /\ UNCHANGED time

\* Mutant: every bucket is dropped.
SweepAll == bucket' = Absent /\ UNCHANGED <<time, passed>>

\* sweep()
Sweep ==
  /\ bucket' = IF Expired THEN Absent ELSE bucket
  /\ UNCHANGED <<time, passed>>

RateTick == time < RateTimes /\ time' = time + 1 /\ UNCHANGED <<bucket, passed>>

RateNext == Hit \/ Sweep \/ RateTick

RateSpec == RateInit /\ [][RateNext]_rate

\* In any stretch of one window's length a client gets at most the rest of one
\* window and all of the next, less the request that opened the first; dropping
\* buckets does not add to that.
RateIsBounded ==
  \A i, j \in DOMAIN passed :
    i <= j /\ passed[j] - passed[i] < RateWindow => j - i + 1 <= 2 * RateMax - 1
=============================================================================
