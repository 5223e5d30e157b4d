------------------------------ MODULE MCRelay ------------------------------
(***************************************************************************)
(* Instances of Registration, RateLimiter and AuthWake for TLC, which      *)
(* share no variable: each moves while the other two are in a first state, *)
(* so that all there is to see of each is reached, and their products are  *)
(* not.                                                                    *)
(***************************************************************************)
EXTENDS MCRegistration, RateLimiter

CONSTANTS a1, a2, a3, a4, d1, d2

\* AuthWake
VARIABLES now, stored, devices, wake, pass, seen, due, item, rounds

wakes == <<now, stored, devices, wake, pass, seen, due, item, rounds>>

\* An hour is 8 units.  Two short authorizations that expire together, a longer
\* one, and one that the relay cannot read.
WakeExpiry == (a1 :> 40 @@ a4 :> 40 @@ a2 :> 88 @@ a3 :> None)

Wakes == INSTANCE AuthWake WITH
  reg <- stored, Mailboxes <- {m1}, Devices <- {d1, d2}, Tokens <- {a1, a2, a3, a4},
  Expiry <- WakeExpiry, Step <- 8, MaxTime <- 112, Day <- 16, Grace <- 8,
  MinLead <- 16, MaxLead <- 32, PostAttempts <- 2, MaxPerTick <- 1, Retention <- 24,
  Late <- 8, Legacy <- {a1}, Faults <- {"crash", "db_error", "stale", "unregister"}

\* Requests are alike, and the devices of a wake.
Alike == Permutations(Requests) \cup Permutations({d1, d2})

ApiWaits ==
  Init /\ allowed = Servers /\ home = [d \in Devices |-> PrimaryEnvironment]
WakesWait == Wakes!Init /\ stored = [m \in {m1} |-> None]

MCInit == Init /\ RateInit /\ Wakes!Init

MCNext ==
  \/ RateInit /\ WakesWait /\ Next /\ UNCHANGED <<rate, wakes>>
  \/ ApiWaits /\ WakesWait /\ RateNext /\ UNCHANGED <<vars, wakes>>
  \/ ApiWaits /\ RateInit /\ Wakes!Next /\ UNCHANGED <<vars, rate>>

MCSpec == MCInit /\ [][MCNext]_<<vars, rate, wakes>>

\* What AuthWake says of the number of wakes, of the rows that count them, of
\* deleted mailboxes and of the time between two wakes (see there).
WakesBounded == Wakes!WakesBounded
WakesAreCounted == Wakes!WakesAreCounted
NoWakeLeftovers == Wakes!NoWakeLeftovers
FirstWakeAfterRegistration == Wakes!FirstWakeAfterRegistration
WakesSpaced == Wakes!WakesSpaced
=============================================================================
