----------------------------- MODULE ApnsSender -----------------------------
(***************************************************************************)
(* A push to one device: the primary APNs environment first and, after a   *)
(* stale-token answer, once more the opposite one.  Both answers are one   *)
(* step: nothing but Uninstall changes what they depend on, and what an    *)
(* environment may answer before it, it may answer after it, too.          *)
(***************************************************************************)
CONSTANTS
  Devices,
  PrimaryEnvironment, \* "production" or "sandbox"
  AllowBoth           \* whether there is a fallback provider

Environments == {"production", "sandbox"}

ASSUME ApnsAssumption ==
  /\ PrimaryEnvironment \in Environments
  /\ AllowBoth \in BOOLEAN

VARIABLES
  home, \* the environment a device token is valid in; "gone" once uninstalled
  stale \* the devices whose push failed for good, before they are removed

apns == <<home, stale>>

FallbackEnvironment == CHOOSE e \in Environments : e # PrimaryEnvironment
Usable == IF AllowBoth THEN Environments ELSE {PrimaryEnvironment}

ApnsTypeOK ==
  /\ home \in [Devices -> Environments \cup {"gone"}]
  /\ stale \subseteq Devices

ApnsInit ==
  /\ home \in [Devices -> Environments]
  /\ stale = {}

StaleReasons == {"BadDeviceToken", "Unregistered"}

\* What an environment answers about a token: one of another environment is
\* a BadDeviceToken, one of an uninstalled app is Unregistered sooner or later.
Answers(d, e) ==
  CASE home[d] = e      -> {"accepted", "failed"}
    [] home[d] = "gone" -> {"accepted", "failed"} \cup StaleReasons
    [] OTHER            -> {"BadDeviceToken", "failed"}

\* Mutant: only an unregistered token is tried again.
RetriesUnregistered(answer) == AllowBoth /\ answer = "Unregistered"

\* canTryFallback
CanTryFallback(answer) == AllowBoth /\ answer \in StaleReasons

\* _sendWithFallback(): the error of the last _sendViaProvider() is the caller's.
Outcomes(d) ==
  UNION {IF CanTryFallback(answer) THEN Answers(d, FallbackEnvironment) ELSE {answer} :
           answer \in Answers(d, PrimaryEnvironment)}

SendPush(d) ==
  /\ d \notin stale
  /\ \E answer \in Outcomes(d) \cap StaleReasons : stale' = stale \cup {d}
  /\ UNCHANGED home

\* The app is removed from the device.
Uninstall(d) ==
  /\ home[d] # "gone"
  /\ home' = [home EXCEPT ![d] = "gone"]
  /\ UNCHANGED stale

\* Only a device that no environment in use delivers to is reported as stale:
\* one of the other environment, or one whose second push merely failed, stays
\* registered.
OnlyDeadDevicesAreStale == \A d \in stale : home[d] \notin Usable
=============================================================================
