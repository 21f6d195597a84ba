------------------------------ MODULE Damping -------------------------------
(***************************************************************************)
(* Peer oscillation damping (peer.go: updateStartupDelay, and the cases of *)
(* run and handleError that use it), with time.  Peer has the hold-down    *)
(* and its interleavings; here is how long it lasts.                       *)
(***************************************************************************)
EXTENDS Naturals

CONSTANTS errorAmnesiaTime, errorDelayMinTime, errorDelayMaxTime,
          MaxAge   \* a bound on the age of the last error

ASSUME DelayAssumption ==
  /\ errorAmnesiaTime \in Nat /\ errorDelayMinTime \in Nat /\ errorDelayMaxTime \in Nat
  /\ 0 < errorDelayMinTime /\ errorDelayMinTime <= errorDelayMaxTime
  /\ MaxAge \in Nat

VARIABLES
  seen,          \* lastProtoError is not nil
  since,         \* time.Since(*lastProtoError)
  startupDelay,
  inHoldDown     \* startupDelayTimer runs, or has fired and was not received

vars == <<seen, since, startupDelay, inHoldDown>>

\* A delay is within its limits.
TypeOK ==
  /\ seen \in BOOLEAN /\ since \in Nat /\ inHoldDown \in BOOLEAN
  /\ startupDelay \in {0} \cup errorDelayMinTime..errorDelayMaxTime

Init == seen = FALSE /\ since = 0 /\ startupDelay = 0 /\ inHoldDown = FALSE

min(a, b) == IF a < b THEN a ELSE b

\* Mutant of remembered: an error is never forgotten.
rememberedForEver == startupDelay

\* startupDelay once an error that is too old is forgotten.
remembered == IF seen /\ since >= errorAmnesiaTime THEN 0 ELSE startupDelay

\* Mutant of updateStartupDelay: the delay is not capped.
updateUncapped ==
  /\ startupDelay' = IF remembered > 0 THEN 2 * remembered ELSE errorDelayMinTime
  /\ seen' = TRUE /\ since' = 0 /\ inHoldDown' = TRUE

updateStartupDelay ==
  /\ startupDelay' = IF remembered > 0 THEN min(2 * remembered, errorDelayMaxTime)
                                       ELSE errorDelayMinTime
  /\ seen' = TRUE /\ since' = 0 /\ inHoldDown' = TRUE

\* An FSM reports an error that damps the peer; in hold-down there is none.
handleError == ~inHoldDown /\ updateStartupDelay

\* Mutant of delayExpired: the timer is not renewed and fires at once.
delayExpiredEarly ==
  /\ inHoldDown
  /\ inHoldDown' = FALSE
  /\ UNCHANGED <<seen, since, startupDelay>>

\* The timer was set after the time of the error was taken, and is received
\* when it has fired, or some time later.
delayExpired ==
  /\ inHoldDown /\ since >= startupDelay
  /\ inHoldDown' = FALSE
  /\ UNCHANGED <<seen, since, startupDelay>>

tick == since < MaxAge /\ since' = since + 1 /\ UNCHANGED <<seen, startupDelay, inHoldDown>>

Next == handleError \/ delayExpired \/ tick

Spec == Init /\ [][Next]_vars
-----------------------------------------------------------------------------
\* A delay that lasts as long as the memory for errors is always followed by
\* the shortest: the peer is held down as long as the delay before an FSM can
\* fail again, by when the error is forgotten.  With the code's values (300 s
\* both) the longest delay never comes twice in a row (peer.go:226-239).
LongDelayForgotten ==
  [][handleError /\ startupDelay >= errorAmnesiaTime /\ startupDelay # 0 =>
       startupDelay' = errorDelayMinTime]_vars
=============================================================================
