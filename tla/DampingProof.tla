---------------------------- MODULE DampingProof ----------------------------
(***************************************************************************)
(* The damping properties for all delays.                                  *)
(***************************************************************************)
EXTENDS Damping, TLAPS

\* Hold-down outlasts the delay: once it is over, the last error is at least
\* as old as the delay it led to.
IInv ==
  /\ TypeOK
  /\ inHoldDown => seen /\ startupDelay # 0
  /\ ~inHoldDown /\ startupDelay # 0 => seen /\ since >= startupDelay

\* IInv holds at first and in every step.
LEMMA Inductive == Spec => []IInv
<1> USE DelayAssumption DEF IInv, TypeOK
<1>1. Init => IInv
  <2> SUFFICES ASSUME Init PROVE IInv
    OBVIOUS
  <2>1. seen \in BOOLEAN /\ inHoldDown \in BOOLEAN
    BY DEF Init
  <2> QED
    BY <2>1 DEF Init
<1>2. IInv /\ [Next]_vars => IInv'
  <2> SUFFICES ASSUME IInv, [Next]_vars PROVE IInv'
    OBVIOUS
  <2>1. CASE handleError
    <3>1. remembered \in {0} \cup errorDelayMinTime..errorDelayMaxTime
      BY DEF remembered
    <3>2. startupDelay' \in errorDelayMinTime..errorDelayMaxTime /\ since' = 0
      BY <2>1, <3>1 DEF handleError, updateStartupDelay, min
    <3>3. inHoldDown' = TRUE /\ seen' = TRUE
      BY <2>1 DEF handleError, updateStartupDelay
    <3> QED
      BY <3>2, <3>3
  <2>2. CASE delayExpired
    BY <2>2 DEF delayExpired
  <2>3. CASE tick
    BY <2>3 DEF tick
  <2>4. CASE UNCHANGED vars
    BY <2>4 DEF vars
  <2> QED
    BY <2>1, <2>2, <2>3, <2>4 DEF Next
<1> QED
  BY <1>1, <1>2, PTL DEF Spec

\* The delays stay between errorDelayMinTime and errorDelayMaxTime
\* (peer.go:235-239).
THEOREM Bounded == Spec => []TypeOK
<1>1. IInv => TypeOK
  BY DEF IInv
<1> QED
  BY <1>1, Inductive, PTL

\* A delay as long as errorAmnesiaTime is followed by the shortest one
\* (peer.go:226-239).
THEOREM Forgotten == Spec => LongDelayForgotten
<1>1. IInv /\ [Next]_vars =>
        [handleError /\ startupDelay >= errorAmnesiaTime /\ startupDelay # 0 =>
           startupDelay' = errorDelayMinTime]_vars
  BY DelayAssumption DEF IInv, TypeOK, handleError, updateStartupDelay, remembered
<1> QED
  BY <1>1, Inductive, PTL DEF Spec, LongDelayForgotten
=============================================================================
