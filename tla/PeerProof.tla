----------------------------- MODULE PeerProof ------------------------------
(***************************************************************************)
(* The inductive invariant of Peer, and the proofs that the safety         *)
(* properties of Peer hold for every identifier and AS number, and that    *)
(* Peer implements Plugin.                                                 *)
(***************************************************************************)
EXTENDS Peer, TLAPS

\* The FSM that peer.run waits for in disableFSM.
Victim(i) ==
  \/ ppc = "preempt" /\ i = other(cur)
  \/ ppc \in {"yield", "lost"} /\ i = cur
  \/ ppc \in {"down", "dampIn", "exitIn"} /\ i = in
  \/ ppc \in {"dampOut", "exitOut"} /\ i = out

\* An FSM the peer does not hold is off and seen as disabled; one it holds
\* exits only when told to, and only the victim of a disableFSM is told.
Liveliness(i) ==
  /\ i \notin fsms => pc[i] = "off" /\ fsmState[i] = disabledState
  /\ i \in fsms /\ pc[i] = "off" => i \in fsmCloseCh
  /\ i \in fsms /\ i \in fsmCloseCh => Victim(i)
  /\ pc[i] # "off" /\ to[i] = disabledState => i \in fsmCloseCh

\* The transitions a state function may ask for, as far as it matters.
Edge(s, t) ==
  /\ t = openSentState => s \in {connectState, activeState}
  /\ t = openConfirmState => s = openSentState
  /\ t = establishedState => s = openConfirmState

\* What an FSM's program counter says about its transition, about the peer's
\* view of it, and about the last callback.
Control(i) ==
  /\ pc[i] \in {"offer", "await", "error", "closing"} =>
       fsmState[i] = from[i] /\ Edge(from[i], to[i])
  /\ pc[i] \notin {"off", "offer", "await", "error", "closing"} =>
       fsmState[i] = to[i] /\ pc[i] \in
         {StateFunction(to[i])} \cup (IF to[i] = establishedState
                                      THEN {"established"} ELSE {})
  /\ pc[i] = "closing" => from[i] = establishedState
  /\ pc[i] \in {"error", "closing"} =>
       to[i] \in {disabledState, idleState, activeState}

Stage(i) ==
  /\ plugin[i] = "up" <=> pc[i] \in {"established", "closing"}
  /\ \/ pc[i] = "openSent"
     \/ pc[i] \in {"offer", "await"} /\ to[i] = openSentState
     => plugin[i] = "caps"
  /\ \/ pc[i] \in {"openConfirm", "opening"}
     \/ pc[i] \in {"offer", "await"} /\ to[i] \in {openConfirmState, establishedState}
     => plugin[i] = "open"

\* What peer.run knows at each of its control points.
Handling ==
  /\ ppc \in {"send", "preempt", "collide", "passed"} =>
       cur \in fsms /\ cur \notin fsmCloseCh /\ pc[cur] = "await"
  /\ ppc = "send" /\ to[cur] = establishedState => other(cur) \notin fsms
  /\ ppc = "send" /\ to[cur] = openConfirmState =>
       fsmState[other(cur)] \notin {openConfirmState, establishedState}
  /\ ppc \in {"collide", "passed", "lost"} =>
       /\ cur = out
       /\ in \in fsms /\ fsmState[in] = openConfirmState /\ in \notin fsmCloseCh
       /\ to[cur] = openConfirmState \/ ppc = "lost"
  /\ ppc = "passed" => pc[in] = "await" /\ to[in] # establishedState
  /\ ppc = "lost" => pc[in] = "await" /\ to[in] = establishedState
  /\ ppc = "yield" => other(cur) \in fsms
  /\ ppc = "down" => in \in fsms
  /\ ppc \in {"dampOut", "done"} => in \notin fsms
  /\ ppc \in {"exitIn", "done"} => out \notin fsms

HoldDown ==
  /\ inHoldDown => out \notin fsms /\ in \notin fsms /\ (delayTimer \/ ppc = "done")
  /\ delayTimer => inHoldDown

Exclusive(i) == pc[i] \in InSession => other(i) \notin fsms

Somebody == ppc = "run" => Passive \/ inHoldDown \/ out \in fsms \/ in \in fsms

Inv ==
  /\ \A i \in Dirs : Liveliness(i) /\ Control(i) /\ Stage(i) /\ Exclusive(i)
  /\ Handling /\ HoldDown /\ Somebody /\ OnePastCollision

IInv == TypeOK /\ Inv
-----------------------------------------------------------------------------
(* Type correctness.                                                       *)

\* The two directions are each other's other (peer.go:84-89).
LEMMA DirsFacts ==
  /\ out \in Dirs /\ in \in Dirs /\ out # in
  /\ \A i \in Dirs : /\ other(i) \in Dirs /\ other(i) # i
                      /\ other(other(i)) = i /\ Dirs = {i, other(i)}
  BY DEF Dirs, out, in, other

\* TypeOK but for the flags, which the provers treat apart.
Typed ==
  /\ ppc \in PeerPC /\ cur \in Dirs
  /\ fsms \in SUBSET Dirs /\ fsmState \in [Dirs -> States]
  /\ pc \in [Dirs -> FSMPC] /\ from \in [Dirs -> States]
  /\ to \in [Dirs -> States] /\ err \in [Dirs -> Errors]
  /\ fsmCloseCh \in SUBSET Dirs /\ remoteID \in [Dirs -> Nat]
  /\ plugin \in [Dirs -> {"none", "caps", "open", "up"}]

\* The flags keep their type: every action assigns them a truth value.
LEMMA FlagsStep == ASSUME FlagsOK, [Next]_vars PROVE FlagsOK'
<1> USE DEF FlagsOK, peerVars, fsmVars, callerVars
<1>1. ASSUME NEW i \in Dirs, FSMStep(i) PROVE FlagsOK'
  BY <1>1 DEF FSMStep, step, run, idle, connect, active, openSent, openConfirm,
              OnEstablished, established, OnClose
<1>2. ASSUME PeerStep PROVE FlagsOK'
  BY <1>2 DEF PeerStep, recvTransition, take, handleError, report, sendTransitionToFSM, preempt,
              down, yield, collide, lost, passed, dampIn, dampOut, delayExpired,
              exit, exitOut, exitIn, recvConn, disabled
<1>3. CASE incomingConnection \/ refuseConn \/ stopPeer
  BY <1>3 DEF incomingConnection, refuseConn, stopPeer
<1> QED
  BY <1>1, <1>2, <1>3 DEF Next, vars

\* newFSM and enableFSM keep the types.
LEMMA EnableTyped ==
  ASSUME Typed, NEW i \in Dirs, NEW f \in SUBSET Dirs, NEW s \in [Dirs -> States],
         ppc' \in PeerPC, cur' \in Dirs, enableFSM(i, f, s)
  PROVE  Typed'
<1>1. CASE fsms' = f /\ fsmState' = s /\ UNCHANGED <<fsmVars, fsmCloseCh>>
  BY <1>1 DEF Typed, fsmVars
<1>2. CASE /\ fsms' = f \cup {i}
           /\ fsmState' = [s EXCEPT ![i] = disabledState]
           /\ newFSM(i)
  BY <1>2 DEF Typed, FSMPC, Errors, States, disabledState, idleState, activeState,
              newFSM
<1> QED
  BY <1>1, <1>2 DEF enableFSM

\* handleStateTransition leads to a control point of peer.run.
LEMMA BranchTyped ==
  ASSUME NEW i \in Dirs
  PROVE  Branch(i) \in {"preempt", "down", "send", "yield", "collide"}
  BY DEF Branch

\* It closes at most a channel of the two FSMs.
LEMMA HandleTyped ==
  ASSUME Typed, NEW i \in Dirs, handleStateTransition(i)
  PROVE  ppc' \in PeerPC /\ cur' \in Dirs /\ fsmCloseCh' \in SUBSET Dirs
  BY BranchTyped DEF Typed, PeerPC, Dirs, other, handleStateTransition, stop

\* A transition sent back leads to a state function of fsm.go.
LEMMA GrantTyped ==
  ASSUME Typed, NEW i \in Dirs, send(i)
  PROVE  /\ pc' \in [Dirs -> FSMPC] /\ fsmState' \in [Dirs -> States]
         /\ UNCHANGED <<from, to, err, remoteID, plugin>>
  BY DEF Typed, FSMPC, send, grant, StateFunction

\* What disableFSM forgets keeps the types.
LEMMA DisabledTyped ==
  ASSUME Typed, NEW i \in Dirs, fsms' = fsmsWithout(i), fsmState' = fsmStateWithout(i)
  PROVE  fsms' \in SUBSET Dirs /\ fsmState' \in [Dirs -> States]
  BY DEF Typed, fsmsWithout, fsmStateWithout, States, disabledState

\* What closeCh does to an FSM keeps the types.
LEMMA CloseTyped ==
  ASSUME Typed, NEW i \in Dirs, runClose(i) \/ openConfirmClose(i)
  PROVE  /\ pc' \in [Dirs -> FSMPC] /\ from' \in [Dirs -> States]
         /\ to' \in [Dirs -> States] /\ err' \in [Dirs -> Errors]
         /\ remoteID' \in [Dirs -> Nat]
         /\ plugin' \in [Dirs -> {"none", "caps", "open", "up"}]
  BY DEF Typed, FSMPC, Errors, States, disabledState, runClose, openConfirmClose,
         Fail, Return, Fire

\* A step of an FSM keeps the types: one case per state function of fsm.go.
LEMMA FSMTyped ==
  ASSUME Typed, NEW i \in Dirs, step(i), UNCHANGED <<peerVars, callerVars>>
  PROVE  Typed'
<1> USE DEF peerVars, Return, Offer, Fail, Fire, FSMPC, Errors, States,
      disabledState, idleState, connectState, activeState, openSentState,
      openConfirmState, establishedState
<1>1. CASE run(i)
  BY <1>1, CloseTyped DEF run, Typed
<1>2. CASE idle(i)
  BY <1>2 DEF idle, Typed
<1>3. CASE connect(i)
  BY <1>3 DEF connect, sendOpenAndSetHoldTimer, Typed
<1>4. CASE active(i)
  BY <1>4 DEF active, sendOpenAndSetHoldTimer, Typed
<1>5. CASE openSent(i)
  BY <1>5, IDAssumption DEF openSent, openMessage, validIDs, Typed
<1>6. CASE openConfirm(i)
  BY <1>6 DEF openConfirm, openConfirmClose, Typed
<1>7. CASE OnEstablished(i)
  BY <1>7 DEF OnEstablished, Typed
<1>8. CASE established(i)
  BY <1>8 DEF established, Typed
<1>9. CASE OnClose(i)
  BY <1>9 DEF OnClose, Typed
<1> QED
  BY <1>1, <1>2, <1>3, <1>4, <1>5, <1>6, <1>7, <1>8, <1>9 DEF step

\* A step of peer.run keeps the types.
LEMMA PeerTyped == ASSUME Typed, PeerStep PROVE Typed'
<1> USE DEF peerVars, fsmVars, callerVars
<1>1. ASSUME NEW i \in Dirs, recvTransition(i) PROVE Typed'
  BY <1>1, HandleTyped DEF recvTransition, take, Typed, FSMPC
<1>2. ASSUME NEW i \in Dirs, handleError(i) PROVE Typed'
  BY DirsFacts, <1>2 DEF handleError, report, Typed, FSMPC, Errors, PeerPC, stop
<1>3. CASE sendTransitionToFSM
  BY <1>3, GrantTyped DEF sendTransitionToFSM, Typed, PeerPC
<1>4. CASE preempt \/ yield \/ lost
  BY DirsFacts, <1>4, DisabledTyped DEF preempt, yield, lost, disabled, Typed, PeerPC
<1>5. CASE down
  <2>1. fsmsWithout(in) \in SUBSET Dirs /\ fsmStateWithout(in) \in [Dirs -> States]
    BY DirsFacts DEF Typed, fsmsWithout, fsmStateWithout, States, disabledState
  <2> QED
    BY DirsFacts, <1>5, <2>1, EnableTyped DEF down, Typed, PeerPC
<1>6. CASE collide
  <2> ppc' \in PeerPC /\ fsmCloseCh' \in SUBSET Dirs
    BY DirsFacts, <1>6 DEF collide, PeerPC, Typed, stop
  <2>1. CASE runClose(other(cur)) \/ openConfirmClose(other(cur))
    BY DirsFacts, <1>6, <2>1, CloseTyped DEF collide, Typed
  <2>2. CASE UNCHANGED fsmVars
    BY <1>6, <2>2 DEF collide, Typed
  <2>3. CASE take(other(cur))
    BY DirsFacts, <1>6, <2>3 DEF collide, take, Typed, FSMPC
  <2> QED
    BY <1>6, <2>1, <2>2, <2>3 DEF collide
<1>7. CASE passed
  <2>1. ppc' \in PeerPC /\ cur' \in Dirs /\ fsmCloseCh' \in SUBSET Dirs
    BY DirsFacts, <1>7, HandleTyped DEF passed, Typed
  <2> QED
    BY <1>7, <2>1, GrantTyped DEF passed, Typed
<1>8. CASE dampIn \/ dampOut \/ exitOut \/ exitIn
  BY DirsFacts, <1>8, DisabledTyped DEF dampIn, dampOut, exitOut, exitIn, Typed, PeerPC, stop
<1>9. CASE delayExpired
  BY DirsFacts, <1>9, EnableTyped DEF delayExpired, Typed
<1>10. CASE exit
  BY DirsFacts, <1>10 DEF exit, Typed, PeerPC, stop
<1>11. CASE recvConn
  <2>1. CASE UNCHANGED <<fsms, fsmState, fsmVars, fsmCloseCh>>
    BY <1>11, <2>1 DEF recvConn, Typed
  <2>2. CASE enableFSM(in, fsms, fsmState)
    BY DirsFacts, <1>11, <2>2, EnableTyped DEF recvConn, Typed
  <2> QED
    BY <1>11, <2>1, <2>2 DEF recvConn
<1> QED
  BY <1>1, <1>2, <1>3, <1>4, <1>5, <1>6, <1>7, <1>8, <1>9, <1>10, <1>11 DEF PeerStep

\* TypeOK is its two halves together.
LEMMA TypeSplit == TypeOK <=> Typed /\ FlagsOK
  BY DEF TypeOK, Typed

\* newPeer and start give every variable its type.
LEMMA TypeInit == Init => TypeOK
<1> SUFFICES ASSUME Init PROVE Typed /\ FlagsOK
  BY TypeSplit
<1>1. FlagsOK
  BY DEF Init, FlagsOK
<1>2. Typed
  BY PeerAssumption DEF Init, Typed, PeerPC, FSMPC, Errors, States, Dirs, out, in,
     disabledState, idleState
<1> QED
  BY <1>1, <1>2

\* Every step keeps the types.
LEMMA TypeStep == ASSUME TypeOK, [Next]_vars PROVE TypeOK'
<1>1. FlagsOK'
  BY FlagsStep, TypeSplit
<1>2. Typed'
  <2> Typed
    BY TypeSplit
  <2>1. CASE PeerStep \/ \E i \in Dirs : FSMStep(i)
    BY <2>1, FSMTyped, PeerTyped DEF FSMStep
  <2>2. CASE incomingConnection \/ refuseConn \/ stopPeer \/ UNCHANGED vars
    BY <2>2 DEF incomingConnection, refuseConn, stopPeer, vars, peerVars, fsmVars, Typed
  <2> QED
    BY <2>1, <2>2 DEF Next
<1> QED
  BY <1>1, <1>2 DEF TypeOK, Typed

\* Every variable of Peer keeps its type, for all identifiers and AS numbers.
THEOREM TypeCorrect == Spec => []TypeOK
<1>1. TypeOK /\ [Next]_vars => TypeOK'
  BY TypeStep
<1> QED
  BY TypeInit, <1>1, PTL DEF Spec

-----------------------------------------------------------------------------
(* The invariant.                                                          *)

\* A step of FSM i alone: nothing of the peer or of the other FSM changes, it
\* exits only when told to, does not move while the peer holds its
\* transition, and enters neither openConfirm nor established by itself.
LEMMA FSMEffect ==
  ASSUME TypeOK, NEW i \in Dirs, Liveliness(i), Control(i), Stage(i), step(i),
         UNCHANGED <<peerVars, callerVars>>
  PROVE  /\ UNCHANGED <<peerVars, callerVars, fsmCloseCh>>
         /\ \A j \in Dirs \ {i} : /\ pc'[j] = pc[j] /\ from'[j] = from[j]
                                  /\ to'[j] = to[j] /\ plugin'[j] = plugin[j]
         /\ pc[i] # "off"
         /\ pc'[i] = "off" \/ pc[i] = "await" => i \in fsmCloseCh
         /\ to'[i] = disabledState => i \in fsmCloseCh
         /\ pc'[i] \in InSession => pc[i] \in InSession
         /\ pc'[i] = "openConfirm" => pc[i] = "openConfirm"
         /\ Control(i)' /\ Stage(i)'
<1> USE DEF TypeOK, peerVars, callerVars, Return, Offer, Fail, Fire, InSession,
      Liveliness, Control, Stage, Edge, StateFunction, States, FSMPC, Errors,
      disabledState, idleState, connectState, activeState, openSentState,
      openConfirmState, establishedState
<1>1. CASE run(i)
  BY <1>1 DEF run, runClose
<1>2. CASE idle(i)
  BY <1>2 DEF idle
<1>3. CASE connect(i)
  BY <1>3 DEF connect, sendOpenAndSetHoldTimer
<1>4. CASE active(i)
  BY <1>4 DEF active, sendOpenAndSetHoldTimer
<1>5. CASE openSent(i)
  BY <1>5 DEF openSent, openMessage
<1>6. CASE openConfirm(i)
  BY <1>6 DEF openConfirm, openConfirmClose
<1>7. CASE OnEstablished(i)
  BY <1>7 DEF OnEstablished
<1>8. CASE established(i)
  BY <1>8 DEF established
<1>9. CASE OnClose(i)
  BY <1>9 DEF OnClose
<1> QED
  BY <1>1, <1>2, <1>3, <1>4, <1>5, <1>6, <1>7, <1>8, <1>9 DEF step

\* A step of an FSM keeps the invariant.
LEMMA FSMInv == ASSUME IInv, NEW i \in Dirs, FSMStep(i) PROVE Inv'
<1> DEFINE j == other(i)
<1>1. j \in Dirs /\ i # j /\ other(j) = i /\ Dirs = {i, j}
  BY DEF Dirs, other, out, in
<1>2. /\ UNCHANGED <<peerVars, callerVars, fsmCloseCh>>
      /\ pc'[j] = pc[j] /\ from'[j] = from[j]
      /\ to'[j] = to[j] /\ plugin'[j] = plugin[j]
      /\ pc[i] # "off"
      /\ pc'[i] = "off" \/ pc[i] = "await" => i \in fsmCloseCh
      /\ to'[i] = disabledState => i \in fsmCloseCh
      /\ pc'[i] \in InSession => pc[i] \in InSession
      /\ pc'[i] = "openConfirm" => pc[i] = "openConfirm"
      /\ Control(i)' /\ Stage(i)'
  BY <1>1, FSMEffect DEF IInv, Inv, FSMStep
<1> HIDE DEF j
<1>3. Liveliness(i)' /\ Liveliness(j)'
  BY <1>1, <1>2 DEF IInv, Inv, Liveliness, Victim, peerVars
<1>4. Control(j)' /\ Stage(j)'
  BY <1>1, <1>2 DEF IInv, Inv, Control, Stage, peerVars
<1>5. Exclusive(i)' /\ Exclusive(j)'
  BY <1>1, <1>2 DEF IInv, Inv, Exclusive, InSession, peerVars, j
<1>6. OnePastCollision'
  BY <1>1, <1>2 DEF IInv, Inv, OnePastCollision, InSession, j
<1>7. \A k \in Dirs : k \notin fsmCloseCh /\ pc[k] = "await" =>
                        pc'[k] = pc[k] /\ to'[k] = to[k]
  BY <1>1, <1>2
<1>8. /\ ppc' = ppc /\ cur' = cur /\ fsms' = fsms /\ fsmState' = fsmState
      /\ fsmCloseCh' = fsmCloseCh /\ inHoldDown' = inHoldDown
      /\ delayTimer' = delayTimer
  BY <1>2 DEF peerVars
<1>9. Handling'
  <2>1. ppc \in {"send", "preempt", "collide", "passed"} =>
          pc'[cur] = pc[cur] /\ to'[cur] = to[cur]
    BY <1>7 DEF IInv, Inv, TypeOK, Handling
  <2>2. ppc \in {"passed", "lost"} => pc'[in] = pc[in] /\ to'[in] = to[in]
    BY <1>7, DirsFacts DEF IInv, Inv, Handling
  <2> QED
    BY <1>8, <2>1, <2>2 DEF IInv, Inv, Handling
<1>10. HoldDown' /\ Somebody'
  BY <1>8, Zenon DEF IInv, Inv, HoldDown, Somebody
<1> QED
  BY <1>1, <1>2, <1>3, <1>4, <1>5, <1>6, <1>9, <1>10 DEF Inv

\* A step of peer.run keeps the invariant.
LEMMA PeerInv == ASSUME IInv, TypeOK', PeerStep PROVE Inv'
<1> USE PeerAssumption, IDAssumption DEF IInv, Inv, TypeOK, FlagsOK, Dirs, out, in, other,
      peerVars, fsmVars, callerVars, States, disabledState, idleState, connectState,
      activeState, openSentState, openConfirmState, establishedState
<1>1. ASSUME NEW i \in Dirs, recvTransition(i) PROVE Inv'
  <2> USE <1>1 DEF recvTransition, take, handleStateTransition, Branch, stop
  <2>1. \A j \in Dirs : Liveliness(j)' /\ Control(j)'
    BY DEF Liveliness, Victim, Control, Edge, StateFunction, Handling
  <2>2. \A j \in Dirs : Stage(j)'
    BY DEF Stage, Liveliness, Control, Edge, StateFunction
  <2>3. (\A j \in Dirs : Exclusive(j)') /\ OnePastCollision'
    BY DEF Exclusive, OnePastCollision, InSession, Control, Liveliness, Handling,
           StateFunction, HoldDown
  <2>4. Handling'
    BY DEF Handling, Liveliness, Victim, Control, Edge, StateFunction
  <2>5. HoldDown' /\ Somebody'
    BY DEF HoldDown, Somebody, Handling, Liveliness
  <2> QED
    BY ONLY <2>1, <2>2, <2>3, <2>4, <2>5 DEF Inv
<1>2. ASSUME NEW i \in Dirs, handleError(i) PROVE Inv'
  <2> USE <1>2 DEF handleError, report, stop
  <2>1. \A j \in Dirs : Liveliness(j)' /\ Control(j)'
    BY DEF Liveliness, Victim, Control, Edge, StateFunction, Handling
  <2>2. \A j \in Dirs : Stage(j)'
    BY DEF Stage, Liveliness, Control, Edge, StateFunction
  <2>3. (\A j \in Dirs : Exclusive(j)') /\ OnePastCollision'
    BY DEF Exclusive, OnePastCollision, InSession, Control, Liveliness, Handling,
           StateFunction, HoldDown
  <2>4. Handling'
    BY DEF Handling, Liveliness, Victim, Control, Edge, StateFunction
  <2>5. HoldDown' /\ Somebody'
    BY DEF HoldDown, Somebody, Handling, Liveliness
  <2> QED
    BY ONLY <2>1, <2>2, <2>3, <2>4, <2>5 DEF Inv
<1>3. CASE sendTransitionToFSM
  <2> USE <1>3 DEF sendTransitionToFSM, send, grant
  <2>1. \A j \in Dirs : Liveliness(j)' /\ Control(j)'
    BY DEF Liveliness, Victim, Control, Edge, StateFunction, Handling
  <2>2. \A j \in Dirs : Stage(j)'
    BY DEF Stage, Liveliness, Control, Edge, StateFunction
  <2>3. (\A j \in Dirs : Exclusive(j)') /\ OnePastCollision'
    BY DEF Exclusive, OnePastCollision, InSession, Control, Liveliness, Handling,
           StateFunction, HoldDown
  <2>4. Handling'
    BY DEF Handling, Liveliness, Victim, Control, Edge, StateFunction
  <2>5. HoldDown' /\ Somebody'
    BY DEF HoldDown, Somebody, Handling, Liveliness
  <2> QED
    BY ONLY <2>1, <2>2, <2>3, <2>4, <2>5 DEF Inv
<1>4. CASE preempt \/ yield \/ lost
  <2> USE <1>4 DEF preempt, yield, lost, disabled, stopped, fsmsWithout, fsmStateWithout
  <2>1. \A j \in Dirs : Liveliness(j)' /\ Control(j)'
    BY DEF Liveliness, Victim, Control, Edge, StateFunction, Handling
  <2>2. \A j \in Dirs : Stage(j)'
    BY DEF Stage, Liveliness, Control, Edge, StateFunction
  <2>3. (\A j \in Dirs : Exclusive(j)') /\ OnePastCollision'
    BY DEF Exclusive, OnePastCollision, InSession, Control, Liveliness, Handling,
           StateFunction, HoldDown
  <2>4. Handling'
    BY DEF Handling, Liveliness, Victim, Control, Edge, StateFunction
  <2>5. HoldDown' /\ Somebody'
    BY DEF HoldDown, Somebody, Handling, Liveliness
  <2> QED
    BY ONLY <2>1, <2>2, <2>3, <2>4, <2>5 DEF Inv
<1>5. CASE down
  <2> USE <1>5 DEF down, enableFSM, newFSM, stopped, fsmsWithout, fsmStateWithout
  <2>1. \A j \in Dirs : Liveliness(j)' /\ Control(j)'
    BY DEF Liveliness, Victim, Control, Edge, StateFunction, Handling
  <2>2. \A j \in Dirs : Stage(j)'
    BY DEF Stage, Liveliness, Control, Edge, StateFunction
  <2>3. (\A j \in Dirs : Exclusive(j)') /\ OnePastCollision'
    BY DEF Exclusive, OnePastCollision, InSession, Control, Liveliness, Handling,
           StateFunction, HoldDown
  <2>4. Handling'
    BY DEF Handling, Liveliness, Victim, Control, Edge, StateFunction
  <2>5. HoldDown' /\ Somebody'
    BY DEF HoldDown, Somebody, Handling, Liveliness
  <2> QED
    BY ONLY <2>1, <2>2, <2>3, <2>4, <2>5 DEF Inv
<1>6. CASE collide
  <2> USE <1>6 DEF collide, take, runClose, openConfirmClose, Fail, Return, Fire, stop
  <2>1. \A j \in Dirs : Liveliness(j)' /\ Control(j)'
    BY DEF Liveliness, Victim, Control, Edge, StateFunction, Handling
  <2>2. \A j \in Dirs : Stage(j)'
    BY DEF Stage, Liveliness, Control, Edge, StateFunction
  <2>3. (\A j \in Dirs : Exclusive(j)') /\ OnePastCollision'
    BY DEF Exclusive, OnePastCollision, InSession, Control, Liveliness, Handling,
           StateFunction, HoldDown
  <2>4. Handling'
    BY DEF Handling, Liveliness, Victim, Control, Edge, StateFunction
  <2>5. HoldDown' /\ Somebody'
    BY DEF HoldDown, Somebody, Handling, Liveliness
  <2> QED
    BY ONLY <2>1, <2>2, <2>3, <2>4, <2>5 DEF Inv
<1>7. CASE passed
  <2> USE <1>7 DEF passed, send, grant, handleStateTransition, Branch, stop
  <2>1. \A j \in Dirs : Liveliness(j)' /\ Control(j)'
    BY DEF Liveliness, Victim, Control, Edge, StateFunction, Handling
  <2>2. \A j \in Dirs : Stage(j)'
    BY DEF Stage, Liveliness, Control, Edge, StateFunction
  <2>3. (\A j \in Dirs : Exclusive(j)') /\ OnePastCollision'
    BY DEF Exclusive, OnePastCollision, InSession, Control, Liveliness, Handling,
           StateFunction, HoldDown
  <2>4. Handling'
    BY DEF Handling, Liveliness, Victim, Control, Edge, StateFunction
  <2>5. HoldDown' /\ Somebody'
    BY DEF HoldDown, Somebody, Handling, Liveliness
  <2> QED
    BY ONLY <2>1, <2>2, <2>3, <2>4, <2>5 DEF Inv
<1>8. CASE dampIn \/ dampOut
  <2> USE <1>8 DEF dampIn, dampOut, stop, stopped, fsmsWithout, fsmStateWithout
  <2>1. \A j \in Dirs : Liveliness(j)' /\ Control(j)'
    BY DEF Liveliness, Victim, Control, Edge, StateFunction, Handling
  <2>2. \A j \in Dirs : Stage(j)'
    BY DEF Stage, Liveliness, Control, Edge, StateFunction
  <2>3. (\A j \in Dirs : Exclusive(j)') /\ OnePastCollision'
    BY DEF Exclusive, OnePastCollision, InSession, Control, Liveliness, Handling,
           StateFunction, HoldDown
  <2>4. Handling'
    BY DEF Handling, Liveliness, Victim, Control, Edge, StateFunction
  <2>5. HoldDown' /\ Somebody'
    BY DEF HoldDown, Somebody, Handling, Liveliness
  <2> QED
    BY ONLY <2>1, <2>2, <2>3, <2>4, <2>5 DEF Inv
<1>9. CASE delayExpired
  <2> USE <1>9 DEF delayExpired, enableFSM, newFSM
  <2>1. \A j \in Dirs : Liveliness(j)' /\ Control(j)'
    BY DEF Liveliness, Victim, Control, Edge, StateFunction, Handling
  <2>2. \A j \in Dirs : Stage(j)'
    BY DEF Stage, Liveliness, Control, Edge, StateFunction
  <2>3. (\A j \in Dirs : Exclusive(j)') /\ OnePastCollision'
    BY DEF Exclusive, OnePastCollision, InSession, Control, Liveliness, Handling,
           StateFunction, HoldDown
  <2>4. Handling'
    BY DEF Handling, Liveliness, Victim, Control, Edge, StateFunction
  <2>5. HoldDown' /\ Somebody'
    BY DEF HoldDown, Somebody, Handling, Liveliness
  <2> QED
    BY ONLY <2>1, <2>2, <2>3, <2>4, <2>5 DEF Inv
<1>10. CASE exit \/ exitOut \/ exitIn
  <2> USE <1>10 DEF exit, exitOut, exitIn, stop, stopped, fsmsWithout, fsmStateWithout
  <2>1. \A j \in Dirs : Liveliness(j)' /\ Control(j)'
    BY DEF Liveliness, Victim, Control, Edge, StateFunction, Handling
  <2>2. \A j \in Dirs : Stage(j)'
    BY DEF Stage, Liveliness, Control, Edge, StateFunction
  <2>3. (\A j \in Dirs : Exclusive(j)') /\ OnePastCollision'
    BY DEF Exclusive, OnePastCollision, InSession, Control, Liveliness, Handling,
           StateFunction, HoldDown
  <2>4. Handling'
    BY DEF Handling, Liveliness, Victim, Control, Edge, StateFunction
  <2>5. HoldDown' /\ Somebody'
    BY DEF HoldDown, Somebody, Handling, Liveliness
  <2> QED
    BY ONLY <2>1, <2>2, <2>3, <2>4, <2>5 DEF Inv
<1>11. CASE recvConn
  <2> USE <1>11 DEF recvConn, enableFSM, newFSM
  <2>1. \A j \in Dirs : Liveliness(j)' /\ Control(j)'
    BY DEF Liveliness, Victim, Control, Edge, StateFunction, Handling
  <2>2. \A j \in Dirs : Stage(j)'
    BY DEF Stage, Liveliness, Control, Edge, StateFunction
  <2>3. (\A j \in Dirs : Exclusive(j)') /\ OnePastCollision'
    BY DEF Exclusive, OnePastCollision, InSession, Control, Liveliness, Handling,
           StateFunction, HoldDown
  <2>4. Handling'
    BY DEF Handling, Liveliness, Victim, Control, Edge, StateFunction
  <2>5. HoldDown' /\ Somebody'
    BY DEF HoldDown, Somebody, Handling, Liveliness
  <2> QED
    BY ONLY <2>1, <2>2, <2>3, <2>4, <2>5 DEF Inv
<1> QED
  BY ONLY PeerStep, <1>1, <1>2, <1>3, <1>4, <1>5, <1>6, <1>7, <1>8, <1>9, <1>10, <1>11 DEF PeerStep

\* What the callers of a peer do, and stuttering, does not touch the invariant.
LEMMA CallerInv ==
  ASSUME IInv, incomingConnection \/ refuseConn \/ stopPeer \/ UNCHANGED vars
  PROVE  Inv'
<1>1. UNCHANGED <<peerVars, fsmVars, fsmCloseCh>>
  BY DEF incomingConnection, refuseConn, stopPeer, vars
<1> QED
  BY <1>1 DEF IInv, Inv, Liveliness, Victim, Control, Stage, Exclusive, Handling,
              HoldDown, Somebody, OnePastCollision, peerVars, fsmVars

\* A new peer, with its outgoing FSM started unless it is passive, satisfies it.
LEMMA InvInit == Init => Inv
  BY PeerAssumption DEF Init, Inv, Liveliness, Control, Edge, Stage, Exclusive,
     Handling, HoldDown, Somebody, OnePastCollision, InSession, Dirs, out, in, other,
     disabledState, idleState, openSentState, openConfirmState, establishedState

\* Every step of the peer, of its FSMs and of its callers keeps IInv.
LEMMA InvStep == ASSUME IInv, [Next]_vars PROVE IInv'
<1>1. TypeOK'
  BY TypeStep DEF IInv
<1>2. CASE \E i \in Dirs : FSMStep(i)
  BY <1>1, <1>2, FSMInv DEF IInv
<1>3. CASE PeerStep
  BY <1>1, <1>3, PeerInv DEF IInv
<1>4. CASE incomingConnection \/ refuseConn \/ stopPeer \/ UNCHANGED vars
  BY <1>1, <1>4, CallerInv DEF IInv
<1> QED
  BY <1>2, <1>3, <1>4 DEF Next

\* The inductive invariant holds of every behaviour of a peer.
THEOREM Invariant == Spec => []IInv
<1>1. Init => IInv
  BY TypeInit, InvInit DEF IInv
<1>2. IInv /\ [Next]_vars => IInv'
  BY InvStep
<1> QED
  BY <1>1, <1>2, PTL DEF Spec
-----------------------------------------------------------------------------
(* The safety properties of Peer.                                          *)

\* Sessions of one peer never overlap: while one FSM is in established, the
\* peer has no other (peer.go:129-132, 272-280).
THEOREM Exclusion == Spec => []SessionExclusive
<1>1. IInv => SessionExclusive
  BY DirsFacts DEF IInv, Inv, Exclusive, Liveliness, SessionExclusive
<1> QED
  BY <1>1, Invariant, PTL

\* At most one of the two connections is past OpenSent (peer.go:137-194).
THEOREM Collision == Spec => []OnePastCollision
<1>1. IInv => OnePastCollision
  BY DEF IInv, Inv
<1> QED
  BY <1>1, Invariant, PTL

\* A peer in hold-down is silent and has the end of it scheduled
\* (peer.go:208-220, 255-259).
THEOREM Quiet == Spec => []HoldDownQuiet
<1>1. IInv => HoldDownQuiet
  BY DEF IInv, Inv, HoldDown, Liveliness, HoldDownQuiet, TypeOK, Dirs, in, out
<1> QED
  BY <1>1, Invariant, PTL

\* peer.run never comes back to its select with a dead FSM or, unless passive
\* or in hold-down, with none (peer.go:127-220).
THEOREM Alive == Spec => []NeverDark
<1>1. IInv => NeverDark
  BY DEF IInv, Inv, Liveliness, Victim, Somebody, NeverDark, TypeOK
<1> QED
  BY <1>1, Invariant, PTL

\* p.fsmState is never more than one transition behind (peer.go:106-114).
THEOREM View == Spec => []ViewLagsOneStep
<1>1. IInv => ViewLagsOneStep
  BY DEF IInv, Inv, Liveliness, Control, ViewLagsOneStep, TypeOK
<1> QED
  BY <1>1, Invariant, PTL

\* A running FSM is the registered one (peer.go:68-82, 96-104).
THEOREM Registration == Spec => []Registered
<1>1. IInv => Registered
  BY DEF IInv, Inv, Liveliness, Registered
<1> QED
  BY <1>1, Invariant, PTL
-----------------------------------------------------------------------------
(* Peer implements Plugin.                                                 *)

\* The stage an FSM fires next, as Plugin allows it.
MayFire(i, stage) ==
  CASE stage = "none" -> TRUE
    [] stage = "caps" -> plugin[i] # "up"
    [] stage = "open" -> plugin[i] = "caps"
    [] stage = "up" -> plugin[i] = "open"

\* A running FSM that fires a stage in order takes a step of Plugin: no other
\* FSM has a session, and stop has not returned.
LEMMA FireInOrder ==
  ASSUME IInv, NEW i \in Dirs, NEW stage \in {"none", "caps", "open", "up"},
         pc[i] # "off", MayFire(i, stage), Fire(i, stage),
         ppc' # "done"
  PROVE  [PluginContract!Next]_(PluginContract!vars)
<1>1. ppc # "done" /\ i \in fsms
  BY DEF IInv, Inv, Liveliness, Handling, Dirs, in, out
<1>2. plugin[i] # "up" => \A j \in Dirs : plugin[j] # "up"
  BY <1>1, DirsFacts DEF IInv, Inv, Stage, Exclusive, InSession
<1>3. plugin[i] \in {"none", "caps", "open", "up"}
  BY DEF IInv, TypeOK
<1>4. plugin' = [plugin EXCEPT ![i] = stage]
  BY DEF Fire
<1>5. CASE plugin[i] = stage
  <2>1. plugin' = plugin
    BY <1>4, <1>5 DEF IInv, TypeOK
  <2> QED
    BY <1>1, <2>1 DEF PluginContract!vars
<1>6. CASE plugin[i] # stage
  BY <1>1, <1>2, <1>3, <1>4, <1>6
     DEF MayFire, PluginContract!Next, PluginContract!GetCapabilities,
         PluginContract!OnOpenMessage, PluginContract!OnEstablished,
         PluginContract!OnClose, PluginContract!Drop, PluginContract!Fire,
         PluginContract!NoSession
<1> QED
  BY <1>5, <1>6

\* A step that fires nothing and does not make stop return is not seen.
LEMMA Unseen ==
  ASSUME UNCHANGED plugin, ppc' = "done" <=> ppc = "done"
  PROVE  [PluginContract!Next]_(PluginContract!vars)
  BY DEF PluginContract!vars

\* The callbacks an FSM fires while it steps are in order (fsm.go:281-302,
\* 606-652, 840, 952).
LEMMA FSMFires ==
  ASSUME IInv, NEW i \in Dirs, FSMStep(i)
  PROVE  [PluginContract!Next]_(PluginContract!vars)
<1>1. ppc' = ppc
  BY DEF FSMStep, step, run, idle, connect, active, openSent, openConfirm, OnEstablished,
         established, OnClose, peerVars
<1>2. pc[i] # "off"
  BY DEF FSMStep, step, run, runClose, idle, connect, active, openSent, openConfirm,
         openConfirmClose, OnEstablished, established, OnClose
<1>3. Stage(i) /\ i \in fsms /\ ppc # "done"
  BY <1>2 DEF IInv, Inv, Liveliness, Handling, Dirs, in, out
<1>4. \/ UNCHANGED plugin
      \/ \E stage \in {"none", "caps", "open", "up"} :
           MayFire(i, stage) /\ Fire(i, stage)
  <2>1. CASE run(i) \/ idle(i) \/ openConfirm(i) \/ established(i) \/ OnClose(i)
    BY <2>1 DEF run, runClose, idle, openConfirm, openConfirmClose, established,
                OnClose, MayFire
  <2>2. CASE connect(i) \/ active(i)
    BY <2>2, <1>3 DEF connect, active, sendOpenAndSetHoldTimer, MayFire, Stage
  <2>3. CASE openSent(i)
    BY <2>3, <1>3 DEF openSent, openMessage, MayFire, Stage
  <2>4. CASE OnEstablished(i)
    BY <2>4, <1>3 DEF OnEstablished, MayFire, Stage
  <2> QED
    BY <2>1, <2>2, <2>3, <2>4 DEF FSMStep, step
<1> QED
  BY <1>1, <1>2, <1>3, <1>4, FireInOrder, Unseen

\* peer.run fires no callback itself; it makes a colliding FSM drop its
\* connection, and stop returns when both FSMs are gone (peer.go:162-187,
\* 248-253).
LEMMA PeerFires ==
  ASSUME IInv, PeerStep
  PROVE  [PluginContract!Next]_(PluginContract!vars)
<1>1. CASE collide /\ UNCHANGED plugin
  BY <1>1, Unseen DEF collide
<1>2. CASE collide /\ ~UNCHANGED plugin
  <2> DEFINE j == other(cur)
  <2>1. j \in Dirs /\ pc[j] # "off" /\ Fire(j, "none") /\ ppc' = "preempt"
    BY <1>2, DirsFacts DEF collide, runClose, openConfirmClose, take, fsmVars,
       IInv, TypeOK
  <2> QED
    BY <2>1, FireInOrder DEF MayFire
<1>3. CASE exitIn
  <2>1. ppc # "done" /\ ppc' = "done" /\ UNCHANGED plugin
    BY <1>3 DEF exitIn, fsmVars
  <2>2. \A i \in Dirs : plugin[i] # "up"
    BY <1>3 DEF exitIn, stopped, IInv, Inv, Liveliness, Handling, Stage, Dirs, in, out
  <2> QED
    BY <2>1, <2>2
       DEF PluginContract!Next, PluginContract!Return, PluginContract!NoSession
<1>4. CASE PeerStep /\ ~collide /\ ~exitIn
  <2>1. UNCHANGED plugin
    BY <1>4 DEF PeerStep, recvTransition, take, handleError, report, sendTransitionToFSM, send, grant,
       preempt, yield, lost, disabled, down, enableFSM, newFSM, passed, dampIn,
       dampOut, delayExpired, exit, exitOut, recvConn, fsmVars
  <2>2. ppc # "done" /\ ppc' # "done"
    BY <1>4, BranchTyped DEF PeerStep, recvTransition, take, handleError, report,
       handleStateTransition, sendTransitionToFSM, preempt, yield, lost, disabled,
       down, passed, dampIn, dampOut, delayExpired, exit, exitOut, recvConn, Dirs,
       IInv, TypeOK, other
  <2> QED
    BY <2>1, <2>2, Unseen
<1> QED
  BY <1>1, <1>2, <1>3, <1>4

\* Whatever the network, the plugin and the callers do, the callbacks of a peer
\* come in the order that Plugin promises.
THEOREM Implements == Spec => PluginOrder
<1>1. Init => PluginContract!Init
  BY DEF Init, PluginContract!Init
<1>2. IInv /\ [Next]_vars => [PluginContract!Next]_(PluginContract!vars)
  <2> SUFFICES ASSUME IInv, [Next]_vars
               PROVE  [PluginContract!Next]_(PluginContract!vars)
    OBVIOUS
  <2>1. CASE \E i \in Dirs : FSMStep(i)
    BY <2>1, FSMFires
  <2>2. CASE PeerStep
    BY <2>2, PeerFires
  <2>3. CASE incomingConnection \/ refuseConn \/ stopPeer \/ UNCHANGED vars
    BY <2>3, Unseen DEF incomingConnection, refuseConn, stopPeer, vars, peerVars,
                        fsmVars
  <2> QED
    BY <2>1, <2>2, <2>3 DEF Next
<1> QED
  BY <1>1, <1>2, Invariant, PTL DEF Spec, PluginOrder, PluginContract!Spec
=============================================================================
