-------------------------------- MODULE Peer --------------------------------
(***************************************************************************)
(* One peer (peer.go) and the goroutines of its two FSMs (module FSM).     *)
(*                                                                         *)
(* Three goroutines run here: peer.run, at ppc, and for each direction i   *)
(* the run loop of an fsm, at pc[i].  They meet only on unbuffered         *)
(* channels, so a send and the receive it pairs with are one step; every   *)
(* other step ends where a goroutine blocks next.                          *)
(*                                                                         *)
(* The negotiated hold time is taken to be non-zero.                       *)
(***************************************************************************)
EXTENDS FSM

CONSTANT Passive   \* the peer option of that name

ASSUME PeerAssumption == Passive \in BOOLEAN

VARIABLES
  ppc,          \* where peer.run blocks
  cur,          \* the direction i of the transition peer.run is handling
  fsms,         \* the directions i whose p.fsms[i] is not nil
  fsmState,     \* p.fsmState
  inHoldDown,   \* p.inHoldDown
  delayTimer,   \* p.startupDelayTimer runs, or has fired and was not received
  peerCloseCh,  \* p.closeCh is closed
  inConn        \* a goroutine offers a connection on p.inConnCh

peerVars == <<ppc, cur, fsms, fsmState, inHoldDown, delayTimer>>
callerVars == <<peerCloseCh, inConn>>
vars == <<peerVars, callerVars, fsmVars, fsmCloseCh>>

PeerPC == {"run", "send", "preempt", "down", "yield", "collide", "lost",
           "passed", "dampIn", "dampOut", "exitOut", "exitIn", "done"}

FlagsOK ==
  /\ inHoldDown \in BOOLEAN /\ delayTimer \in BOOLEAN
  /\ peerCloseCh \in BOOLEAN /\ inConn \in BOOLEAN

TypeOK ==
  /\ ppc \in PeerPC /\ cur \in Dirs
  /\ fsms \in SUBSET Dirs /\ fsmState \in [Dirs -> States]
  /\ pc \in [Dirs -> FSMPC] /\ from \in [Dirs -> States]
  /\ to \in [Dirs -> States] /\ err \in [Dirs -> Errors]
  /\ fsmCloseCh \in SUBSET Dirs /\ remoteID \in [Dirs -> Nat]
  /\ plugin \in [Dirs -> {"none", "caps", "open", "up"}]
  /\ FlagsOK

\* newPeer followed by start: unless passive, the outgoing FSM is started.
Init ==
  /\ ppc = "run" /\ cur = out
  /\ fsms = IF Passive THEN {} ELSE {out}
  /\ fsmState = [i \in Dirs |-> disabledState]
  /\ inHoldDown = FALSE /\ delayTimer = FALSE
  /\ peerCloseCh = FALSE /\ inConn = FALSE
  /\ pc = [i \in Dirs |-> IF i \in fsms THEN "offer" ELSE "off"]
  /\ from = [i \in Dirs |-> disabledState]
  /\ to = [i \in Dirs |-> IF i = out THEN idleState ELSE disabledState]
  /\ err = [i \in Dirs |-> "nil"]
  /\ fsmCloseCh = {}
  /\ remoteID = [i \in Dirs |-> 0]
  /\ plugin = [i \in Dirs |-> "none"]
-----------------------------------------------------------------------------
(* peer.run (peer.go).                                                     *)

\* disableFSM(i) is two steps: it closes closeCh, then waits for doneCh and
\* forgets the FSM.
stop(i) == fsmCloseCh' = fsmCloseCh \cup ({i} \cap fsms)

\* Mutant of stopped: stop does not wait for doneCh.
stoppedAtOnce(i) == i \in Dirs

stopped(i) == i \in fsms => pc[i] = "off"
fsmsWithout(i) == fsms \ {i}

\* Mutant of fsmStateWithout: the state of the FSM is not forgotten.
fsmStateKept(i) == IF i \in Dirs THEN fsmState ELSE fsmState

fsmStateWithout(i) ==
  [fsmState EXCEPT ![i] = IF i \in fsms THEN disabledState ELSE @]

\* f and s are fsms and fsmState as the statements before the call left them.
enableFSM(i, f, s) ==
  IF (i = out /\ Passive) \/ i \in f
  THEN fsms' = f /\ fsmState' = s /\ UNCHANGED <<fsmVars, fsmCloseCh>>
  ELSE /\ fsms' = f \cup {i}
       /\ fsmState' = [s EXCEPT ![i] = disabledState]
       /\ newFSM(i)

dominant(i) ==
  \/ LocalID > remoteID[i]
  \/ LocalID = remoteID[i] /\ LocalAS > RemoteAS

\* Mutants of Branch: the other FSM is not disabled when one establishes; two
\* connections in OpenConfirm are no collision.
BranchNoPreempt(i) ==
  IF to[i] = establishedState THEN "send"
  ELSE IF i = in /\ to[i] < from[i] THEN "down"
  ELSE IF to[i] # openConfirmState THEN "send"
  ELSE IF fsmState[other(i)] = establishedState THEN "yield"
  ELSE IF fsmState[other(i)] # openConfirmState THEN "send"
  ELSE IF dominant(i) /\ i = out THEN "collide" ELSE "yield"

BranchNoCollision(i) ==
  IF to[i] = establishedState THEN "preempt"
  ELSE IF i = in /\ to[i] < from[i] THEN "down"
  ELSE IF to[i] # openConfirmState THEN "send"
  ELSE IF fsmState[other(i)] = establishedState THEN "yield"
  ELSE "send"

\* The branch of handleStateTransition(i, t) that is taken, named after what
\* the peer does next.
Branch(i) ==
  IF to[i] = establishedState THEN "preempt"
  ELSE IF i = in /\ to[i] < from[i] THEN "down"
  ELSE IF to[i] # openConfirmState THEN "send"
  ELSE IF fsmState[other(i)] = establishedState THEN "yield"
  ELSE IF fsmState[other(i)] # openConfirmState THEN "send"
  ELSE IF dominant(i) /\ i = out THEN "collide" ELSE "yield"

\* ... up to where it blocks: "preempt" waits for the other FSM to stop,
\* "down" and "yield" for this one.
handleStateTransition(i) ==
  /\ cur' = i
  /\ ppc' = Branch(i)
  /\ CASE Branch(i) = "preempt" -> stop(other(i))
       [] Branch(i) \in {"down", "yield"} -> stop(i)
       [] OTHER -> UNCHANGED fsmCloseCh

recvTransition(i) ==
  /\ ppc = "run" /\ take(i)
  /\ handleStateTransition(i)
  /\ UNCHANGED <<fsms, fsmState, inHoldDown, delayTimer, callerVars>>

\* The transition comes back to the FSM; the peer notes its new state.
send(i) == grant(i) /\ fsmState' = [fsmState EXCEPT ![i] = to[i]]

sendTransitionToFSM ==
  /\ ppc = "send" /\ ppc' = "run"
  /\ \/ peerCloseCh /\ UNCHANGED <<fsmState, fsmVars>>
     \/ send(cur)
  /\ UNCHANGED <<cur, fsms, inHoldDown, delayTimer, fsmCloseCh, callerVars>>

\* A wait in disableFSM(i) that ends, where nothing else happens to the FSMs.
disabled(i, l) ==
  /\ stopped(i)
  /\ fsms' = fsmsWithout(i) /\ fsmState' = fsmStateWithout(i)
  /\ ppc' = l
  /\ UNCHANGED <<inHoldDown, delayTimer, fsmVars, fsmCloseCh, callerVars>>

preempt == ppc = "preempt" /\ disabled(other(cur), "send") /\ UNCHANGED cur

yield == ppc = "yield" /\ disabled(cur, "run") /\ UNCHANGED cur

\* Mutant of down: the outgoing FSM is not enabled again.
downOnly == ppc = "down" /\ disabled(in, "run") /\ UNCHANGED cur

\* The incoming FSM went down: the outgoing one is enabled.
down ==
  /\ ppc = "down" /\ ppc' = "run"
  /\ stopped(in)
  /\ enableFSM(out, fsmsWithout(in), fsmStateWithout(in))
  /\ UNCHANGED <<cur, inHoldDown, delayTimer, callerVars>>

\* The select that tries to disable the other FSM; cur is out.  The empty
\* struct sent on its closeCh is received where that FSM selects; disableFSM
\* then closes the channel.
collide ==
  /\ ppc = "collide"
  /\ \/ /\ peerCloseCh /\ ppc' = "run"
        /\ UNCHANGED <<fsmVars, fsmCloseCh>>
     \/ /\ runClose(other(cur)) \/ openConfirmClose(other(cur))
        /\ stop(other(cur)) /\ ppc' = "preempt"
     \/ /\ take(other(cur))
        /\ IF to[other(cur)] = establishedState
           THEN stop(cur) /\ ppc' = "lost"
           ELSE UNCHANGED fsmCloseCh /\ ppc' = "passed"
  /\ UNCHANGED <<cur, fsms, fsmState, inHoldDown, delayTimer, callerVars>>

\* The other FSM asked for established first: this one is disabled, and the
\* transition of the other one is handled, whose other is nil by now.
lost ==
  /\ ppc = "lost"
  /\ disabled(cur, "preempt")
  /\ cur' = other(cur)

\* The other FSM went down first: this one passes, then the transition of the
\* other one is handled.
passed ==
  /\ ppc = "passed"
  /\ \/ peerCloseCh /\ UNCHANGED <<fsmState, fsmVars>>
     \/ send(cur)
  /\ handleStateTransition(other(cur))
  /\ UNCHANGED <<fsms, inHoldDown, delayTimer, callerVars>>

\* handleError: only a notification other than Cease damps the peer, which
\* disables both FSMs before the startup delay begins.
handleError(i) ==
  /\ ppc = "run" /\ report(i)
  /\ IF dampPeer(err[i]) THEN stop(in) /\ ppc' = "dampIn"
                         ELSE UNCHANGED <<fsmCloseCh, ppc>>
  /\ UNCHANGED <<cur, fsms, fsmState, inHoldDown, delayTimer, callerVars>>

dampIn ==
  /\ ppc = "dampIn" /\ ppc' = "dampOut"
  /\ stopped(in)
  /\ fsms' = fsmsWithout(in) /\ fsmState' = fsmStateWithout(in)
  /\ stop(out)
  /\ UNCHANGED <<cur, inHoldDown, delayTimer, fsmVars, callerVars>>

\* Mutant of dampOut: the startup delay is not armed.
dampOutUnarmed ==
  /\ ppc = "dampOut" /\ ppc' = "run"
  /\ stopped(out)
  /\ fsms' = fsmsWithout(out) /\ fsmState' = fsmStateWithout(out)
  /\ inHoldDown' = TRUE
  /\ UNCHANGED <<cur, delayTimer, fsmVars, fsmCloseCh, callerVars>>

dampOut ==
  /\ ppc = "dampOut" /\ ppc' = "run"
  /\ stopped(out)
  /\ fsms' = fsmsWithout(out) /\ fsmState' = fsmStateWithout(out)
  /\ delayTimer' = TRUE /\ inHoldDown' = TRUE
  /\ UNCHANGED <<cur, fsmVars, fsmCloseCh, callerVars>>

delayExpired ==
  /\ ppc = "run" /\ delayTimer
  /\ delayTimer' = FALSE /\ inHoldDown' = FALSE
  /\ enableFSM(out, fsms, fsmState)
  /\ UNCHANGED <<ppc, cur, callerVars>>

exit ==
  /\ ppc = "run" /\ peerCloseCh
  /\ stop(out) /\ ppc' = "exitOut"
  /\ UNCHANGED <<cur, fsms, fsmState, inHoldDown, delayTimer, fsmVars, callerVars>>

exitOut ==
  /\ ppc = "exitOut" /\ ppc' = "exitIn"
  /\ stopped(out)
  /\ fsms' = fsmsWithout(out) /\ fsmState' = fsmStateWithout(out)
  /\ stop(in)
  /\ UNCHANGED <<cur, inHoldDown, delayTimer, fsmVars, callerVars>>

exitIn ==
  /\ ppc = "exitIn" /\ ppc' = "done"
  /\ stopped(in)
  /\ fsms' = fsmsWithout(in) /\ fsmState' = fsmStateWithout(in)
  /\ delayTimer' = FALSE
  /\ UNCHANGED <<cur, inHoldDown, fsmVars, fsmCloseCh, callerVars>>

\* Mutant of recvConn: hold-down is not looked at.
recvConnHeldDown ==
  /\ ppc = "run" /\ inConn
  /\ inConn' = FALSE
  /\ IF in \in fsms \/ fsmState[out] = establishedState
     THEN UNCHANGED <<fsms, fsmState, fsmVars, fsmCloseCh>>
     ELSE enableFSM(in, fsms, fsmState)
  /\ UNCHANGED <<ppc, cur, inHoldDown, delayTimer, peerCloseCh>>

\* A connection taken from inConnCh is closed, or handed to a new FSM.
recvConn ==
  /\ ppc = "run" /\ inConn
  /\ inConn' = FALSE
  /\ IF inHoldDown \/ in \in fsms \/ fsmState[out] = establishedState
     THEN UNCHANGED <<fsms, fsmState, fsmVars, fsmCloseCh>>
     ELSE enableFSM(in, fsms, fsmState)
  /\ UNCHANGED <<ppc, cur, inHoldDown, delayTimer, peerCloseCh>>

PeerStep ==
  \/ \E i \in Dirs : recvTransition(i) \/ handleError(i)
  \/ sendTransitionToFSM
  \/ preempt
  \/ down
  \/ yield
  \/ collide
  \/ lost
  \/ passed
  \/ dampIn
  \/ dampOut
  \/ delayExpired
  \/ exit
  \/ exitOut
  \/ exitIn
  \/ recvConn

-----------------------------------------------------------------------------
(* The callers of the peer: the server's listener and whoever stops it.    *)

incomingConnection ==
  /\ ~inConn /\ inConn' = TRUE
  /\ UNCHANGED <<peerVars, peerCloseCh, fsmVars, fsmCloseCh>>

\* Mutant of refuseConn: the peer's closeCh is seen only while peer.run runs.
refuseConnRunning ==
  /\ inConn /\ peerCloseCh /\ ppc # "done" /\ inConn' = FALSE
  /\ UNCHANGED <<peerVars, peerCloseCh, fsmVars, fsmCloseCh>>

\* incomingConnection closes the connection of a peer that was stopped.
refuseConn ==
  /\ inConn /\ peerCloseCh /\ inConn' = FALSE
  /\ UNCHANGED <<peerVars, peerCloseCh, fsmVars, fsmCloseCh>>

stopPeer ==
  /\ ~peerCloseCh /\ peerCloseCh' = TRUE
  /\ UNCHANGED <<peerVars, inConn, fsmVars, fsmCloseCh>>

FSMStep(i) == step(i) /\ UNCHANGED <<peerVars, callerVars>>

Next ==
  \/ \E i \in Dirs : FSMStep(i)
  \/ PeerStep
  \/ incomingConnection
  \/ refuseConn
  \/ stopPeer

Spec == Init /\ [][Next]_vars

(* Every goroutine that can step does, with two exceptions: a dial may be  *)
(* retried for ever, and an established session may last.  Every other     *)
(* state function is left at the latest when one of its timers fires.  Go  *)
(* picks at random among the ready cases of a select, so a case of         *)
(* peer.run's that is ready again and again is taken.                      *)
FSMFairness(i) ==
  /\ WF_vars(FSMStep(i) /\ pc[i] \notin {"connect", "established"})
  /\ WF_vars(FSMStep(i) /\ i \in fsmCloseCh)

SelectFairness ==
  /\ SF_vars(recvConn)
  /\ SF_vars(exit)
  /\ SF_vars(delayExpired)
  /\ \A i \in Dirs : /\ SF_vars(recvTransition(i))
                     /\ SF_vars(handleError(i))

Fairness ==
  /\ \A i \in Dirs : FSMFairness(i)
  /\ WF_vars(PeerStep)
  /\ SelectFairness
  /\ WF_vars(refuseConn)

FairSpec == Spec /\ Fairness

-----------------------------------------------------------------------------
(* Properties.                                                             *)

\* The control points of fsm.established, between which the session lives.
InSession == {"opening", "established", "closing"}

\* While one FSM runs fsm.established - OnEstablished, the session, OnClose -
\* the peer has no other FSM, so that sessions of one peer never overlap and
\* no callback of another connection comes between (peer.go:129-132, 279-282).
SessionExclusive ==
  \A i \in Dirs : pc[i] \in InSession =>
                    /\ pc[other(i)] = "off"
                    /\ other(i) \notin fsms

\* Connection collision (RFC 4271 6.8): at most one of the two connections is
\* ever past OpenSent (peer.go:137-194).
OnePastCollision ==
  \A i \in Dirs : pc[i] \in InSession \cup {"openConfirm"} =>
                    pc[other(i)] \notin InSession \cup {"openConfirm"}

\* During hold-down (peer.go:208-220, 259-263, 273-276) the peer has no FSM,
\* and the timer that ends the hold-down is armed until the peer is stopped.
HoldDownQuiet ==
  inHoldDown => /\ fsms = {} /\ \A i \in Dirs : pc[i] = "off"
                /\ delayTimer \/ ppc = "done"

\* Whenever peer.run is back at its select, every FSM it holds is alive and
\* was not told to stop, and, unless it is passive or held down, it holds
\* one: no sequence of collisions, errors and connections leaves the peer
\* without anything that would connect again (peer.go:127-220).
NeverDark ==
  ppc = "run" =>
    /\ \A i \in fsms : pc[i] # "off" /\ i \notin fsmCloseCh
    /\ Passive \/ inHoldDown \/ fsms # {}

\* The peer's view of an FSM (p.fsmState) is the state function it runs, or
\* the one it left last while the next transition is not agreed yet, and a
\* view other than disabled is of an FSM that exists: collision handling
\* reads the view of the other FSM and dereferences it (peer.go:140-167).
ViewLagsOneStep ==
  \A i \in Dirs :
    /\ fsmState[i] # disabledState => i \in fsms
    /\ pc[i] \notin {"off", "offer", "await", "error", "closing"} =>
         fsmState[i] = to[i]
    /\ pc[i] \in {"offer", "await", "error", "closing"} =>
         fsmState[i] = from[i]

\* An FSM that runs is the one the peer has registered for its direction: it
\* finds its own channels by comparing itself with p.fsms, and the peer never
\* starts a second one beside it (peer.go:68-82, 96-104, 120-124).
Registered == \A i \in Dirs : pc[i] # "off" => i \in fsms

\* The callbacks come in the order that Plugin states.
PluginContract == INSTANCE Plugin WITH returned <- ppc = "done"
PluginOrder == PluginContract!Spec

\* peer.stop() returns: both FSMs exit wherever they are, whatever the peer
\* was waiting for (peer.go:247-253, 294-299).
StopReturns == peerCloseCh ~> ppc = "done"

\* A connection offered to the peer is taken or closed: the listener, which
\* holds the server's mutex meanwhile, is never blocked for good
\* (peer.go:301-308, server.go:47-69).
ConnTaken == inConn ~> ~inConn

\* Hold-down ends (peer.go:259-263).
HoldDownEnds == inHoldDown ~> (~inHoldDown \/ ppc = "done")

\* An FSM that offers a transition or reports an error is answered: it enters
\* the next state function or exits (fsm.go:129-138, 168-176).
FSMAnswered ==
  \A i \in Dirs : pc[i] \in {"offer", "await", "error"} ~>
                  pc[i] \notin {"offer", "await", "error"}

\* peer.go:155-156, "When both connections are in OpenConfirm state, one
\* initiated by the dominant router is kept": the connection that yields to
\* one in OpenConfirm was not initiated by the dominant router.
DominantKept ==
  ppc = "yield" /\ fsmState[other(cur)] = openConfirmState =>
    cur = IF dominant(cur) THEN in ELSE out
=============================================================================
