--------------------------------- MODULE FSM --------------------------------
(***************************************************************************)
(* The FSM of one connection (fsm.go) as its peer sees it: where its run   *)
(* loop blocks, the state transition it offers, and the class of error it  *)
(* reports.  A peer has up to two, one for each direction i.  What the     *)
(* network and the plugin answer is chosen freely.  Session refines it.    *)
(***************************************************************************)
EXTENDS Types

CONSTANTS LocalID, LocalAS, RemoteAS,
          RemoteIDs    \* the BGP identifiers an OPEN of the remote may carry

ASSUME IDAssumption ==
  /\ LocalID \in Nat /\ LocalAS \in Nat /\ RemoteAS \in Nat
  /\ RemoteIDs \subseteq Nat

VARIABLES
  pc,           \* pc[i]: where FSM i blocks; "off" before start and after exit
  from, to,     \* the local variable t of fsm.run
  err,          \* the error fsm.run is about to report
  fsmCloseCh,   \* the directions whose f.closeCh is closed
  remoteID,     \* f.remoteID
  plugin        \* the last plugin callback FSM i fired

fsmVars == <<pc, from, to, err, remoteID, plugin>>

FSMPC == {"off", "offer", "await", "idle", "connect", "active", "openSent",
          "openConfirm", "opening", "established", "closing", "error"}

-----------------------------------------------------------------------------
(* The run loop of FSM i and its state functions (fsm.go).                 *)

\* Mutant of Return: the states are numbered from one.
ReturnOffByOne(i, s, e, l) ==
  /\ from' = [from EXCEPT ![i] = to[i]]
  /\ to' = [to EXCEPT ![i] = s + 1]
  /\ err' = [err EXCEPT ![i] = e]
  /\ pc' = [pc EXCEPT ![i] = l]

\* A state function returns (s, e); fsm.run goes on at label l.
Return(i, s, e, l) ==
  /\ from' = [from EXCEPT ![i] = to[i]]
  /\ to' = [to EXCEPT ![i] = s]
  /\ err' = [err EXCEPT ![i] = e]
  /\ pc' = [pc EXCEPT ![i] = l]

Offer(i, s) == Return(i, s, "nil", "offer")
Fail(i, s, e) == Return(i, s, e, "error")

\* A callback, or, at stage "none", the end of the connection.
Fire(i, stage) == plugin' = [plugin EXCEPT ![i] = stage]

\* Mutant of runClose: the receive of the agreed transition has no select.
runCloseUnselected(i) ==
  /\ to' = [to EXCEPT ![i] = disabledState]
  /\ err' = [err EXCEPT ![i] = "nil"]
  /\ \/ /\ pc[i] = "offer" /\ pc' = [pc EXCEPT ![i] = "off"]
        /\ from' = [from EXCEPT ![i] = disabledState]
        /\ Fire(i, "none")
     \/ /\ pc[i] = "error" /\ pc' = [pc EXCEPT ![i] = "offer"]
        /\ UNCHANGED <<from, plugin>>
  /\ UNCHANGED remoteID

\* What a receive from closeCh does in the three selects of fsm.run: while a
\* transition is offered or awaited the FSM exits, while an error is
\* reported it first offers the transition to disabled.
runClose(i) ==
  /\ to' = [to EXCEPT ![i] = disabledState]
  /\ err' = [err EXCEPT ![i] = "nil"]
  /\ \/ /\ pc[i] \in {"offer", "await"} /\ pc' = [pc EXCEPT ![i] = "off"]
        /\ from' = [from EXCEPT ![i] = disabledState]
        /\ Fire(i, "none")
     \/ /\ pc[i] = "error" /\ pc' = [pc EXCEPT ![i] = "offer"]
        /\ UNCHANGED <<from, plugin>>
  /\ UNCHANGED remoteID

run(i) == i \in fsmCloseCh /\ runClose(i) /\ UNCHANGED fsmCloseCh

idle(i) ==
  /\ pc[i] = "idle"
  /\ \/ i \in fsmCloseCh /\ Offer(i, disabledState)
     \/ Offer(i, connectState)
  /\ Fire(i, "none")
  /\ UNCHANGED <<remoteID, fsmCloseCh>>

sendOpenAndSetHoldTimer(i) ==
  /\ Fire(i, "caps")
  /\ \E s \in {openSentState, idleState} : Offer(i, s)

\* A dial that is retried leaves the FSM where it is.
connect(i) ==
  /\ pc[i] = "connect"
  /\ \/ i \in fsmCloseCh /\ Offer(i, disabledState) /\ UNCHANGED plugin
     \/ Offer(i, idleState) /\ UNCHANGED plugin
     \/ sendOpenAndSetHoldTimer(i)
  /\ UNCHANGED <<remoteID, fsmCloseCh>>

\* Only the incoming FSM has a connection here: it is started with one, and
\* the outgoing FSM comes from openSent, which has dropped its own.
active(i) ==
  /\ pc[i] = "active"
  /\ \/ i = in /\ sendOpenAndSetHoldTimer(i)
     \/ i = out /\ i \in fsmCloseCh /\ Offer(i, disabledState) /\ UNCHANGED plugin
     \/ i = out /\ Offer(i, connectState) /\ UNCHANGED plugin
  /\ UNCHANGED <<remoteID, fsmCloseCh>>

\* The identifiers openMessage.validate lets through.
validIDs == {id \in RemoteIDs : ~(LocalAS = RemoteAS /\ id = LocalID)}

\* OnOpenMessage is fired for a valid OPEN; it, or the KEEPALIVE that is to
\* be sent, may fail.
openMessage(i) ==
  /\ \E id \in validIDs : remoteID' = [remoteID EXCEPT ![i] = id]
  /\ Fire(i, "open")
  /\ \/ Offer(i, openConfirmState)
     \/ \E e \in {"damping", "benign"} : Fail(i, idleState, e)

openSent(i) ==
  /\ pc[i] = "openSent"
  /\ \/ /\ \/ i \in fsmCloseCh /\ Fail(i, disabledState, "benign")
           \/ \E e \in {"damping", "benign"} : Fail(i, idleState, e)
           \/ Fail(i, activeState, "benign")
        /\ Fire(i, "none") /\ UNCHANGED remoteID
     \/ openMessage(i)
  /\ UNCHANGED fsmCloseCh

\* What a receive from closeCh does in openConfirm.
openConfirmClose(i) ==
  /\ pc[i] = "openConfirm"
  /\ Fail(i, disabledState, "benign") /\ Fire(i, "none")
  /\ UNCHANGED remoteID

openConfirm(i) ==
  /\ \/ i \in fsmCloseCh /\ openConfirmClose(i)
     \/ /\ pc[i] = "openConfirm"
        /\ \/ Offer(i, establishedState) /\ UNCHANGED plugin
           \/ /\ \E e \in {"damping", "benign"} : Fail(i, idleState, e)
              /\ Fire(i, "none")
        /\ UNCHANGED remoteID
  /\ UNCHANGED fsmCloseCh

\* established: the callback, the loop, and the callback after the loop.
OnEstablished(i) ==
  /\ pc[i] = "opening" /\ pc' = [pc EXCEPT ![i] = "established"]
  /\ Fire(i, "up")
  /\ UNCHANGED <<from, to, err, remoteID, fsmCloseCh>>

established(i) ==
  /\ pc[i] = "established"
  /\ \/ i \in fsmCloseCh /\ Return(i, disabledState, "benign", "closing")
     \/ \E e \in {"damping", "benign"} : Return(i, idleState, e, "closing")
  /\ UNCHANGED <<remoteID, plugin, fsmCloseCh>>

OnClose(i) ==
  /\ pc[i] = "closing" /\ pc' = [pc EXCEPT ![i] = "error"]
  /\ Fire(i, "none")
  /\ UNCHANGED <<from, to, err, remoteID, fsmCloseCh>>

step(i) ==
  \/ run(i)
  \/ idle(i)
  \/ connect(i)
  \/ active(i)
  \/ openSent(i)
  \/ openConfirm(i)
  \/ OnEstablished(i)
  \/ established(i)
  \/ OnClose(i)

-----------------------------------------------------------------------------
(* What the peer does to an FSM, and an FSM alone under any peer.          *)

\* Mutant of newFSM: it takes over the closed closeCh of the FSM before it.
newFSMOldCloseCh(i) ==
  /\ pc' = [pc EXCEPT ![i] = "offer"]
  /\ from' = [from EXCEPT ![i] = disabledState]
  /\ to' = [to EXCEPT ![i] = IF i = in THEN activeState ELSE idleState]
  /\ err' = [err EXCEPT ![i] = "nil"]
  /\ remoteID' = [remoteID EXCEPT ![i] = 0]
  /\ UNCHANGED <<plugin, fsmCloseCh>>

newFSM(i) ==
  /\ pc' = [pc EXCEPT ![i] = "offer"]
  /\ from' = [from EXCEPT ![i] = disabledState]
  /\ to' = [to EXCEPT ![i] = IF i = in THEN activeState ELSE idleState]
  /\ err' = [err EXCEPT ![i] = "nil"]
  /\ fsmCloseCh' = fsmCloseCh \ {i}
  /\ remoteID' = [remoteID EXCEPT ![i] = 0]
  /\ UNCHANGED plugin

StateFunction(s) ==
  CASE s = idleState -> "idle"
    [] s = connectState -> "connect"
    [] s = activeState -> "active"
    [] s = openSentState -> "openSent"
    [] s = openConfirmState -> "openConfirm"
    [] s = establishedState -> "opening"
    [] OTHER -> "off"

\* A transition that comes back: the FSM enters the state function.
grant(i) ==
  /\ pc[i] = "await"
  /\ pc' = [pc EXCEPT ![i] = StateFunction(to[i])]
  /\ UNCHANGED <<from, to, err, remoteID, plugin>>

\* The peer receives the transition that is offered, or the error.
take(i) ==
  /\ pc[i] = "offer" /\ pc' = [pc EXCEPT ![i] = "await"]
  /\ UNCHANGED <<from, to, err, remoteID, plugin>>

report(i) ==
  /\ pc[i] = "error" /\ pc' = [pc EXCEPT ![i] = "offer"]
  /\ err' = [err EXCEPT ![i] = "nil"]
  /\ UNCHANGED <<from, to, remoteID, plugin>>

LoopInit ==
  \E i \in Dirs :
    /\ pc = [j \in Dirs |-> IF j = i THEN "offer" ELSE "off"]
    /\ from = [j \in Dirs |-> disabledState]
    /\ to = [j \in Dirs |-> IF j # i THEN disabledState
                            ELSE IF i = in THEN activeState ELSE idleState]
    /\ err = [j \in Dirs |-> "nil"]
    /\ fsmCloseCh = {}
    /\ remoteID = [j \in Dirs |-> 0]
    /\ plugin = [j \in Dirs |-> "none"]

\* The peer answers a transition with a grant or by closing closeCh, after
\* which it only waits for the FSM to exit; an incoming FSM that goes down is
\* never granted (peer.go:133-136).
LoopNext ==
  \E i \in Dirs :
    \/ step(i)
    \/ /\ i \notin fsmCloseCh
       /\ take(i) \/ report(i) \/ (grant(i) /\ ~(i = in /\ to[i] < from[i]))
       /\ UNCHANGED fsmCloseCh
    \/ fsmCloseCh' = fsmCloseCh \cup {i} /\ UNCHANGED fsmVars

LoopSpec == LoopInit /\ [][LoopNext]_<<fsmVars, fsmCloseCh>>
=============================================================================
