---------------------------- MODULE SessionProof ----------------------------
(***************************************************************************)
(* The inductive invariant of Session, the proofs of its safety            *)
(* properties for any number of writers and any remote, and the proof      *)
(* that Session implements FSM.                                            *)
(***************************************************************************)
EXTENDS Session, TLAPS

(* A connection that has sent its OPEN is in use in the states from        *)
(* OpenSent on; to is the state that the run loop is in, or moves to.      *)

\* The run loop is in a state function, or between two of them, and has not
\* begun to give up its connection.
InLoop ==
  /\ wait # "reader"
  /\ pc \in {"offer", "await", "idle", "connect", "active", "openSent", "openConfirm",
             "opening", "established"}

\* What the run loop may block on at each point, and why it does.
Waiting ==
  /\ pc \in {"offer", "await"} => wait \in {"none", "dial", "reader"}
  /\ pc = "connect" => wait \in {"none", "cancel", "redial"}
  /\ pc = "established" => wait \in {"none", "reset"}
  /\ pc = "error" => wait \in {"none", "reader"}
  /\ pc = "closing" => wait \in {"close", "reader"}
  /\ pc \in {"off", "idle", "active", "openSent", "openConfirm", "opening"} => wait = "none"
  /\ wait \in {"cancel", "dial"} => closeCh
  /\ pc \in {"offer", "await"} /\ wait = "reader" => closeCh
  /\ to = disabledState => closeCh

\* The state function is that of the state, and the session's callbacks are
\* around it.
Control ==
  /\ pc = "off" => to = disabledState
  /\ pc = "idle" => to = idleState
  /\ pc = "connect" => to = connectState
  /\ pc = "active" => to = activeState
  /\ pc = "openSent" => to = openSentState
  /\ pc = "openConfirm" => to = openConfirmState
  /\ pc \in {"opening", "established"} => to = establishedState
  /\ pc \in {"error", "closing"} => to \in {disabledState, idleState, activeState}
  /\ pc = "error" /\ to = activeState => from = openSentState /\ retry = "armed"
  /\ pc = "closing" => to # activeState
  /\ pc \in {"established", "closing"} => plugin = "up"

\* The connection, its reader and the hold timer go together: they are in use
\* from OpenSent on and not before, but for the connection an incoming FSM is
\* started with.
Link ==
  InLoop =>
    /\ to \in {disabledState, idleState, connectState} =>
         conn # "open" /\ reader \in {"none", "done"}
    /\ to = activeState =>
         \/ dir = in /\ from = disabledState /\ conn = "open" /\ reader = "none"
         \/ /\ from = openSentState /\ conn = "nil" /\ reader = "done" /\ retry = "armed"
            /\ pc = "active" => dir = out
    /\ to \in {openSentState, openConfirmState, establishedState} =>
         /\ conn = "open" /\ reader \in {"reading", "offer"} /\ ~closeReaderCh
         /\ hold = "armed"

\* How they are given up.
Ending ==
  /\ pc = "closing" /\ wait = "close" => conn = "open" /\ reader # "none"
  /\ pc \in {"error", "closing"} /\ wait = "reader" => conn = "closed" /\ reader # "none"
  /\ pc = "error" /\ wait = "none" => conn = "nil" /\ reader = "done"
  /\ pc \in {"offer", "await"} /\ wait = "reader" =>
       conn # "open" /\ (conn = "nil" => reader \in {"none", "done"})
  /\ pc = "off" => conn = "nil" /\ reader \in {"none", "done"}

\* In Connect a dial is under way.
Dialing ==
  InLoop /\ wait # "dial" /\ to = connectState =>
    /\ dial \in {"dialing", "ok", "err"}
    /\ wait = "none" => retry = "armed"

Core == Typed /\ Waiting /\ Control /\ Link /\ Ending /\ Dialing

IInv == Core /\ FlagsOK /\ StrayOnlyOnStop

\* With a hold time that is not zero, the keepalive timer runs from OpenConfirm
\* on.
Keepalive ==
  InLoop /\ to \in {openConfirmState, establishedState} =>
    /\ holdTime # 0
    /\ pc # "established" => ka = "armed"
    /\ KeepaliveArmed
-----------------------------------------------------------------------------
(* Every step keeps the invariant.                                        *)

\* No step confuses the channels' and the connections' flags (fsm.go:17-46).
LEMMA FlagsStep ==
  ASSUME FlagsOK, [Next]_vars
  PROVE  FlagsOK'
<1> USE DEF FlagsOK, others, loop, connVars, readerVars, timers, session
<1>1. CASE take
  BY <1>1 DEF take
<1>2. CASE grant
  BY <1>2 DEF grant
<1>3. CASE report
  BY <1>3 DEF report
<1>4. CASE stop
  BY <1>4 DEF stop
<1>5. CASE runClose
  BY <1>5, Zenon DEF runClose, sendNotification
<1>6. CASE cleanup
  BY <1>6 DEF cleanup
<1>7. CASE cleanupDone
  BY <1>7, Zenon DEF cleanupDone
<1>8. CASE errorClose
  BY <1>8 DEF errorClose
<1>9. CASE idle
  BY <1>9 DEF idle
<1>10. CASE connect
  BY <1>10, Zenon DEF connect, connectSelect, connectCancelled, connected,
    sendOpenAndSetHoldTimer
<1>11. CASE active
  BY <1>11, Zenon DEF active, sendOpenAndSetHoldTimer
<1>12. CASE openSent
  BY <1>12, Zenon DEF openSent, ended, openMessage, ends, leave
<1>13. CASE openConfirm
  BY <1>13, Zenon DEF openConfirm, ended, leave, ends
<1>14. CASE cleaned
  BY <1>14, Zenon DEF cleaned
<1>15. CASE OnEstablished
  BY <1>15 DEF OnEstablished
<1>16. CASE established
  BY <1>16, Zenon DEF established, ends, leaveSession
<1>17. CASE resetKATimer
  BY <1>17 DEF resetKATimer
<1>18. CASE closeSession
  BY <1>18 DEF closeSession
<1>19. CASE dialer
  BY <1>19 DEF dialer
<1>20. CASE read
  BY <1>20 DEF read
<1>21. CASE readClosed
  BY <1>21 DEF readClosed
<1>22. CASE \E w \in Writers : WriteUpdate(w)
  BY <1>22 DEF WriteUpdate
<1>23. CASE \E w \in Writers : write(w)
  BY <1>23 DEF write
<1>24. CASE \E w \in Writers : written(w)
  BY <1>24 DEF written
<1>25. CASE kaManager
  BY <1>25 DEF kaManager
<1>26. CASE oldKAManager
  BY <1>26 DEF oldKAManager
<1>27. CASE UNCHANGED vars
  BY <1>27 DEF vars
<1> QED
  BY <1>1, <1>2, <1>3, <1>4, <1>5, <1>6, <1>7, <1>8, <1>9, <1>10, <1>11,
    <1>12, <1>13, <1>14, <1>15, <1>16, <1>17, <1>18, <1>19, <1>20, <1>21,
    <1>22, <1>23, <1>24, <1>25, <1>26, <1>27, SMTT(60) DEF Next, Run, Exited

\* Every step keeps run loop, connection, reader, timers and dialer together.
LEMMA CoreStep ==
  ASSUME Core, [Next]_vars
  PROVE  Core'
<1> USE DEF Core, Typed, Waiting, Control, Link, Ending, Dialing, InLoop,
      States, Errors, Timer, Dirs, in, out, Messages, ReadErrors,
      disabledState, idleState, connectState, activeState, openSentState,
      openConfirmState, establishedState, others, loop, connVars, readerVars,
      timers, session
<1>1. CASE take
  BY <1>1 DEF take
<1>2. CASE grant
  BY <1>2, SMTT(60) DEF grant
<1>3. CASE report
  BY <1>3, SMTT(60) DEF report
<1>4. CASE stop
  BY <1>4, SMTT(60) DEF stop
<1>5. CASE runClose
  BY <1>5, SMTT(60) DEF runClose, sendNotification
<1>6. CASE cleanup
  BY <1>6, SMTT(60) DEF cleanup
<1>7. CASE cleanupDone
  BY <1>7, SMTT(60) DEF cleanupDone, stopTimer
<1>8. CASE errorClose
  BY <1>8, SMTT(60) DEF errorClose
<1>9. CASE idle
  BY <1>9, SMTT(60) DEF idle, Offer, dialPeer, Return
<1>10. CASE connect
  BY <1>10, SMTT(60) DEF connect, connectSelect, connectCancelled, connected, Offer,
    dialPeer, sendOpenAndSetHoldTimer, Return
<1>11. CASE active
  BY <1>11, SMTT(60) DEF active, sendOpenAndSetHoldTimer, Offer, dialPeer, Return
<1>12. CASE openSent
  BY <1>12, SMTT(60) DEF openSent, ended, openMessage, ends, leave, receive, validIDs,
    Offer, Return
<1>13. CASE openConfirm
  BY <1>13, SMTT(60) DEF openConfirm, ended, leave, receive, Offer, ends, Return
<1>14. CASE cleaned
  BY <1>14, SMTT(60) DEF cleaned
<1>15. CASE OnEstablished
  BY <1>15, SMTT(60) DEF OnEstablished
<1>16. CASE established
  BY <1>16, SMTT(60) DEF established, ends, leaveSession, receive, Return
<1>17. CASE resetKATimer
  BY <1>17, SMTT(60) DEF resetKATimer
<1>18. CASE closeSession
  BY <1>18, SMTT(60) DEF closeSession
<1>19. CASE dialer
  BY <1>19, SMTT(60) DEF dialer
<1>20. CASE read
  BY <1>20, SMTT(60) DEF read
<1>21. CASE readClosed
  BY <1>21, SMTT(60) DEF readClosed
<1>22. CASE \E w \in Writers : WriteUpdate(w)
  BY <1>22, SMTT(60) DEF WriteUpdate
<1>23. CASE \E w \in Writers : write(w)
  BY <1>23, SMTT(60) DEF write
<1>24. CASE \E w \in Writers : written(w)
  BY <1>24, SMTT(60) DEF written
<1>25. CASE kaManager
  BY <1>25, SMTT(60) DEF kaManager, resetTimer
<1>26. CASE oldKAManager
  BY <1>26, SMTT(60) DEF oldKAManager, resetTimer
<1>27. CASE UNCHANGED vars
  BY <1>27, SMTT(60) DEF vars
<1> QED
  BY <1>1, <1>2, <1>3, <1>4, <1>5, <1>6, <1>7, <1>8, <1>9, <1>10, <1>11,
    <1>12, <1>13, <1>14, <1>15, <1>16, <1>17, <1>18, <1>19, <1>20, <1>21,
    <1>22, <1>23, <1>24, <1>25, <1>26, <1>27, Zenon DEF Next, Run, Exited

\* A step forgets an open connection only if closeCh is closed: connectState
\* and cleanup discard a dial that succeeded (fsm.go:333-352, 93-105).
LEMMA StrayStep ==
  ASSUME IInv, [Next]_vars
  PROVE  StrayOnlyOnStop'
<1> USE DEF IInv, StrayOnlyOnStop, Core, Waiting, Control, Link, InLoop,
      disabledState, idleState, connectState, activeState, openSentState,
      openConfirmState, establishedState, others, loop, connVars, readerVars,
      timers, session
<1>1. CASE take
  BY <1>1 DEF take
<1>2. CASE grant
  BY <1>2 DEF grant
<1>3. CASE report
  BY <1>3 DEF report
<1>4. CASE stop
  BY <1>4, SMTT(60) DEF stop
<1>5. CASE runClose
  BY <1>5, SMTT(60) DEF runClose, sendNotification
<1>6. CASE cleanup
  BY <1>6, SMTT(60) DEF cleanup
<1>7. CASE cleanupDone
  BY <1>7, SMTT(60) DEF cleanupDone
<1>8. CASE errorClose
  BY <1>8, SMTT(60) DEF errorClose
<1>9. CASE idle
  BY <1>9, SMTT(60) DEF idle, Offer, dialPeer, Return
<1>10. CASE connect
  BY <1>10, Zenon DEF connect, connectSelect, connectCancelled, connected, Offer,
    dialPeer, sendOpenAndSetHoldTimer, Return
<1>11. CASE active
  BY <1>11, Zenon DEF active, sendOpenAndSetHoldTimer, Offer, dialPeer, Return
<1>12. CASE openSent
  BY <1>12, Zenon DEF openSent, ended, openMessage, ends, leave, receive, Offer,
    Return
<1>13. CASE openConfirm
  BY <1>13, Zenon DEF openConfirm, ended, leave, receive, Offer, ends, Return
<1>14. CASE cleaned
  BY <1>14 DEF cleaned
<1>15. CASE OnEstablished
  BY <1>15, SMTT(60) DEF OnEstablished
<1>16. CASE established
  BY <1>16, Zenon DEF established, ends, leaveSession, receive, Return
<1>17. CASE resetKATimer
  BY <1>17 DEF resetKATimer
<1>18. CASE closeSession
  BY <1>18 DEF closeSession
<1>19. CASE dialer
  BY <1>19 DEF dialer
<1>20. CASE read
  BY <1>20 DEF read
<1>21. CASE readClosed
  BY <1>21, SMTT(60) DEF readClosed
<1>22. CASE \E w \in Writers : WriteUpdate(w)
  BY <1>22, SMTT(60) DEF WriteUpdate
<1>23. CASE \E w \in Writers : write(w)
  BY <1>23, SMTT(60) DEF write
<1>24. CASE \E w \in Writers : written(w)
  BY <1>24 DEF written
<1>25. CASE kaManager
  BY <1>25, SMTT(60) DEF kaManager
<1>26. CASE oldKAManager
  BY <1>26, SMTT(60) DEF oldKAManager
<1>27. CASE UNCHANGED vars
  BY <1>27, SMTT(60) DEF vars
<1> QED
  BY <1>1, <1>2, <1>3, <1>4, <1>5, <1>6, <1>7, <1>8, <1>9, <1>10, <1>11,
    <1>12, <1>13, <1>14, <1>15, <1>16, <1>17, <1>18, <1>19, <1>20, <1>21,
    <1>22, <1>23, <1>24, <1>25, <1>26, <1>27, SMTT(60) DEF Next, Run, Exited

\* The keepalive timer that openSent creates is reset whenever it has fired.
LEMMA KeepaliveStep ==
  ASSUME 0 \notin HoldTimes, Core, Keepalive, [Next]_vars
  PROVE  Keepalive'
<1> USE DEF Core, Keepalive, KeepaliveArmed, Waiting, Control, InLoop,
      disabledState, idleState, connectState, activeState, openSentState,
      openConfirmState, establishedState, others, loop, connVars, readerVars,
      timers, session
<1>1. CASE take
  BY <1>1 DEF take
<1>2. CASE grant
  BY <1>2, SMTT(60) DEF grant
<1>3. CASE report
  BY <1>3, SMTT(60) DEF report
<1>4. CASE stop
  BY <1>4, SMTT(60) DEF stop
<1>5. CASE runClose
  BY <1>5, SMTT(60) DEF runClose, sendNotification
<1>6. CASE cleanup
  BY <1>6, SMTT(60) DEF cleanup
<1>7. CASE cleanupDone
  BY <1>7, SMTT(60) DEF cleanupDone, stopTimer
<1>8. CASE errorClose
  BY <1>8, SMTT(60) DEF errorClose
<1>9. CASE idle
  BY <1>9, SMTT(60) DEF idle, Offer, Return
<1>10. CASE connect
  BY <1>10, SMTT(60) DEF connect, connectSelect, connectCancelled, connected, Offer,
    sendOpenAndSetHoldTimer, Return
<1>11. CASE active
  BY <1>11, SMTT(60) DEF active, sendOpenAndSetHoldTimer, Offer, Return
<1>12. CASE openSent
  BY <1>12, SMTT(60) DEF openSent, ended, openMessage, ends, leave, receive, Offer,
    Return
<1>13. CASE openConfirm
  BY <1>13, SMTT(60) DEF openConfirm, ended, leave, receive, Offer, ends, Return
<1>14. CASE cleaned
  BY <1>14, SMTT(60) DEF cleaned
<1>15. CASE OnEstablished
  BY <1>15, SMTT(60) DEF OnEstablished
<1>16. CASE established
  BY <1>16, SMTT(60) DEF established, ends, leaveSession, receive, Return
<1>17. CASE resetKATimer
  BY <1>17, SMTT(60) DEF resetKATimer
<1>18. CASE closeSession
  BY <1>18, SMTT(60) DEF closeSession
<1>19. CASE dialer
  BY <1>19, SMTT(60) DEF dialer
<1>20. CASE read
  BY <1>20, SMTT(60) DEF read
<1>21. CASE readClosed
  BY <1>21, SMTT(60) DEF readClosed
<1>22. CASE \E w \in Writers : WriteUpdate(w)
  BY <1>22, SMTT(60) DEF WriteUpdate
<1>23. CASE \E w \in Writers : write(w)
  BY <1>23, SMTT(60) DEF write
<1>24. CASE \E w \in Writers : written(w)
  BY <1>24, SMTT(60) DEF written
<1>25. CASE kaManager
  BY <1>25, SMTT(60) DEF kaManager, resetTimer
<1>26. CASE oldKAManager
  BY <1>26, SMTT(60) DEF oldKAManager, resetTimer
<1>27. CASE UNCHANGED vars
  BY <1>27 DEF vars
<1> QED
  BY <1>1, <1>2, <1>3, <1>4, <1>5, <1>6, <1>7, <1>8, <1>9, <1>10, <1>11,
    <1>12, <1>13, <1>14, <1>15, <1>16, <1>17, <1>18, <1>19, <1>20, <1>21,
    <1>22, <1>23, <1>24, <1>25, <1>26, <1>27, Zenon DEF Next, Run, Exited
-----------------------------------------------------------------------------
(* The safety properties of Session.                                       *)

\* newFSM starts in the invariant (fsm.go:48-60, 113-121).
LEMMA InitIInv == Init => IInv
<1> SUFFICES ASSUME Init PROVE IInv
  OBVIOUS
<1>1. Typed
  BY SMTT(60) DEF Init, Typed, States, Errors, Timer, Dirs, in, out, disabledState,
    idleState, activeState
<1>2. Waiting /\ Control /\ Link /\ Ending /\ Dialing
  BY DEF Init, Waiting, Control, Link, Ending, Dialing, InLoop, Dirs, in, out,
    disabledState, idleState, connectState, activeState, openSentState,
    openConfirmState, establishedState
<1>3. FlagsOK /\ StrayOnlyOnStop
  BY Zenon DEF Init, FlagsOK, StrayOnlyOnStop
<1> QED
  BY <1>1, <1>2, <1>3 DEF IInv, Core

\* The run loop, the connection, the reader and the timers stay together in
\* every execution.
THEOREM Invariant == Spec => []IInv
<1>1. IInv /\ [Next]_vars => IInv'
  BY CoreStep, FlagsStep, StrayStep DEF IInv
<1> QED
  BY InitIInv, <1>1, PTL DEF Spec

\* The variables keep their types: no goroutine of a connection is ever in a
\* state the code has no name for (fsm.go:17-46).
THEOREM TypeCorrect == Spec => []TypeOK
<1>1. IInv => TypeOK
  BY DEF IInv, Core, TypeOK
<1> QED
  BY Invariant, <1>1, PTL

\* The reader never runs without f.conn (fsm.go:425-446).
THEOREM ReaderKeepsConn == Spec => []ReaderHasConn
<1>1. IInv => ReaderHasConn
  BY DEF IInv, Core, Typed, Waiting, Control, Link, Ending, InLoop, ReaderHasConn,
    States, disabledState, idleState, connectState, activeState, openSentState,
    openConfirmState, establishedState
<1> QED
  BY Invariant, <1>1, PTL

\* The hold timer runs wherever the FSM waits for the remote, so that
\* drainAndResetHoldTimer never blocks (fsm.go:531-536).
THEOREM HoldTimerRuns == Spec => []HoldRunning
<1>1. IInv => HoldRunning
  BY DEF IInv, Core, Waiting, Control, Link, InLoop, HoldRunning, openSentState,
    openConfirmState, establishedState
<1> QED
  BY Invariant, <1>1, PTL

\* An FSM that waits for a connection has a dial under way or a timer to try
\* again (fsm.go:305-410).
THEOREM ConnectGoesOn == Spec => []ConnectProgress
<1>1. IInv => ConnectProgress
  BY DEF IInv, Core, Waiting, Control, Link, Dialing, InLoop, ConnectProgress,
    connectState, activeState
<1> QED
  BY Invariant, <1>1, PTL

\* No connection is open, and nothing reads, where no state function uses it
\* (fsm.go:93-105, 425-439).
THEOREM NothingIsLeft == Spec => []NothingLeft
<1>1. IInv => NothingLeft
  BY DEF IInv, Core, Typed, Waiting, Control, Link, Ending, InLoop, NothingLeft,
    disabledState, idleState, connectState
<1> QED
  BY Invariant, <1>1, PTL

\* A connection is forgotten only by an FSM that is told to stop (fsm.go:333-377).
THEOREM ForgetsOnlyOnStop == Spec => []StrayOnlyOnStop
<1>1. IInv => StrayOnlyOnStop
  BY DEF IInv
<1> QED
  BY Invariant, <1>1, PTL

\* If no hold time is zero, a session always has its keepalive timer running,
\* or somebody about to reset it (fsm.go:797-828, 853-858).
THEOREM KeepaliveRuns ==
  ASSUME 0 \notin HoldTimes
  PROVE  Spec => []KeepaliveArmed
<1>1. Init => Keepalive
  BY DEF Init, Keepalive, InLoop, disabledState, idleState, activeState,
    openConfirmState, establishedState
<1>2. IInv /\ Keepalive /\ [Next]_vars => Keepalive'
  BY KeepaliveStep DEF IInv
<1>3. IInv /\ Keepalive => KeepaliveArmed
  BY DEF IInv, Core, Waiting, Control, InLoop, Keepalive, KeepaliveArmed
<1> QED
  BY Invariant, <1>1, <1>2, <1>3, PTL DEF Spec
-----------------------------------------------------------------------------
(* Session implements FSM.  At lifts the variables of the one FSM to the   *)
(* functions of FSM, where the other direction never leaves "off".         *)

LoopVars == <<Loop!fsmVars, IF closeCh THEN {dir} ELSE {}>>

\* The lifted functions at the FSM's own direction.
LEMMA AtDir ==
  ASSUME dir \in Dirs, NEW x, NEW y, NEW z
  PROVE  At(x, y)[dir] = x /\ [At(x, y) EXCEPT ![dir] = z] = At(z, y)
BY Zenon DEF At

\* The direction of an FSM never changes, so that a lifted variable changes as
\* the variable does.
LEMMA AtPrime ==
  ASSUME dir' = dir
  PROVE  /\ At(pc, "off")' = At(pc', "off")
         /\ At(from, disabledState)' = At(from', disabledState)
         /\ At(to, disabledState)' = At(to', disabledState)
         /\ At(err, "nil")' = At(err', "nil")
         /\ At(remoteID, 0)' = At(remoteID', 0)
         /\ At(plugin, "none")' = At(plugin', "none")
         /\ closeCh' = closeCh =>
              (IF closeCh THEN {dir} ELSE {})' = IF closeCh THEN {dir} ELSE {}
BY DEF At, disabledState

\* The direction is one of the two, and no step changes it.
LEMMA DirFixed ==
  ASSUME Core, [Next]_vars
  PROVE  dir \in Dirs /\ dir' = dir
<1>1. dir \in Dirs
  BY DEF Core, Typed
<1>2. dir' = dir
  BY Zenon DEF Next, Run, Exited, vars, others, take, grant, report, stop,
    runClose, cleanup, cleanupDone, errorClose, idle, connect, active,
    openSent, openConfirm, cleaned, OnEstablished, established, resetKATimer,
    closeSession, dialer, read, readClosed, WriteUpdate, write, written,
    kaManager, oldKAManager
<1> QED
  BY <1>1, <1>2

\* FSM names the states and the directions as Session does.
LEMMA SameNames ==
  /\ Loop!disabledState = disabledState /\ Loop!idleState = idleState
  /\ Loop!connectState = connectState /\ Loop!activeState = activeState
  /\ Loop!openSentState = openSentState /\ Loop!openConfirmState = openConfirmState
  /\ Loop!establishedState = establishedState
  /\ Loop!in = in /\ Loop!out = out /\ Loop!Dirs = Dirs
BY DEF disabledState, idleState, connectState, activeState, openSentState,
  openConfirmState, establishedState, in, out, Dirs,
  Loop!disabledState, Loop!idleState, Loop!connectState, Loop!activeState,
  Loop!openSentState, Loop!openConfirmState, Loop!establishedState,
  Loop!in, Loop!out, Loop!Dirs

\* A state function that returns does so in FSM, and a callback that it fires
\* is fired there.
LEMMA ReturnMaps ==
  ASSUME dir \in Dirs, dir' = dir, NEW s, NEW e, NEW l, Return(s, e, l)
  PROVE  Loop!Return(dir, s, e, l)
BY AtDir, AtPrime DEF Return, Loop!Return

LEMMA FireMaps ==
  ASSUME dir \in Dirs, dir' = dir, NEW s, plugin' = s
  PROVE  Loop!Fire(dir, s)
BY AtDir, AtPrime, SMTT(60) DEF Loop!Fire

\* What the FSM does to its connection, reader, timers and writers alone, its
\* peer cannot tell.
LEMMA Stutters ==
  ASSUME dir' = dir, UNCHANGED <<loop, closeCh, remoteID>>
  PROVE  UNCHANGED LoopVars
BY AtPrime DEF LoopVars, Loop!fsmVars, loop

\* The peer's steps: it takes a transition, grants it, takes an error, or closes
\* closeCh (fsm.go:107-180).
LEMMA PeerStep ==
  ASSUME Core, [Next]_vars, take \/ grant \/ report \/ stop
  PROVE  Loop!LoopNext
<1>1. dir \in Dirs /\ dir' = dir
  BY DirFixed
<1>2. /\ At(pc, "off")[dir] = pc /\ At(from, disabledState)[dir] = from
      /\ At(to, disabledState)[dir] = to
  BY <1>1, AtDir, SMTT(60)
<1>3. CASE take
  <2>1. Loop!take(dir)
    BY <1>1, <1>2, <1>3, AtDir, AtPrime DEF take, others, Loop!take
  <2> QED
    BY <1>1, <1>3, <2>1, AtPrime, SameNames, Zenon DEF take, Loop!LoopNext
<1>4. CASE grant
  <2>1. Loop!grant(dir)
    BY <1>1, <1>2, <1>4, AtDir, AtPrime, SameNames, SMTT(60)
      DEF grant, others, Loop!grant, Loop!StateFunction, Core, Waiting, Typed,
        States, disabledState, idleState, connectState, activeState,
        openSentState, openConfirmState, establishedState
  <2> QED
    BY <1>1, <1>2, <1>4, <2>1, AtPrime, SameNames, SMTT(60) DEF grant, Loop!LoopNext
<1>5. CASE report
  <2>1. Loop!report(dir)
    BY <1>1, <1>2, <1>5, AtDir, AtPrime, SMTT(60) DEF report, others, Loop!report
  <2> QED
    BY <1>1, <1>5, <2>1, AtPrime, SameNames, SMTT(60) DEF report, Loop!LoopNext
<1>6. CASE stop
  BY <1>1, <1>6, AtPrime, SameNames, Zenon
    DEF stop, others, loop, Loop!LoopNext, Loop!fsmVars
<1> QED
  BY <1>3, <1>4, <1>5, <1>6

\* run, told to stop: the deferred cleanup, or the error that is not reported
\* any more (fsm.go:124-176).
LEMMA RunStep ==
  ASSUME Core, [Next]_vars, cleanupDone \/ errorClose
  PROVE  Loop!run(dir)
<1>1. dir \in Dirs /\ dir' = dir
  BY DirFixed
<1>2. At(pc, "off")[dir] = pc
  BY <1>1, AtDir, SMTT(60)
<1>3. CASE cleanupDone
  BY <1>1, <1>2, <1>3, AtDir, AtPrime, FireMaps, SameNames, SMTT(60)
    DEF cleanupDone, Loop!run, Loop!runClose, Core, Waiting
<1>4. CASE errorClose
  BY <1>1, <1>2, <1>4, AtDir, AtPrime, SameNames, SMTT(60)
    DEF errorClose, others, Loop!run, Loop!runClose
<1> QED
  BY <1>3, <1>4

\* idle (fsm.go:246-279).
LEMMA IdleStep ==
  ASSUME Core, [Next]_vars, idle
  PROVE  Loop!idle(dir)
<1>1. dir \in Dirs /\ dir' = dir
  BY DirFixed
<1>2. At(pc, "off")[dir] = pc
  BY <1>1, AtDir, SMTT(60)
<1> QED
  BY <1>1, <1>2, AtPrime, ReturnMaps, FireMaps, SameNames
    DEF idle, Offer, Loop!idle, Loop!Offer

\* connect: dialling again is nothing to the peer (fsm.go:305-380).
LEMMA ConnectStep ==
  ASSUME Core, [Next]_vars, connect
  PROVE  Loop!connect(dir) \/ UNCHANGED LoopVars
<1>1. dir \in Dirs /\ dir' = dir
  BY DirFixed
<1>2. At(pc, "off")[dir] = pc
  BY <1>1, AtDir
<1> QED
  BY <1>1, <1>2, AtPrime, ReturnMaps, FireMaps, Stutters, SameNames, Zenon
    DEF connect, connectSelect, connectCancelled, connected,
      sendOpenAndSetHoldTimer, Offer, Core, Waiting, Loop!connect,
      Loop!sendOpenAndSetHoldTimer, Loop!Offer

\* active, which by Link finds a connection if and only if the FSM is the
\* incoming one (fsm.go:281-303, 383-414).
LEMMA ActiveStep ==
  ASSUME Core, [Next]_vars, active
  PROVE  Loop!active(dir)
<1>1. dir \in Dirs /\ dir' = dir
  BY DirFixed
<1>2. At(pc, "off")[dir] = pc
  BY <1>1, AtDir
<1>3. IF conn = "nil" THEN dir = out ELSE dir = in
  BY SMTT(60) DEF active, Core, Waiting, Control, Link, InLoop, activeState
<1> QED
  BY <1>1, <1>2, <1>3, AtPrime, ReturnMaps, FireMaps, SameNames, Zenon
    DEF active, sendOpenAndSetHoldTimer, Offer, Loop!active,
      Loop!sendOpenAndSetHoldTimer, Loop!Offer

\* openSent (fsm.go:552-694).
LEMMA OpenSentStep ==
  ASSUME Core, [Next]_vars, openSent
  PROVE  Loop!openSent(dir)
<1>1. dir \in Dirs /\ dir' = dir
  BY DirFixed
<1>2. At(pc, "off")[dir] = pc
  BY <1>1, AtDir
<1>3. \A id : remoteID' = id =>
        At(remoteID, 0)' = [At(remoteID, 0) EXCEPT ![dir] = id]
  BY <1>1, AtDir, AtPrime, SMTT(60)
<1> QED
  BY <1>1, <1>2, <1>3, AtPrime, ReturnMaps, FireMaps, SameNames, Zenon
    DEF openSent, ended, openMessage, ends, leave, Offer, validIDs,
      Loop!openSent, Loop!openMessage, Loop!Fail, Loop!Offer, Loop!validIDs

\* openConfirm (fsm.go:696-773).
LEMMA OpenConfirmStep ==
  ASSUME Core, [Next]_vars, openConfirm
  PROVE  Loop!openConfirm(dir)
<1>1. dir \in Dirs /\ dir' = dir
  BY DirFixed
<1>2. At(pc, "off")[dir] = pc
  BY <1>1, AtDir
<1> QED
  BY <1>1, <1>2, AtPrime, ReturnMaps, FireMaps, SameNames, Zenon
    DEF openConfirm, ended, ends, leave, Offer, Loop!openConfirm,
      Loop!openConfirmClose, Loop!Fail, Loop!Offer,
      disabledState, idleState, activeState

\* established: the session begins with OnEstablished, goes on unseen, and ends
\* with OnClose once the reader has exited (fsm.go:807-954).
LEMMA EstablishedStep ==
  ASSUME Core, [Next]_vars, OnEstablished \/ established \/ cleaned
  PROVE  \/ Loop!OnEstablished(dir) \/ Loop!established(dir) \/ Loop!OnClose(dir)
         \/ UNCHANGED LoopVars
<1>1. dir \in Dirs /\ dir' = dir
  BY DirFixed
<1>2. At(pc, "off")[dir] = pc
  BY <1>1, AtDir, SMTT(60)
<1>3. CASE OnEstablished
  <2>1. pc = "opening" /\ pc' = "established" /\ plugin' = "up"
        /\ UNCHANGED <<from, to, err, remoteID, closeCh>>
    BY <1>3, Zenon DEF OnEstablished
  <2>2. At(pc, "off")' = [At(pc, "off") EXCEPT ![dir] = "established"]
    BY <1>1, <2>1, AtDir, AtPrime, SMTT(60)
  <2>3. Loop!Fire(dir, "up")
    BY <1>1, <2>1, FireMaps, Zenon
  <2>4. UNCHANGED <<At(from, disabledState), At(to, disabledState), At(err, "nil"),
                    At(remoteID, 0), IF closeCh THEN {dir} ELSE {}>>
    BY <1>1, <2>1, AtPrime, SMTT(60)
  <2> QED
    BY <1>2, <2>1, <2>2, <2>3, <2>4, Zenon DEF Loop!OnEstablished
<1>4. CASE established
  BY <1>1, <1>2, <1>4, AtPrime, ReturnMaps, Stutters, SameNames, Zenon
    DEF established, ends, leaveSession, loop, Loop!established
<1>5. CASE cleaned /\ pc = "closing"
  <2>1. pc' = "error" /\ plugin' = "none" /\ UNCHANGED <<from, to, err, remoteID, closeCh>>
    BY <1>5, Zenon DEF cleaned
  <2>2. At(pc, "off")' = [At(pc, "off") EXCEPT ![dir] = "error"]
    BY <1>1, <2>1, AtDir, AtPrime, SMTT(60)
  <2>3. Loop!Fire(dir, "none")
    BY <1>1, <2>1, FireMaps, Zenon
  <2>4. UNCHANGED <<At(from, disabledState), At(to, disabledState), At(err, "nil"),
                    At(remoteID, 0), IF closeCh THEN {dir} ELSE {}>>
    BY <1>1, <2>1, AtPrime, SMTT(60)
  <2> QED
    BY <1>2, <1>5, <2>2, <2>3, <2>4, Zenon DEF Loop!OnClose
<1>6. CASE cleaned /\ pc = "error"
  BY <1>1, <1>6, Stutters DEF cleaned, loop
<1> QED
  BY <1>3, <1>4, <1>5, <1>6, Zenon DEF cleaned

\* Every step of an FSM is a step that its peer takes it to make.
LEMMA Refines ==
  ASSUME Core, [Next]_vars
  PROVE  Loop!LoopNext \/ UNCHANGED LoopVars
<1>1. dir \in Dirs /\ dir' = dir
  BY DirFixed
<1>2. ASSUME Loop!step(dir) PROVE Loop!LoopNext
  BY <1>1, <1>2, SameNames DEF Loop!LoopNext
<1>3. CASE take \/ grant \/ report \/ stop
  BY <1>3, PeerStep
<1>4. CASE cleanupDone \/ errorClose
  BY <1>2, <1>4, RunStep DEF Loop!step
<1>5. CASE idle
  BY <1>2, <1>5, IdleStep DEF Loop!step
<1>6. CASE connect
  BY <1>2, <1>6, ConnectStep DEF Loop!step
<1>7. CASE active
  BY <1>2, <1>7, ActiveStep DEF Loop!step
<1>8. CASE openSent
  BY <1>2, <1>8, OpenSentStep DEF Loop!step
<1>9. CASE openConfirm
  BY <1>2, <1>9, OpenConfirmStep DEF Loop!step
<1>10. CASE OnEstablished \/ established \/ cleaned
  BY <1>2, <1>10, EstablishedStep DEF Loop!step
<1>11. CASE runClose \/ cleanup \/ resetKATimer \/ closeSession
  BY <1>1, <1>11, Stutters, SMTT(60) DEF runClose, cleanup, resetKATimer, closeSession
<1>12. CASE dialer \/ read \/ readClosed \/ kaManager \/ oldKAManager
  BY <1>1, <1>12, Stutters, SMTT(60) DEF dialer, read, readClosed, kaManager, oldKAManager
<1>13. CASE \E w \in Writers : WriteUpdate(w) \/ write(w) \/ written(w)
  BY <1>1, <1>13, Stutters DEF WriteUpdate, write, written
<1>14. CASE UNCHANGED vars
  BY <1>1, <1>14, Stutters DEF vars
<1> QED
  BY <1>3, <1>4, <1>5, <1>6, <1>7, <1>8, <1>9, <1>10, <1>11, <1>12, <1>13, <1>14
    DEF Next, Run, Exited

\* The FSM with its goroutines, its connection and its timers implements the
\* FSM that the peer is verified against: what Peer assumes of its two FSMs
\* the code of fsm.go provides (fsm.go:107-180).
THEOREM Implements == Spec => ImplementsFSM
<1>1. Init => Loop!LoopInit
  <2> SUFFICES ASSUME Init PROVE Loop!LoopInit
    OBVIOUS
  <2> QED
    BY SameNames DEF Init, Loop!LoopInit, At
<1>2. IInv /\ [Next]_vars => [Loop!LoopNext]_LoopVars
  BY Refines DEF IInv
<1>3. IInv /\ [Next]_vars =>
        [Loop!LoopNext]_<<Loop!fsmVars, IF closeCh THEN {dir} ELSE {}>>
  BY <1>2 DEF LoopVars
<1> QED
  BY Invariant, <1>1, <1>3, PTL DEF Spec, ImplementsFSM, Loop!LoopSpec
=============================================================================
