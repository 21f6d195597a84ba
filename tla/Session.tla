------------------------------ MODULE Session -------------------------------
(***************************************************************************)
(* One FSM (fsm.go) with everything it owns: its connection, the dialer    *)
(* and reader goroutines, its timers, and in Established the keepalive     *)
(* manager and the callers of WriteUpdate.  The peer is its environment:   *)
(* it takes transitions and errors, grants, and closes closeCh.            *)
(*                                                                         *)
(* A step runs from one blocking point of a goroutine to its next; wait    *)
(* says what the run loop blocks on other than the select of pc.  A timer  *)
(* that is armed may fire whenever it is looked at.  conn.Write returns.   *)
(***************************************************************************)
EXTENDS Types

CONSTANTS LocalID, LocalAS, RemoteAS, RemoteIDs,
          HoldTimes,  \* hold times that can be negotiated: 0, or 1 for any other
          Writers     \* goroutines that call WriteUpdate

VARIABLES
  dir,                                  \* outgoing or incoming; never changes
  pc, wait, from, to, err,              \* the run loop
  closeCh, remoteID, plugin,
  conn, notified, stray,                \* connections
  dial, reader, got, closeReaderCh,     \* the dialer and the reader
  hold, ka, retry, holdTime,            \* timers
  writer, mgr, oldMgr, calls, stale     \* the writer of the session

loop == <<pc, from, to, err, plugin>>
connVars == <<conn, notified, stray>>
readerVars == <<reader, got, closeReaderCh>>
timers == <<hold, ka, retry, holdTime>>
session == <<writer, mgr, oldMgr, calls, stale>>
vars == <<dir, wait, closeCh, remoteID, dial, loop, connVars, readerVars, timers,
          session>>

\* What the reader may hand over: a message, an error of the connection (or
\* of decoding a NOTIFICATION), or an error it has a NOTIFICATION for.
Messages == {"open", "update", "keepalive", "notification"}
ReadErrors == {"connErr", "protoErr"}

Timer == {"nil", "stopped", "armed"}

Typed ==
  /\ dir \in Dirs
  /\ pc \in {"off", "offer", "await", "idle", "connect", "active", "openSent",
             "openConfirm", "opening", "established", "closing", "error"}
  /\ wait \in {"none", "cancel", "redial", "dial", "reader", "reset", "close"}
  /\ from \in States /\ to \in States /\ err \in Errors
  /\ remoteID \in {0} \cup RemoteIDs
  /\ plugin \in {"none", "caps", "open", "up"}
  /\ conn \in {"nil", "open", "closed"}
  /\ dial \in {"none", "dialing", "ok", "err", "done"}
  /\ reader \in {"none", "reading", "offer", "done"}
  /\ got \in {"nothing"} \cup Messages \cup ReadErrors
  /\ hold \in Timer /\ ka \in Timer /\ retry \in Timer
  /\ holdTime \in {0} \cup HoldTimes
  /\ writer \in {"none", "live", "dead"}
  /\ mgr \in {"none", "select", "reset"} /\ oldMgr \in {"none", "select", "reset"}
  /\ calls \in [Writers -> {"idle", "write", "reset"}] /\ stale \in SUBSET Writers

FlagsOK ==
  /\ closeCh \in BOOLEAN /\ notified \in BOOLEAN /\ stray \in BOOLEAN
  /\ closeReaderCh \in BOOLEAN

TypeOK == Typed /\ FlagsOK

\* newFSM and the head of run.
Init ==
  /\ dir \in Dirs
  /\ pc = "offer" /\ wait = "none" /\ from = disabledState
  /\ to = IF dir = in THEN activeState ELSE idleState
  /\ err = "nil" /\ closeCh = FALSE /\ remoteID = 0 /\ plugin = "none"
  /\ conn = IF dir = in THEN "open" ELSE "nil"
  /\ notified = FALSE /\ stray = FALSE
  /\ dial = "none" /\ reader = "none" /\ got = "nothing" /\ closeReaderCh = FALSE
  /\ hold = "nil" /\ ka = "nil" /\ retry = "nil" /\ holdTime = 0
  /\ writer = "none" /\ mgr = "none" /\ oldMgr = "none"
  /\ calls = [w \in Writers |-> "idle"] /\ stale = {}
-----------------------------------------------------------------------------
(* The peer.  Once it has closed closeCh it only waits for doneCh.         *)

others == <<dir, remoteID, dial, connVars, readerVars, timers, session>>

take ==
  /\ pc = "offer" /\ wait = "none" /\ ~closeCh /\ pc' = "await"
  /\ UNCHANGED <<others, wait, closeCh, from, to, err, plugin>>

grant ==
  /\ pc = "await" /\ wait = "none" /\ ~closeCh /\ ~(dir = in /\ to < from)
  /\ pc' = CASE to = idleState -> "idle"
             [] to = connectState -> "connect"
             [] to = activeState -> "active"
             [] to = openSentState -> "openSent"
             [] to = openConfirmState -> "openConfirm"
             [] to = establishedState -> "opening"
  /\ UNCHANGED <<others, wait, closeCh, from, to, err, plugin>>

report ==
  /\ pc = "error" /\ wait = "none" /\ ~closeCh /\ pc' = "offer" /\ err' = "nil"
  /\ UNCHANGED <<others, wait, closeCh, from, to, plugin>>

stop == ~closeCh /\ closeCh' = TRUE /\ UNCHANGED <<others, wait, loop>>
-----------------------------------------------------------------------------
(* The goroutines of a connection.                                         *)

\* The dialer: a cancelled dial may have succeeded already.
dialer ==
  /\ dial = "dialing" /\ dial' \in {"ok", "err"}
  /\ UNCHANGED <<dir, wait, closeCh, remoteID, loop, connVars, readerVars, timers,
                 session>>

\* The reader.
read ==
  /\ reader = "reading" /\ reader' = "offer"
  /\ got' \in IF conn = "open" THEN Messages \cup ReadErrors ELSE {"connErr"}
  /\ UNCHANGED <<dir, wait, closeCh, remoteID, dial, loop, connVars, closeReaderCh,
                 timers, session>>

readClosed ==
  /\ reader = "offer" /\ closeReaderCh /\ reader' = "done" /\ got' = "nothing"
  /\ UNCHANGED <<dir, wait, closeCh, remoteID, dial, loop, connVars,
                 closeReaderCh, timers, session>>

\* The run loop receives x from the reader, which goes on or, after an error,
\* exits.
receive(x) ==
  /\ reader = "offer" /\ got = x
  /\ reader' = IF x \in Messages THEN "reading" ELSE "done"
  /\ got' = "nothing"
-----------------------------------------------------------------------------
(* The run loop.                                                           *)

\* Mutant of Return: the FSM goes to the state below the one it wants.
ReturnOffByOne(s, e, l) == from' = to /\ to' = s - 1 /\ err' = e /\ pc' = l

\* A state function returns (s, e); run goes on at label l.
Return(s, e, l) == from' = to /\ to' = s /\ err' = e /\ pc' = l

Offer(s) == Return(s, "nil", "offer")

\* A NOTIFICATION is written to the connection.
sendNotification == notified' = TRUE /\ UNCHANGED stray

\* Disabled while a transition is agreed: Cease, if the FSM had a connection,
\* and the deferred cleanup, which first waits for the dialer.
runClose ==
  /\ pc \in {"offer", "await"} /\ wait = "none" /\ closeCh /\ wait' = "dial"
  /\ IF to # disabledState /\ conn # "nil" /\ from > activeState
     THEN sendNotification ELSE UNCHANGED <<notified, stray>>
  /\ UNCHANGED <<dir, closeCh, remoteID, dial, loop, conn, readerVars, timers,
                 session>>

\* Mutant of cleanup: the reader is not told to stop.
cleanupReaderRuns ==
  /\ wait = "dial" /\ dial # "dialing" /\ wait' = "reader"
  /\ dial' = IF dial = "none" THEN "none" ELSE "done"
  /\ stray' = (stray \/ dial = "ok")
  /\ conn' = IF conn = "nil" THEN "nil" ELSE "closed"
  /\ UNCHANGED <<dir, closeCh, remoteID, loop, notified, readerVars, timers, session>>

cleanup ==
  /\ wait = "dial" /\ dial # "dialing" /\ wait' = "reader"
  /\ dial' = IF dial = "none" THEN "none" ELSE "done"
  /\ stray' = (stray \/ dial = "ok")
  /\ conn' = IF conn = "nil" THEN "nil" ELSE "closed"
  /\ closeReaderCh' = (reader # "none")
  /\ UNCHANGED <<dir, closeCh, remoteID, loop, notified, reader, got, timers,
                 session>>

stopTimer(t) == IF t = "nil" THEN "nil" ELSE "stopped"

cleanupDone ==
  /\ pc \in {"offer", "await"} /\ wait = "reader" /\ reader \in {"none", "done"}
  /\ wait' = "none" /\ conn' = "nil" /\ notified' = FALSE /\ pc' = "off"
  /\ from' = disabledState /\ to' = disabledState /\ err' = "nil" /\ plugin' = "none"
  /\ hold' = stopTimer(hold) /\ ka' = stopTimer(ka) /\ retry' = stopTimer(retry)
  /\ UNCHANGED <<dir, closeCh, remoteID, dial, stray, readerVars, holdTime, session>>

\* Mutant of errorClose: the FSM goes on to the state it wanted.
errorCloseGoesOn ==
  /\ pc = "error" /\ wait = "none" /\ closeCh
  /\ pc' = "offer" /\ err' = "nil"
  /\ UNCHANGED <<others, wait, closeCh, from, to, plugin>>

\* Disabled while an error is reported.
errorClose ==
  /\ pc = "error" /\ wait = "none" /\ closeCh
  /\ pc' = "offer" /\ to' = disabledState /\ err' = "nil"
  /\ UNCHANGED <<others, wait, closeCh, from, plugin>>
-----------------------------------------------------------------------------
(* Before a connection.                                                    *)

\* Mutant of dialPeer: the retry timer is not renewed.
dialPeerUntimed == dial' = "dialing" /\ UNCHANGED retry

dialPeer == dial' = "dialing" /\ retry' = "armed"

idle ==
  /\ pc = "idle"
  /\ \/ closeCh /\ Offer(disabledState) /\ UNCHANGED <<dial, retry>>
     \/ Offer(connectState) /\ dialPeer
  /\ plugin' = "none"
  /\ UNCHANGED <<dir, wait, closeCh, remoteID, connVars, readerVars, hold, ka,
                 holdTime, session>>

\* Mutants of sendOpenAndSetHoldTimer: the hold timer is not set; the
\* connection is not closed when the OPEN cannot be sent.
sendOpenUntimed(c) ==
  /\ plugin' = "caps"
  /\ \/ /\ Offer(idleState) /\ conn' = "closed"
        /\ UNCHANGED <<readerVars, hold>>
     \/ /\ Offer(openSentState) /\ conn' = c
        /\ reader' = "reading" /\ closeReaderCh' = FALSE
        /\ UNCHANGED <<got, hold>>
  /\ notified' = FALSE

sendOpenNoClose(c) ==
  /\ plugin' = "caps"
  /\ \/ /\ Offer(idleState) /\ conn' = c
        /\ UNCHANGED <<readerVars, hold>>
     \/ /\ Offer(openSentState) /\ conn' = c
        /\ hold' = "armed" /\ reader' = "reading" /\ closeReaderCh' = FALSE
        /\ UNCHANGED got
  /\ notified' = FALSE

\* c is the value f.conn has by now.
sendOpenAndSetHoldTimer(c) ==
  /\ plugin' = "caps"
  /\ \/ /\ Offer(idleState) /\ conn' = "closed"
        /\ UNCHANGED <<readerVars, hold>>
     \/ /\ Offer(openSentState) /\ conn' = c
        /\ hold' = "armed" /\ reader' = "reading" /\ closeReaderCh' = FALSE
        /\ UNCHANGED got
  /\ notified' = FALSE

\* The result of the dialer is received.
connected ==
  /\ dial = "ok" /\ dial' = "done"
  /\ stray' = (stray \/ conn = "open")
  /\ sendOpenAndSetHoldTimer("open")

connectSelect ==
  /\ wait = "none"
  /\ \/ /\ closeCh /\ wait' = "cancel"
        /\ UNCHANGED <<loop, dial, connVars, readerVars, hold, retry>>
     \/ connected /\ retry' = "stopped" /\ UNCHANGED wait
     \/ /\ dial = "err" /\ dial' = "done" /\ retry' = "stopped" /\ Offer(idleState)
        /\ UNCHANGED <<wait, plugin, connVars, readerVars, hold>>
     \/ /\ retry = "armed" /\ retry' = "stopped" /\ wait' = "redial"
        /\ UNCHANGED <<loop, dial, connVars, readerVars, hold>>

\* Mutant of connectCancelled: it dials again whatever the result.
connectCancelledRedials ==
  /\ wait' = "none"
  /\ \/ /\ wait = "cancel" /\ dial \in {"ok", "err"} /\ dial' = "done"
        /\ stray' = (stray \/ dial = "ok")
        /\ retry' = "stopped" /\ Offer(disabledState)
        /\ UNCHANGED <<plugin, conn, notified, readerVars, hold>>
     \/ /\ wait = "redial" /\ dial \in {"ok", "err"} /\ dialPeer
        /\ stray' = (stray \/ dial = "ok")
        /\ UNCHANGED <<loop, conn, notified, readerVars, hold>>

\* The dial is cancelled, and its result received: to disable the FSM, or to
\* dial again unless the dialer was faster than the timer.
connectCancelled ==
  /\ wait' = "none"
  /\ \/ /\ wait = "cancel" /\ dial \in {"ok", "err"} /\ dial' = "done"
        /\ stray' = (stray \/ dial = "ok")
        /\ retry' = "stopped" /\ Offer(disabledState)
        /\ UNCHANGED <<plugin, conn, notified, readerVars, hold>>
     \/ wait = "redial" /\ connected /\ UNCHANGED retry
     \/ /\ wait = "redial" /\ dial = "err" /\ dialPeer
        /\ UNCHANGED <<loop, connVars, readerVars, hold>>

connect ==
  /\ pc = "connect" /\ (connectSelect \/ connectCancelled)
  /\ UNCHANGED <<dir, closeCh, remoteID, ka, holdTime, session>>

active ==
  /\ pc = "active"
  /\ \/ /\ conn # "nil" /\ sendOpenAndSetHoldTimer(conn)
        /\ UNCHANGED <<stray, dial, retry>>
     \/ /\ conn = "nil"
        /\ \/ closeCh /\ Offer(disabledState) /\ UNCHANGED <<dial, retry>>
           \/ retry = "armed" /\ Offer(connectState) /\ dialPeer
        /\ UNCHANGED <<plugin, connVars, readerVars, hold>>
  /\ UNCHANGED <<dir, wait, closeCh, remoteID, ka, holdTime, session>>
-----------------------------------------------------------------------------
(* With a connection.                                                      *)

\* The cases of a select that end the connection: s and e are what the state
\* function returns, n whether a NOTIFICATION is sent, expected the messages
\* that are handled elsewhere.
ends(s, e, n, expected) ==
  \/ /\ closeCh /\ s = disabledState /\ e = "benign" /\ n
     /\ UNCHANGED <<reader, got, hold, retry>>
  \/ /\ hold = "armed" /\ hold' = "stopped" /\ s = idleState /\ e = "damping" /\ n
     /\ UNCHANGED <<reader, got, retry>>
  \/ /\ receive("connErr") /\ e = "benign" /\ ~n
     /\ IF pc = "openSent" THEN s = activeState /\ retry' = "armed"
                           ELSE s = idleState /\ UNCHANGED retry
     /\ UNCHANGED hold
  \/ /\ \/ receive("notification") /\ ~n
        \/ /\ \E x \in ({"protoErr"} \cup Messages) \ (expected \cup {"notification"}) :
                receive(x)
           /\ e = "damping" /\ n
     /\ s = idleState
     /\ UNCHANGED <<hold, retry>>

\* Mutant of leave: f.conn is forgotten before the reader has exited.
leaveEarly(s, e, n) ==
  /\ Return(s, e, "error") /\ wait' = "reader"
  /\ conn' = "nil" /\ closeReaderCh' = TRUE
  /\ notified' = (notified \/ n) /\ UNCHANGED stray

\* openSent and openConfirm return: cleanupConnAndReader waits for the reader.
leave(s, e, n) ==
  /\ Return(s, e, "error") /\ wait' = "reader"
  /\ conn' = "closed" /\ closeReaderCh' = TRUE
  /\ notified' = (notified \/ n) /\ UNCHANGED stray

ended(expected) ==
  \E s \in {disabledState, idleState, activeState}, e \in {"damping", "benign"},
     n \in BOOLEAN :
       ends(s, e, n, expected) /\ leave(s, e, n)

\* The identifiers openMessage.validate lets through.
validIDs == {id \in RemoteIDs : ~(LocalAS = RemoteAS /\ id = LocalID)}

\* An OPEN: invalid, refused by the plugin, not acknowledged, or accepted.
openMessage ==
  /\ receive("open")
  /\ \/ /\ leave(idleState, "damping", TRUE) /\ plugin' = "none"
        /\ UNCHANGED <<remoteID, hold, ka, holdTime>>
     \/ /\ remoteID' \in validIDs /\ plugin' = "open"
        /\ \/ /\ \/ \E e \in {"damping", "benign"} : leave(idleState, e, TRUE)
                 \/ leave(idleState, "benign", FALSE)
              /\ UNCHANGED <<hold, ka, holdTime>>
           \/ /\ Offer(openConfirmState)
              /\ holdTime' \in HoldTimes
              /\ IF holdTime' # 0 THEN ka' = "armed" /\ hold = "armed" ELSE UNCHANGED ka
              /\ UNCHANGED <<wait, connVars, closeReaderCh, hold>>

openSent ==
  /\ pc = "openSent"
  /\ \/ /\ ended({"open"}) /\ plugin' = "none"
        /\ UNCHANGED <<remoteID, ka, holdTime>>
     \/ openMessage /\ UNCHANGED retry
  /\ UNCHANGED <<dir, closeCh, dial, session>>

\* The select evaluates keepAliveTimer.C, which panics if there is no timer.
openConfirm ==
  /\ pc = "openConfirm" /\ ka # "nil"
  /\ \/ ended({"keepalive"}) /\ plugin' = "none" /\ UNCHANGED ka
     \/ /\ ka = "armed" /\ ka' = "stopped"
        /\ leave(idleState, "benign", FALSE) /\ plugin' = "none"
        /\ UNCHANGED <<reader, got, hold, retry>>
     \/ /\ receive("keepalive") /\ hold = "armed" /\ Offer(establishedState)
        /\ UNCHANGED <<wait, plugin, connVars, closeReaderCh, hold, ka, retry>>
  /\ UNCHANGED <<dir, closeCh, remoteID, dial, holdTime, session>>

\* The tail of the three state functions, OnClose included.
cleaned ==
  /\ pc \in {"error", "closing"} /\ wait = "reader" /\ reader = "done"
  /\ wait' = "none" /\ conn' = "nil" /\ notified' = FALSE /\ hold' = "stopped"
  /\ ka' = IF from = openSentState THEN ka ELSE "stopped"
  /\ pc' = "error" /\ plugin' = IF pc = "closing" THEN "none" ELSE plugin
  /\ UNCHANGED <<dir, closeCh, remoteID, from, to, err, dial, stray,
                 readerVars, retry, holdTime, session>>
-----------------------------------------------------------------------------
(* Established.                                                            *)

\* At most one keepalive manager of an earlier session is still around.
OnEstablished ==
  /\ pc = "opening" /\ oldMgr = "none" /\ pc' = "established"
  /\ plugin' = "up" /\ writer' = "live"
  /\ mgr' = "select" /\ oldMgr' = mgr
  /\ stale' = {w \in Writers : calls[w] # "idle"}
  /\ UNCHANGED <<dir, wait, closeCh, remoteID, from, to, err, dial, connVars,
                 readerVars, timers, calls>>

leaveSession(s, e, n) ==
  /\ Return(s, e, "closing") /\ wait' = "close"
  /\ notified' = (notified \/ n) /\ UNCHANGED <<conn, stray, closeReaderCh>>

\* The select: what ends the session, a KEEPALIVE to send, a KEEPALIVE or an
\* UPDATE that arrives, to which the plugin may answer with a NOTIFICATION.
established ==
  /\ pc = "established" /\ wait = "none"
  /\ \/ /\ \E s \in {disabledState, idleState}, e \in {"damping", "benign"},
             n \in BOOLEAN :
               /\ ends(s, e, n, {"keepalive", "update"})
               /\ leaveSession(s, e, n)
        /\ UNCHANGED ka
     \/ /\ ka = "armed" /\ ka' = "stopped"
        /\ \/ wait' = "reset" /\ UNCHANGED <<pc, from, to, err, connVars, closeReaderCh>>
           \/ leaveSession(idleState, "benign", FALSE)
        /\ UNCHANGED <<reader, got, hold, retry>>
     \/ /\ receive("update")
        /\ \E e \in {"damping", "benign"} : leaveSession(idleState, e, TRUE)
        /\ UNCHANGED <<hold, ka, retry>>
     \/ /\ receive("update") \/ receive("keepalive")
        /\ holdTime # 0 => hold = "armed"
        /\ UNCHANGED <<wait, pc, from, to, err, connVars, closeReaderCh, hold, ka, retry>>
  /\ UNCHANGED <<dir, closeCh, remoteID, plugin, dial, holdTime, session>>

\* resetKATimerCh: the run loop, or a call of WriteUpdate, meets the manager.
resetKATimer ==
  /\ wait = "reset" /\ mgr = "select" /\ mgr' = "reset" /\ wait' = "none"
  /\ UNCHANGED <<dir, closeCh, remoteID, dial, loop, connVars, readerVars, timers,
                 writer, oldMgr, calls, stale>>

\* The deferred closes, and the start of cleanupConnAndReader.
closeSession ==
  /\ wait = "close" /\ wait' = "reader"
  /\ writer' = "dead" /\ conn' = "closed" /\ closeReaderCh' = TRUE
  /\ UNCHANGED <<dir, closeCh, remoteID, dial, loop, notified, stray, reader, got,
                 timers, mgr, oldMgr, calls, stale>>

\* WriteUpdate: closeCh is looked at, the UPDATE written, and the keepalive
\* timer reset unless the session is over by then.
WriteUpdate(w) ==
  /\ calls[w] = "idle" /\ writer = "live"
  /\ calls' = [calls EXCEPT ![w] = "write"]
  /\ UNCHANGED <<dir, wait, closeCh, remoteID, dial, loop, connVars, readerVars,
                 timers, writer, mgr, oldMgr, stale>>

write(w) ==
  /\ calls[w] = "write"
  /\ \/ calls' = [calls EXCEPT ![w] = "idle"]
     \/ /\ w \notin stale /\ conn = "open"
        /\ calls' = [calls EXCEPT ![w] = "reset"]
  /\ stale' = IF calls'[w] = "idle" THEN stale \ {w} ELSE stale
  /\ UNCHANGED <<dir, wait, closeCh, remoteID, dial, loop, connVars, readerVars,
                 timers, writer, mgr, oldMgr>>

\* Mutant of written: the send to the manager has no select.
writtenUnselected(w) ==
  /\ calls[w] = "reset" /\ calls' = [calls EXCEPT ![w] = "idle"]
  /\ stale' = stale \ {w}
  /\ \/ w \notin stale /\ mgr = "select" /\ mgr' = "reset" /\ UNCHANGED oldMgr
     \/ w \in stale /\ oldMgr = "select" /\ oldMgr' = "reset" /\ UNCHANGED mgr
  /\ UNCHANGED <<dir, wait, closeCh, remoteID, dial, loop, connVars, readerVars,
                 timers, writer>>

written(w) ==
  /\ calls[w] = "reset" /\ calls' = [calls EXCEPT ![w] = "idle"]
  /\ stale' = stale \ {w}
  /\ \/ (writer = "dead" \/ w \in stale) /\ UNCHANGED <<mgr, oldMgr>>
     \/ w \notin stale /\ mgr = "select" /\ mgr' = "reset" /\ UNCHANGED oldMgr
     \/ w \in stale /\ oldMgr = "select" /\ oldMgr' = "reset" /\ UNCHANGED mgr
  /\ UNCHANGED <<dir, wait, closeCh, remoteID, dial, loop, connVars, readerVars,
                 timers, writer>>

\* Mutant of resetTimer: the timer is not reset.
resetTimerSkipped == UNCHANGED ka

\* The manager resets the timer the FSM has by then, and exits once it
\* receives from closeKAManagerCh.
resetTimer == ka' = IF holdTime # 0 THEN "armed" ELSE ka

\* Mutant of kaManager: it never exits.
kaManagerForever ==
  /\ mgr = "reset" /\ mgr' = "select" /\ resetTimer
  /\ UNCHANGED <<dir, wait, closeCh, remoteID, dial, loop, connVars, readerVars,
                 hold, retry, holdTime, writer, oldMgr, calls, stale>>

kaManager ==
  /\ \/ mgr = "reset" /\ mgr' = "select" /\ resetTimer
     \/ mgr = "select" /\ writer = "dead" /\ mgr' = "none" /\ UNCHANGED ka
  /\ UNCHANGED <<dir, wait, closeCh, remoteID, dial, loop, connVars, readerVars,
                 hold, retry, holdTime, writer, oldMgr, calls, stale>>

oldKAManager ==
  /\ \/ oldMgr = "reset" /\ oldMgr' = "select" /\ resetTimer
     \/ oldMgr = "select" /\ oldMgr' = "none" /\ UNCHANGED ka
  /\ UNCHANGED <<dir, wait, closeCh, remoteID, dial, loop, connVars, readerVars,
                 hold, retry, holdTime, writer, mgr, calls, stale>>
-----------------------------------------------------------------------------
Run ==
  \/ runClose
  \/ cleanup
  \/ cleanupDone
  \/ errorClose
  \/ idle
  \/ connect
  \/ active
  \/ openSent
  \/ openConfirm
  \/ cleaned
  \/ OnEstablished
  \/ established
  \/ resetKATimer
  \/ closeSession

\* The goroutines other than the run loop are gone.
Alone ==
  /\ reader \in {"none", "done"} /\ dial # "dialing"
  /\ mgr = "none" /\ oldMgr = "none" /\ \A w \in Writers : calls[w] = "idle"

\* The FSM has exited, and nothing is left to run.
Exited == pc = "off" /\ Alone /\ UNCHANGED vars

Next ==
  \/ take \/ grant \/ report \/ stop
  \/ Run
  \/ dialer \/ read \/ readClosed
  \/ \E w \in Writers : WriteUpdate(w) \/ write(w) \/ written(w)
  \/ kaManager \/ oldKAManager
  \/ Exited

Spec == Init /\ [][Next]_vars

(* A case of a select that is ready again and again is taken (Go chooses   *)
(* at random), so closeCh is seen; goroutines blocked on a channel are     *)
(* served in their order, so that a call of WriteUpdate meets the manager; *)
(* every other goroutine that can step does.  A dialer returns once its    *)
(* context is cancelled.                                                   *)
SeesClose == Run /\ closeCh /\ (to' = disabledState \/ wait' \in {"cancel", "dial"})

Fairness ==
  /\ SF_vars(SeesClose)
  /\ SF_vars(resetKATimer)
  /\ WF_vars(Run /\ (wait # "none" \/ pc \in {"opening", "active"}))
  /\ WF_vars(dialer /\ wait \in {"cancel", "redial", "dial"})
  /\ WF_vars(read) /\ WF_vars(readClosed)
  /\ \A w \in Writers : WF_vars(write(w)) /\ SF_vars(written(w))
  /\ WF_vars(kaManager) /\ WF_vars(oldKAManager)

FairSpec == Spec /\ Fairness
-----------------------------------------------------------------------------
(* Properties.                                                             *)

\* The FSM behaves as its peer takes it to: every step is one of FSM, or
\* changes nothing the peer can tell (fsm.go:107-180).
At(x, y) == [i \in Dirs |-> IF i = dir THEN x ELSE y]
Loop == INSTANCE FSM WITH
          pc <- At(pc, "off"), from <- At(from, disabledState),
          to <- At(to, disabledState), err <- At(err, "nil"),
          fsmCloseCh <- IF closeCh THEN {dir} ELSE {},
          remoteID <- At(remoteID, 0), plugin <- At(plugin, "none")
ImplementsFSM == Loop!LoopSpec

\* The reader uses f.conn, which only the run loop assigns: f.conn is not nil
\* while the reader runs, nor is a connection left with its reader alive
\* (fsm.go:425-446).
ReaderHasConn ==
  /\ reader = "reading" => conn # "nil"
  /\ conn = "nil" => reader \in {"none", "done"}

\* Wherever the FSM waits for the remote, the hold timer runs, so that a
\* silent remote is noticed, and so that drainAndResetHoldTimer, which
\* blocks for good on a timer that was stopped, never does (fsm.go:531-536).
HoldRunning ==
  pc \in {"openSent", "openConfirm", "established"} => hold = "armed"

\* In a session the keepalive timer runs, unless somebody is about to reset
\* it: neither the run loop nor WriteUpdate nor a manager left over from an
\* earlier session leaves the session without KEEPALIVEs (fsm.go:797-828,
\* 853-858).
KeepaliveArmed ==
  pc = "established" => ka = "armed" \/ wait = "reset" \/ mgr = "reset"

\* An FSM that waits for a connection has a dial under way, whose result it
\* has not received yet, and a timer to try again (fsm.go:305-380, 383-410).
ConnectProgress ==
  /\ pc = "connect" /\ wait = "none" => dial \in {"dialing", "ok", "err"}
                                        /\ retry = "armed"
  /\ pc = "connect" /\ wait # "none" => dial \in {"dialing", "ok", "err"}
  /\ pc = "active" /\ conn = "nil" => retry = "armed"

\* What the FSM leaves behind it: without a state function that uses it, no
\* connection of the FSM's is open, and nothing reads (fsm.go:93-105, 425-439).
NothingLeft ==
  /\ pc \in {"off", "idle", "connect"} => conn # "open" /\ reader \in {"none", "done"}
  /\ pc = "error" /\ wait = "none" => conn = "nil" /\ reader = "done"
  /\ plugin # "up" /\ pc \notin {"openSent", "openConfirm", "opening", "offer", "await",
                                 "active"} => conn # "open"

\* A connection is forgotten, neither used nor closed, only by an FSM that is
\* told to stop as its dial succeeds: the race of the dial with the retry timer
\* loses none, nor does a new connection replace an open one (fsm.go:310-311,
\* 333-352, 369-377).
StrayOnlyOnStop == stray => closeCh

\* An FSM told to stop exits (fsm.go:186-191).
Exits == closeCh ~> pc = "off"

\* A call of WriteUpdate returns, whatever becomes of the session
\* (fsm.go:784-804).
WriteReturns == \A w \in Writers : calls[w] # "idle" ~> calls[w] = "idle"

\* No goroutine outlives its FSM for good.
GoroutinesEnd == pc = "off" ~> Alone

-----------------------------------------------------------------------------
(* What the comments and documents of the code promise.                    *)

\* A hold time of zero can be negotiated (peer_options.go:128-129, "Hold time
\* MUST be 0 or >= 3 seconds"): openConfirm finds a keepalive timer.
ZeroHoldHasTimer == pc = "openConfirm" => ka # "nil"

\* Disabled while it moves to a state with a connection, the FSM sends Cease
\* (fsm.go:142-143, "we were disabled while transitioning to a target state
\* with an active connection").
CeaseOnDisable ==
  [][runClose /\ conn = "open" /\ to > activeState => notified']_vars

\* WriteUpdate succeeds only in a session (plugin.go:49-51, "An error is
\* returned if the write fails and/or the FSM is no longer in an established
\* state").
WriteNeedsSession ==
  [][\A w \in Writers : calls[w] = "write" /\ calls'[w] = "reset" =>
                          pc = "established"]_vars
=============================================================================
