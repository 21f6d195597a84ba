------------------------------- MODULE Server -------------------------------
(***************************************************************************)
(* The server (server.go): Serve, the accept loops of its listeners, and   *)
(* goroutines that call AddPeer, DeletePeer and Close, all of which share  *)
(* the mutex mu.  A critical section in which nothing blocks is one step;  *)
(* mu is held from step to step while its holder waits for a peer.         *)
(*                                                                         *)
(* A peer is its address.  Of a peer's run loop only its life is modelled: *)
(* that it takes a connection, and that it exits when it is told to, is    *)
(* what module Peer shows (ConnTaken and StopReturns).                     *)
(*                                                                         *)
(* Serve is not called while a call of it is in progress, and the plugin's *)
(* callbacks do not call the server.                                       *)
(***************************************************************************)
CONSTANTS
  Addrs,              \* remote addresses
  WithLocalAddress,   \* those whose peer is configured with a local address
  Listeners, Callers

ASSUME ServerAssumption ==
  /\ WithLocalAddress \subseteq Addrs /\ "unknown" \notin Addrs
  /\ Listeners \cap Callers = {}
  /\ {"free", "serve"} \cap (Listeners \cup Callers) = {}

VARIABLES
  mu,         \* who holds s.mu, or "free"
  peers,      \* the keys of s.peers
  loop,       \* the run loop of the last peer added for an address
  serving,    \* s.serving
  done,       \* how often s.doneServingCh was closed
  closed,     \* s.closeCh is closed
  spc,        \* where Serve is
  closing,    \* closingListeners and the listeners are closed
  lpc, conn,  \* where the accept loop of a listener is, and whose connection it has
  cpc, arg    \* where a caller is, and the address it passes

serverVars == <<peers, serving, done, closed>>
serveVars == <<spc, closing>>
lisVars == <<lpc, conn>>
callVars == <<cpc, arg>>
vars == <<mu, loop, serverVars, serveVars, lisVars, callVars>>

TypeOK ==
  /\ mu \in {"free", "serve"} \cup Listeners \cup Callers
  /\ peers \subseteq Addrs
  /\ loop \in [Addrs -> {"off", "run", "stop", "done"}]
  /\ serving \in BOOLEAN /\ closed \in BOOLEAN /\ closing \in BOOLEAN
  /\ done \in {"never", "once"}
  /\ spc \in {"idle", "select", "wait", "stop"}
  /\ lpc \in [Listeners -> {"off", "accept", "handle", "deliver", "err"}]
  /\ conn \in [Listeners -> Addrs \cup {"unknown"}]
  /\ cpc \in [Callers -> {"idle", "add", "delete", "close", "deleting", "closing"}]
  /\ arg \in [Callers -> Addrs]

\* NewServer.
Init ==
  /\ mu = "free" /\ peers = {} /\ loop = [a \in Addrs |-> "off"]
  /\ serving = FALSE /\ done = "never" /\ closed = FALSE
  /\ spc = "idle" /\ closing = FALSE
  /\ lpc = [l \in Listeners |-> "off"] /\ conn = [l \in Listeners |-> "unknown"]
  /\ cpc = [c \in Callers |-> "idle"] /\ arg \in [Callers -> Addrs]
-----------------------------------------------------------------------------
(* Peers (module Peer).                                                    *)

start(S) == loop' = [a \in Addrs |-> IF a \in S THEN "run" ELSE loop[a]]

\* stop closes the peer's closeCh, then waits for doneCh.
stop(a) == loop' = [loop EXCEPT ![a] = IF @ = "run" THEN "stop" ELSE @]

exits(a) ==
  /\ loop[a] = "stop" /\ loop' = [loop EXCEPT ![a] = "done"]
  /\ UNCHANGED <<mu, serverVars, serveVars, lisVars, callVars>>
-----------------------------------------------------------------------------
(* Serve and the accept loops.                                             *)

\* Mutant of Serve: doneServingCh is not looked at.
ServeAgain ==
  /\ spc = "idle" /\ mu = "free" /\ ~closed
  /\ serving' = TRUE /\ start(peers)
  /\ lpc' = [l \in Listeners |-> "accept"] /\ closing' = FALSE
  /\ spc' = "select"
  /\ UNCHANGED <<mu, peers, done, closed, conn, callVars>>

\* A call after Close, or after an earlier call returned, has no effect.
Serve ==
  /\ spc = "idle" /\ mu = "free" /\ done = "never" /\ ~closed
  /\ serving' = TRUE /\ start(peers)
  /\ lpc' = [l \in Listeners |-> "accept"] /\ closing' = FALSE
  /\ spc' = "select"
  /\ UNCHANGED <<mu, peers, done, closed, conn, callVars>>

\* Close, or an error of a listener, which exits, ends the wait of Serve.
closeListeners ==
  /\ spc = "select" /\ spc' = "wait" /\ closing' = TRUE
  /\ \/ closed /\ UNCHANGED lpc
     \/ \E l \in Listeners : lpc[l] = "err" /\ lpc' = [lpc EXCEPT ![l] = "off"]
  /\ UNCHANGED <<mu, loop, serverVars, conn, callVars>>

\* Mutant of lisWGWait: Serve goes on while accept loops run.
lisWGSkipped ==
  /\ spc = "wait" /\ mu = "free"
  /\ spc' = "stop" /\ mu' = "serve"
  /\ UNCHANGED <<loop, serverVars, closing, lisVars, callVars>>

\* lisWG.Wait, and the lock of the deferred function.
lisWGWait ==
  /\ spc = "wait" /\ mu = "free" /\ \A l \in Listeners : lpc[l] = "off"
  /\ spc' = "stop" /\ mu' = "serve"
  /\ UNCHANGED <<loop, serverVars, closing, lisVars, callVars>>

\* The peers are stopped one after the other, in the map's order.
stopPeer(a) ==
  /\ spc = "stop" /\ a \in peers /\ loop[a] = "run"
  /\ \A b \in peers : loop[b] # "stop"
  /\ stop(a)
  /\ UNCHANGED <<mu, serverVars, serveVars, lisVars, callVars>>

\* Mutant of served: a peer that is told to stop is not waited for.
servedEarly ==
  /\ spc = "stop" /\ \A a \in peers : loop[a] # "run"
  /\ serving' = FALSE /\ done' = IF done = "never" THEN "once" ELSE "twice"
  /\ mu' = "free" /\ spc' = "idle"
  /\ UNCHANGED <<loop, peers, closed, closing, lisVars, callVars>>

served ==
  /\ spc = "stop" /\ \A a \in peers : loop[a] = "done"
  /\ serving' = FALSE /\ done' = IF done = "never" THEN "once" ELSE "twice"
  /\ mu' = "free" /\ spc' = "idle"
  /\ UNCHANGED <<loop, peers, closed, closing, lisVars, callVars>>

accept(l) ==
  /\ lpc[l] = "accept"
  /\ \/ /\ ~closing /\ lpc' = [lpc EXCEPT ![l] = "handle"]
        /\ \E a \in Addrs \cup {"unknown"} : conn' = [conn EXCEPT ![l] = a]
     \/ lpc' = [lpc EXCEPT ![l] = "err"] /\ UNCHANGED conn
  /\ UNCHANGED <<mu, loop, serverVars, serveVars, callVars>>

\* The case of the select on the error that lisErrCh is not received.
lisClosed(l) ==
  /\ lpc[l] = "err" /\ closing /\ lpc' = [lpc EXCEPT ![l] = "off"]
  /\ UNCHANGED <<mu, loop, serverVars, serveVars, conn, callVars>>

\* Mutant of handleInboundConn: the mutex is only held to look up the peer.
handleUnlocked(l) ==
  /\ lpc[l] = "handle" /\ mu = "free"
  /\ \/ /\ conn[l] \notin peers \/ conn[l] \in WithLocalAddress
        /\ lpc' = [lpc EXCEPT ![l] = "accept"] /\ UNCHANGED mu
     \/ conn[l] \in peers /\ lpc' = [lpc EXCEPT ![l] = "deliver"] /\ UNCHANGED mu
  /\ UNCHANGED <<loop, serverVars, serveVars, conn, callVars>>

\* A connection of no peer, or not to the peer's local address, is closed;
\* any other is offered to the peer, with mu held until it is taken.
handleInboundConn(l) ==
  /\ lpc[l] = "handle" /\ mu = "free"
  /\ \/ /\ conn[l] \notin peers \/ conn[l] \in WithLocalAddress
        /\ lpc' = [lpc EXCEPT ![l] = "accept"] /\ UNCHANGED mu
     \/ conn[l] \in peers /\ lpc' = [lpc EXCEPT ![l] = "deliver"] /\ mu' = l
  /\ UNCHANGED <<loop, serverVars, serveVars, conn, callVars>>

\* incomingConnection returns: the peer takes the connection, or is stopped.
incomingConnection(l) ==
  /\ lpc[l] = "deliver" /\ loop[conn[l]] # "off"
  /\ lpc' = [lpc EXCEPT ![l] = "accept"]
  /\ mu' = "free"
  /\ UNCHANGED <<loop, serverVars, serveVars, conn, callVars>>
-----------------------------------------------------------------------------
(* The callers.                                                            *)

call(c) ==
  /\ cpc[c] = "idle"
  /\ \E op \in {"add", "delete", "close"} : cpc' = [cpc EXCEPT ![c] = op]
  /\ \E a \in Addrs : arg' = [arg EXCEPT ![c] = a]
  /\ UNCHANGED <<mu, loop, serverVars, serveVars, lisVars>>

\* Mutant of AddPeer: a peer added to a running server is not started.
AddPeerUnstarted(c) ==
  /\ cpc[c] = "add" /\ mu = "free" /\ cpc' = [cpc EXCEPT ![c] = "idle"]
  /\ peers' = peers \cup {arg[c]}
  /\ loop' = IF arg[c] \in peers THEN loop ELSE [loop EXCEPT ![arg[c]] = "off"]
  /\ UNCHANGED <<mu, serving, done, closed, serveVars, lisVars, arg>>

\* A peer that exists is not added again.
AddPeer(c) ==
  /\ cpc[c] = "add" /\ mu = "free" /\ cpc' = [cpc EXCEPT ![c] = "idle"]
  /\ peers' = peers \cup {arg[c]}
  /\ loop' = IF arg[c] \in peers THEN loop
             ELSE [loop EXCEPT ![arg[c]] = IF serving THEN "run" ELSE "off"]
  /\ UNCHANGED <<mu, serving, done, closed, serveVars, lisVars, arg>>

\* Mutant of DeletePeer: the peer is deleted before it has stopped.
DeletePeerEarly(c) ==
  /\ cpc[c] = "delete" /\ mu = "free"
  /\ IF arg[c] \in peers /\ serving
     THEN /\ stop(arg[c]) /\ mu' = c /\ cpc' = [cpc EXCEPT ![c] = "deleting"]
          /\ peers' = peers \ {arg[c]}
     ELSE /\ peers' = peers \ {arg[c]} /\ cpc' = [cpc EXCEPT ![c] = "idle"]
          /\ UNCHANGED <<mu, loop>>
  /\ UNCHANGED <<serving, done, closed, serveVars, lisVars, arg>>

\* A running peer is stopped, with mu held, and then deleted.
DeletePeer(c) ==
  /\ cpc[c] = "delete" /\ mu = "free"
  /\ IF arg[c] \in peers /\ serving
     THEN /\ stop(arg[c]) /\ mu' = c /\ cpc' = [cpc EXCEPT ![c] = "deleting"]
          /\ UNCHANGED peers
     ELSE /\ peers' = peers \ {arg[c]} /\ cpc' = [cpc EXCEPT ![c] = "idle"]
          /\ UNCHANGED <<mu, loop>>
  /\ UNCHANGED <<serving, done, closed, serveVars, lisVars, arg>>

deleted(c) ==
  /\ cpc[c] = "deleting" /\ loop[arg[c]] = "done"
  /\ peers' = peers \ {arg[c]} /\ mu' = "free" /\ cpc' = [cpc EXCEPT ![c] = "idle"]
  /\ UNCHANGED <<loop, serving, done, closed, serveVars, lisVars, arg>>

\* Mutant of Close: it always waits for doneServingCh.
CloseWaits(c) ==
  /\ cpc[c] = "close" /\ mu = "free" /\ closed' = TRUE
  /\ cpc' = [cpc EXCEPT ![c] = "closing"]
  /\ UNCHANGED <<mu, loop, peers, serving, done, serveVars, lisVars, arg>>

\* Close waits for doneServingCh if the server serves.
Close(c) ==
  /\ cpc[c] = "close" /\ mu = "free" /\ closed' = TRUE
  /\ cpc' = [cpc EXCEPT ![c] = IF serving THEN "closing" ELSE "idle"]
  /\ UNCHANGED <<mu, loop, peers, serving, done, serveVars, lisVars, arg>>

closeReturns(c) ==
  /\ cpc[c] = "closing" /\ done # "never" /\ cpc' = [cpc EXCEPT ![c] = "idle"]
  /\ UNCHANGED <<mu, loop, serverVars, serveVars, lisVars, arg>>

Next ==
  \/ Serve \/ closeListeners \/ lisWGWait \/ served
  \/ \E a \in Addrs : stopPeer(a) \/ exits(a)
  \/ \E l \in Listeners : \/ accept(l) \/ lisClosed(l)
                          \/ handleInboundConn(l) \/ incomingConnection(l)
  \/ \E c \in Callers : \/ call(c) \/ AddPeer(c)
                        \/ DeletePeer(c) \/ deleted(c)
                        \/ Close(c) \/ closeReturns(c)

Spec == Init /\ [][Next]_vars

(* A goroutine that can step does; a sync.Mutex is handed over to the      *)
(* goroutine that waited longest, so no lock is starved.  Nobody need call *)
(* the server, and a listener need not accept unless it is closed.         *)
Fairness ==
  /\ WF_vars(closeListeners) /\ SF_vars(lisWGWait) /\ WF_vars(served)
  /\ \A a \in Addrs : WF_vars(stopPeer(a)) /\ WF_vars(exits(a))
  /\ \A l \in Listeners : /\ WF_vars(closing /\ accept(l)) /\ WF_vars(lisClosed(l))
                          /\ SF_vars(handleInboundConn(l)) /\ WF_vars(incomingConnection(l))
  /\ \A c \in Callers : /\ SF_vars(AddPeer(c)) /\ SF_vars(DeletePeer(c))
                        /\ WF_vars(deleted(c))
                        /\ SF_vars(Close(c)) /\ WF_vars(closeReturns(c))

FairSpec == Spec /\ Fairness
-----------------------------------------------------------------------------
(* Properties.                                                             *)

Live(a) == loop[a] \in {"run", "stop"}

\* A run loop that is alive belongs to a peer of the map: none survives
\* DeletePeer, or is replaced while it runs by a peer that AddPeer adds for
\* the same address (server.go:221-225, 237-240).
NoOrphan == \A a \in Addrs : Live(a) => a \in peers

\* The peers run exactly while the server serves: once serving, every peer
\* runs unless Serve or DeletePeer stops it, with mu held; and when Serve has
\* returned, so that Close may return, no peer and no accept loop is alive
\* (server.go:89-103, 222-224).
RunsWhileServing ==
  /\ \A a \in peers : serving /\ loop[a] # "run" => mu # "free"
  /\ ~serving => /\ \A a \in Addrs : ~Live(a)
                 /\ \A l \in Listeners : lpc[l] = "off"

\* incomingConnection is only called, with mu held, for a peer that runs: on
\* a peer that was never started it would block for ever (server.go:53-68).
DeliverAlive ==
  \A l \in Listeners : lpc[l] = "deliver" =>
    mu = l /\ serving /\ conn[l] \in peers /\ loop[conn[l]] = "run"

\* Every call of AddPeer, DeletePeer and Close returns (server.go:145-156,
\* 201-242).
CallsReturn == \A c \in Callers : cpc[c] # "idle" ~> cpc[c] = "idle"

\* After Close, or an error of a listener, Serve returns (server.go:71-73).
ServeReturns ==
  spc # "idle" /\ (closed \/ \E l \in Listeners : lpc[l] = "err") ~> spc = "idle"
=============================================================================
