---------------------------- MODULE ServerProof -----------------------------
(***************************************************************************)
(* The server's safety properties for any number of addresses, listeners   *)
(* and callers.                                                            *)
(***************************************************************************)
EXTENDS Server, TLAPS

\* Who is in a critical section holds mu; where a run loop need not run, and
\* who sees to that.
Holders ==
  /\ spc = "stop" <=> mu = "serve"
  /\ \A l \in Listeners : lpc[l] = "deliver" <=> mu = l
  /\ \A c \in Callers : cpc[c] = "deleting" <=> mu = c

Stopping(a) == mu = "serve" \/ \E c \in Callers : mu = c /\ arg[c] = a

Loops ==
  /\ \A a \in Addrs : Live(a) => a \in peers /\ spc # "idle"
  /\ \A a \in peers : spc # "idle" => loop[a] # "off" /\ (loop[a] = "run" \/ Stopping(a))
  /\ \A c \in Callers : cpc[c] = "deleting" =>
       spc # "idle" /\ arg[c] \in peers /\ loop[arg[c]] # "run"

Accepting ==
  /\ \A l \in Listeners : lpc[l] # "off" => spc \in {"select", "wait"}
  /\ \A l \in Listeners : lpc[l] = "deliver" => conn[l] \in peers

\* The inductive invariant.
IInv ==
  /\ TypeOK
  /\ serving <=> spc # "idle"
  /\ spc # "idle" => done = "never"
  /\ Holders /\ Loops /\ Accepting

\* The server starts with nothing running.
LEMMA InitIInv == Init => IInv
<1> SUFFICES ASSUME Init PROVE IInv
  OBVIOUS
<1> USE ServerAssumption DEF Init
<1>1. TypeOK
  BY DEF TypeOK
<1>2. Holders
  BY DEF Holders
<1>3. Loops
  BY DEF Loops, Live
<1>4. Accepting
  BY DEF Accepting
<1> QED
  BY <1>1, <1>2, <1>3, <1>4 DEF IInv

\* Each step of Serve preserves IInv.
LEMMA ServeIInv ==
  ASSUME IInv, Serve \/ closeListeners \/ lisWGWait \/ served
  PROVE  IInv'
<1> USE ServerAssumption DEF IInv, serverVars, serveVars, lisVars, callVars
<1>1. CASE Serve
  <2>1. TypeOK'
    BY <1>1 DEF Serve, start, TypeOK
  <2>2. Holders'
    BY <1>1 DEF Serve, Holders, TypeOK
  <2>3. Loops'
    BY <1>1 DEF Serve, start, Loops, Holders, Stopping, Live, TypeOK
  <2>4. Accepting'
    BY <1>1 DEF Serve, Accepting, Holders, TypeOK
  <2> QED
    BY <1>1, <2>1, <2>2, <2>3, <2>4 DEF Serve
<1>2. CASE closeListeners
  <2>1. TypeOK'
    BY <1>2 DEF closeListeners, TypeOK
  <2>2. Holders'
    BY <1>2 DEF closeListeners, Holders, TypeOK
  <2>3. Loops'
    BY <1>2 DEF closeListeners, Loops, Stopping, Live
  <2>4. Accepting'
    BY <1>2 DEF closeListeners, Accepting, TypeOK
  <2> QED
    BY <1>2, <2>1, <2>2, <2>3, <2>4 DEF closeListeners
<1>3. CASE lisWGWait
  <2>1. TypeOK'
    BY <1>3 DEF lisWGWait, TypeOK
  <2>2. Holders'
    BY <1>3 DEF lisWGWait, Holders
  <2>3. Loops'
    BY <1>3 DEF lisWGWait, Loops, Stopping, Live
  <2>4. Accepting'
    BY <1>3 DEF lisWGWait, Accepting
  <2> QED
    BY <1>3, <2>1, <2>2, <2>3, <2>4 DEF lisWGWait
<1>4. CASE served
  <2>1. TypeOK'
    BY <1>4 DEF served, TypeOK
  <2>2. Holders'
    BY <1>4 DEF served, Holders
  <2>3. Loops'
    BY <1>4 DEF served, Loops, Holders, Stopping, Live, TypeOK
  <2>4. Accepting'
    BY <1>4 DEF served, Accepting
  <2> QED
    BY <1>4, <2>1, <2>2, <2>3, <2>4 DEF served
<1> QED
  BY <1>1, <1>2, <1>3, <1>4

\* A run loop that is told to stop, or exits, preserves IInv.
LEMMA PeersIInv ==
  ASSUME IInv, NEW a \in Addrs, stopPeer(a) \/ exits(a)
  PROVE  IInv'
<1> USE ServerAssumption DEF IInv, serverVars, serveVars, lisVars, callVars
<1>1. TypeOK'
  BY DEF stopPeer, exits, stop, TypeOK
<1>2. Holders' /\ Accepting'
  BY DEF stopPeer, exits, Holders, Accepting
<1>3. Loops'
  BY DEF stopPeer, exits, stop, Loops, Holders, Stopping, Live, TypeOK
<1> QED
  BY <1>1, <1>2, <1>3 DEF stopPeer, exits

\* Each step of an accept loop preserves IInv.
LEMMA ListenerIInv ==
  ASSUME IInv, NEW l \in Listeners,
         accept(l) \/ lisClosed(l) \/ handleInboundConn(l) \/ incomingConnection(l)
  PROVE  IInv'
<1> USE ServerAssumption DEF IInv, serverVars, serveVars, lisVars, callVars
<1>1. TypeOK'
  BY DEF accept, lisClosed, handleInboundConn, incomingConnection, TypeOK
<1>2. Holders'
  BY DEF accept, lisClosed, handleInboundConn, incomingConnection, Holders, TypeOK
<1>3. Loops'
  BY DEF accept, lisClosed, handleInboundConn, incomingConnection, Loops, Holders,
         Stopping, Live, TypeOK
<1>4. Accepting'
  BY DEF accept, lisClosed, handleInboundConn, incomingConnection, Accepting, TypeOK
<1> QED
  BY <1>1, <1>2, <1>3, <1>4
     DEF accept, lisClosed, handleInboundConn, incomingConnection

\* Each step of a caller preserves IInv.
LEMMA CallerIInv ==
  ASSUME IInv, NEW c \in Callers,
         call(c) \/ AddPeer(c) \/ DeletePeer(c) \/ deleted(c) \/ Close(c) \/ closeReturns(c)
  PROVE  IInv'
<1> USE ServerAssumption DEF IInv, serverVars, serveVars, lisVars, callVars
<1>1. CASE call(c) \/ Close(c) \/ closeReturns(c)
  <2>1. TypeOK'
    <3>1. CASE call(c)
      BY <3>1 DEF call, TypeOK
    <3>2. CASE Close(c)
      <4>1. cpc' \in [Callers -> {"idle", "add", "delete", "close", "deleting", "closing"}]
        BY <3>2 DEF Close, TypeOK
      <4>2. closed' \in BOOLEAN
        BY <3>2 DEF Close
      <4> QED
        BY <3>2, <4>1, <4>2 DEF Close, TypeOK
    <3>3. CASE closeReturns(c)
      BY <3>3 DEF closeReturns, TypeOK
    <3> QED
      BY <1>1, <3>1, <3>2, <3>3
  <2>2. Holders'
    BY <1>1 DEF call, Close, closeReturns, Holders, TypeOK
  <2>3. Loops'
    BY <1>1 DEF call, Close, closeReturns, Loops, Holders, Stopping, Live, TypeOK
  <2>4. Accepting'
    BY <1>1 DEF call, Close, closeReturns, Accepting
  <2> QED
    BY <1>1, <2>1, <2>2, <2>3, <2>4 DEF call, Close, closeReturns
<1>2. CASE AddPeer(c)
  <2>1. TypeOK'
    BY <1>2 DEF AddPeer, TypeOK
  <2>2. Holders'
    BY <1>2 DEF AddPeer, Holders, TypeOK
  <2>3. Loops'
    BY <1>2 DEF AddPeer, Loops, Holders, Stopping, Live, TypeOK
  <2>4. Accepting'
    BY <1>2 DEF AddPeer, Accepting
  <2> QED
    BY <1>2, <2>1, <2>2, <2>3, <2>4 DEF AddPeer
<1>3. CASE DeletePeer(c)
  <2>1. TypeOK'
    BY <1>3 DEF DeletePeer, stop, TypeOK
  <2>2. Holders'
    BY <1>3 DEF DeletePeer, Holders, TypeOK
  <2>3. Loops'
    BY <1>3 DEF DeletePeer, stop, Loops, Holders, Stopping, Live, TypeOK
  <2>4. Accepting'
    BY <1>3 DEF DeletePeer, Accepting, Holders, TypeOK
  <2> QED
    BY <1>3, <2>1, <2>2, <2>3, <2>4 DEF DeletePeer
<1>4. CASE deleted(c)
  <2>1. TypeOK'
    BY <1>4 DEF deleted, TypeOK
  <2>2. Holders'
    BY <1>4 DEF deleted, Holders, TypeOK
  <2>3. Loops'
    BY <1>4 DEF deleted, Loops, Holders, Stopping, Live, TypeOK
  <2>4. Accepting'
    BY <1>4 DEF deleted, Accepting, Holders, TypeOK
  <2> QED
    BY <1>4, <2>1, <2>2, <2>3, <2>4 DEF deleted
<1> QED
  BY <1>1, <1>2, <1>3, <1>4

\* Every step of the server preserves IInv.
LEMMA NextIInv == IInv /\ [Next]_vars => IInv'
<1> SUFFICES ASSUME IInv, [Next]_vars PROVE IInv'
  OBVIOUS
<1>1. CASE UNCHANGED vars
  BY <1>1 DEF vars, serverVars, serveVars, lisVars, callVars, IInv, TypeOK, Holders,
              Loops, Stopping, Accepting, Live
<1> QED
  BY <1>1, ServeIInv, PeersIInv, ListenerIInv, CallerIInv DEF Next

\* The relation of the mutex, the map of peers, their run loops and the
\* accept loops that IInv states (server.go:47-242).
THEOREM Invariant == Spec => []IInv
BY InitIInv, NextIInv, PTL DEF Spec

\* What the properties need of IInv.
LEMMA Consequences == IInv => TypeOK /\ NoOrphan /\ RunsWhileServing /\ DeliverAlive
<1> SUFFICES ASSUME IInv PROVE NoOrphan /\ RunsWhileServing /\ DeliverAlive
  BY DEF IInv
<1> USE ServerAssumption DEF IInv
<1>1. NoOrphan
  BY DEF NoOrphan, Loops
<1>2. RunsWhileServing
  BY DEF RunsWhileServing, Loops, Holders, Stopping, Accepting
<1>3. DeliverAlive
  BY DEF DeliverAlive, Loops, Holders, Stopping, Accepting
<1> QED
  BY <1>1, <1>2, <1>3

\* Types are kept; doneServingCh is never closed twice (server.go:76-85, 101).
THEOREM TypeCorrect == Spec => []TypeOK
BY Invariant, Consequences, PTL

\* No run loop survives its peer's deletion (server.go:229-242).
THEOREM Orphans == Spec => []NoOrphan
BY Invariant, Consequences, PTL

\* Peers run exactly while the server serves (server.go:74-103).
THEOREM Serving == Spec => []RunsWhileServing
BY Invariant, Consequences, PTL

\* Connections are only offered to peers that run (server.go:47-69).
THEOREM Delivery == Spec => []DeliverAlive
BY Invariant, Consequences, PTL
=============================================================================
