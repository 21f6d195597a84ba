------------------------------- MODULE Plugin -------------------------------
(***************************************************************************)
(* What a peer promises to its Plugin (plugin.go): the order in which the  *)
(* callbacks of one peer are fired.  A peer owns up to two FSMs, one per   *)
(* direction, each on a goroutine of its own; plugin[i] is the last        *)
(* callback FSM i has fired, and returned is set once peer.stop() has      *)
(* returned to its caller.  The promise: on every connection the callbacks *)
(* come in the order GetCapabilities, OnOpenMessage, OnEstablished,        *)
(* OnClose; between an OnEstablished and its OnClose no other callback of  *)
(* this peer is fired for the other direction; nothing is fired after      *)
(* stop() returned, and stop() never returns with a session left open.     *)
(***************************************************************************)
CONSTANT Dirs

VARIABLES plugin, returned

vars == <<plugin, returned>>

Stages == {"none", "caps", "open", "up"}

TypeOK == plugin \in [Dirs -> Stages] /\ returned \in BOOLEAN

NoSession == \A i \in Dirs : plugin[i] # "up"

Init == plugin = [i \in Dirs |-> "none"] /\ returned = FALSE

Fire(i, stage) ==
  /\ ~returned
  /\ plugin' = [plugin EXCEPT ![i] = stage]
  /\ UNCHANGED returned

GetCapabilities(i) == NoSession /\ Fire(i, "caps")

OnOpenMessage(i) == NoSession /\ plugin[i] = "caps" /\ Fire(i, "open")

OnEstablished(i) == NoSession /\ plugin[i] = "open" /\ Fire(i, "up")

OnClose(i) == plugin[i] = "up" /\ Fire(i, "none")

\* The connection is given up before a session; the next one starts over.
Drop(i) == plugin[i] \in {"caps", "open"} /\ Fire(i, "none")

Return == NoSession /\ ~returned /\ returned' = TRUE /\ UNCHANGED plugin

Next ==
  \/ \E i \in Dirs : \/ GetCapabilities(i)
                     \/ OnOpenMessage(i)
                     \/ OnEstablished(i)
                     \/ OnClose(i)
                     \/ Drop(i)
  \/ Return

Spec == Init /\ [][Next]_vars
=============================================================================
