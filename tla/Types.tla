-------------------------------- MODULE Types --------------------------------
(***************************************************************************)
(* The directions, states and error classes that the modules share.        *)
(***************************************************************************)
EXTENDS Naturals

out == "out"
in == "in"
Dirs == {out, in}
other(i) == IF i = out THEN in ELSE out

disabledState == 0
idleState == 1
connectState == 2
activeState == 3
openSentState == 4
openConfirmState == 5
establishedState == 6
States == 0..6

\* What the peer tells apart in an error: a notificationError damps the peer
\* unless its code is Cease, any other error does not.
Errors == {"nil", "damping", "benign"}
dampPeer(e) == e = "damping"
==============================================================================
