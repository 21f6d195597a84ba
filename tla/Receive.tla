------------------------------ MODULE Receive -------------------------------
(***************************************************************************)
(* What becomes of one message that arrives: the header is checked by      *)
(* fsm.read, messageFromBytes (packet.go) looks at the type, and an OPEN   *)
(* goes the way of module Open, an UPDATE that of module Update.  The      *)
(* NOTIFICATION is encoded and decoded here.                               *)
(*                                                                         *)
(* Session has the goroutine that reads and what the FSM does with the     *)
(* result; here are the octets.                                            *)
(***************************************************************************)
EXTENDS Open

CONSTANTS
  Tuples, Updates, Garbled, PluginErrs,   \* of Update
  BadHeaders,                             \* headers of other senders
  Notifications, NotificationBodies       \* sent by this code, by others

VARIABLES
  upc, tuples, addPathIPv4, addPathIPv6, own_, sent, msg, rest, nlri, attrsSeen,
  calls, m, errs, notification,           \* of Update
  rpc,                                    \* "read", "open", "update", "notif", "done", "error"
  header,
  sentNotif, notifBody, notif,            \* a NOTIFICATION sent, its octets, and as decoded
  readErr                                 \* the error of the reader

U == INSTANCE Update WITH own <- own_

updateVars == <<upc, tuples, addPathIPv4, addPathIPv6, own_, sent, msg, rest, nlri,
                attrsSeen, calls, m, errs, notification>>
readVars == <<rpc, header, sentNotif, notifBody, notif, readErr>>
receiveVars == <<vars, updateVars, readVars>>

headerLength == 19
maxMessageLength == 4096
openMessageType == 1
updateMessageType == 2
notificationMessageType == 3
keepAliveMessageType == 4

NoNotif == [Code |-> 0, Subcode |-> 0, Data |-> <<>>]

\* One invariant for the types of all that a message passes through.
ReceiveTypeOK ==
  /\ TypeOK /\ U!TypeOK
  /\ rpc \in {"read", "open", "update", "notif", "done", "error"}
  /\ DOMAIN notif = DOMAIN NoNotif
  /\ readErr \in {"", "CONN_NOT_SYNCHRONIZED", "BAD_MESSAGE_LEN", "BAD_MESSAGE_TYPE", "too short"}
-----------------------------------------------------------------------------
\* What prependHeader puts in front of n octets.
prependHeader(n, t) ==
  [marker |-> TRUE, length |-> (n + headerLength) % 65536, type |-> t]

\* Mutant of notificationEncode: two octets of data are left out as well.
notificationEncodeCut(n) ==
  <<n.Code, n.Subcode>> \o (IF Len(n.Data) > 2 THEN n.Data ELSE <<>>)

\* Data of one octet is left out.
notificationEncode(n) ==
  <<n.Code, n.Subcode>> \o (IF Len(n.Data) > 1 THEN n.Data ELSE <<>>)

\* Nothing arrives for a decoder.
openIdle ==
  /\ pc = "done" /\ remoteAS = LocalAS /\ own = FALSE /\ given = <<>> /\ body = <<>>
  /\ b = <<>> /\ c = <<>> /\ params = <<>> /\ open = NoOpen /\ result = "nil"

updateIdle ==
  /\ upc = "done" /\ tuples = <<>> /\ own_ = FALSE /\ msg = <<>>
  /\ sent = [withdrawn |-> <<>>, attrs |-> <<>>, nlri |-> <<>>]
  /\ addPathIPv4 = FALSE /\ addPathIPv6 = FALSE
  /\ rest = <<>> /\ nlri = <<>> /\ attrsSeen = {} /\ calls = <<>>
  /\ m = U!emptyMessage /\ errs = <<>> /\ notification = <<>>

notifIdle == sentNotif = NoNotif /\ notifBody = <<>>

\* The fixed fields of an OPEN are ten octets.
ReceiveInit ==
  /\ rpc = "read" /\ notif = NoNotif /\ readErr = ""
  /\ \/ header \in BadHeaders /\ openIdle /\ updateIdle /\ notifIdle
     \/ header = prependHeader(0, keepAliveMessageType) /\ openIdle /\ updateIdle /\ notifIdle
     \/ /\ Init /\ updateIdle /\ notifIdle
        /\ header = prependHeader(10 + Len(body), openMessageType)
     \/ /\ U!Init /\ openIdle /\ notifIdle
        /\ header = prependHeader(Len(msg), updateMessageType)
     \/ /\ openIdle /\ updateIdle
        /\ \/ sentNotif \in Notifications /\ notifBody = notificationEncode(sentNotif)
           \/ sentNotif = NoNotif /\ notifBody \in NotificationBodies
        /\ header = prependHeader(Len(notifBody), notificationMessageType)

\* The header is checked, then the body is read and looked at by its type.
headerErr ==
  CASE ~header.marker -> "CONN_NOT_SYNCHRONIZED"
    [] header.marker /\ (header.length < headerLength \/ header.length > maxMessageLength) ->
         "BAD_MESSAGE_LEN"
    [] OTHER -> ""

messageFromBytes(t) ==
  CASE t = openMessageType -> rpc' = "open" /\ UNCHANGED readErr
    [] t = updateMessageType -> rpc' = "update" /\ UNCHANGED readErr
    [] t = notificationMessageType -> rpc' = "notif" /\ UNCHANGED readErr
    [] t = keepAliveMessageType -> rpc' = "done" /\ UNCHANGED readErr
    [] OTHER -> rpc' = "error" /\ readErr' = "BAD_MESSAGE_TYPE"

read ==
  /\ rpc = "read"
  /\ IF headerErr # "" THEN rpc' = "error" /\ readErr' = headerErr
     ELSE messageFromBytes(header.type)
  /\ UNCHANGED <<vars, updateVars, header, sentNotif, notifBody, notif>>

notificationDecode ==
  /\ rpc = "notif"
  /\ IF Len(notifBody) < 2
     THEN rpc' = "error" /\ readErr' = "too short" /\ UNCHANGED notif
     ELSE /\ rpc' = "done" /\ UNCHANGED readErr
          /\ notif' = [Code |-> notifBody[1], Subcode |-> notifBody[2],
                       Data |-> SubSeq(notifBody, 3, Len(notifBody))]
  /\ UNCHANGED <<vars, updateVars, header, sentNotif, notifBody>>

openStep == rpc = "open" /\ Next /\ UNCHANGED <<updateVars, readVars>>
updateStep == rpc = "update" /\ U!Next /\ UNCHANGED <<vars, readVars>>

\* The message has been dealt with.
Finished ==
  \/ rpc \in {"done", "error"}
  \/ rpc = "open" /\ pc = "done"
  \/ rpc = "update" /\ upc = "done"

Idle == Finished /\ UNCHANGED receiveVars

ReceiveNext == read \/ notificationDecode \/ openStep \/ updateStep \/ Idle

ReceiveSpec == ReceiveInit /\ [][ReceiveNext]_receiveVars
-----------------------------------------------------------------------------
(* Properties of the UPDATE, as Update states them.                        *)

\* What the remote means by an UPDATE is what the plugin has in the end.
UpdateUnderstood == U!Understood

\* Nothing behind octets that reset the session reaches the plugin.
ResetStops == U!ResetStops

\* Without a reset, all routes of an UPDATE are known.
RoutesKnown == U!RoutesKnown

\* Routes come with ORIGIN and AS_PATH, or with an error, if the message has
\* path attributes at all.
AttributedIfAny == U!AttributedIfAny

\* The same without that condition.
Attributed == U!Attributed

\* An AS_PATH without malformed segments is decoded.
ASPathDecoded == U!ASPathDecoded

\* The session is reset with the first of the most severe errors.
Severest == U!Severest

(* Properties of all messages.                                             *)

\* A NOTIFICATION of this code arrives as it was sent, if its data is not a
\* single octet (packet.go:187-217).
NotificationUnderstood ==
  rpc = "done" /\ header.type = notificationMessageType /\ sentNotif # NoNotif
    /\ Len(sentNotif.Data) # 1 => notif = sentNotif

\* How far a message has come: the stage, and what a loop has left.
stage ==
  CASE rpc = "read" -> 6
    [] rpc = "notif" -> 1
    [] rpc = "open" -> CASE pc = "decode" -> 3 [] pc \in {"params", "caps"} -> 2
                         [] pc = "validate" -> 1 [] OTHER -> 0
    [] rpc = "update" -> CASE upc = "open" -> 5 [] upc = "update" -> 4 [] upc = "attrs" -> 3
                           [] upc = "nlri" -> 2 [] upc = "return" -> 1 [] OTHER -> 0
    [] OTHER -> 0
left == Len(b) + Len(c) + Len(rest)

\* No octets keep a decoder for ever: every step comes closer to the end of the
\* message, whatever the lengths in it say, so that one of n octets takes no
\* more than n + 6 steps (packet.go:365-392, 482-502, update.go:1015-1070).
Shrinks ==
  [][stage' < stage \/ (stage' = stage /\ left' < left)]_receiveVars
=============================================================================
