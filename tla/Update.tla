------------------------------- MODULE Update -------------------------------
(***************************************************************************)
(* UpdateDecoder (update.go) and a plugin that uses it, the one of         *)
(* examples/features: what OnOpenMessage learns about add-path from the    *)
(* OPEN, and what handleUpdate makes of an UPDATE message, one step for    *)
(* each path attribute.  A behaviour is the receipt of one UPDATE: one     *)
(* that says what its sender means, or any other octets.                   *)
(***************************************************************************)
EXTENDS PathAttrs

CONSTANTS
  Tuples,      \* what remotes advertise for add-path
  Updates,     \* what remotes mean to say
  Garbled,     \* the octets of other messages
  PluginErrs   \* how a plugin takes an attribute it does not know

AFI_IPV4 == 1
AFI_IPV6 == 2
SAFI_UNICAST == 1

VARIABLES
  upc,           \* "open", "update", "attrs", "nlri", "return", "done"
  tuples,        \* advertised by the remote
  addPathIPv4, addPathIPv6,   \* of the plugin
  own, sent,     \* the message is an encoding of sent
  msg,           \* its octets
  rest,          \* the path attributes not looked at yet, b of decodePathAttrs
  nlri,          \* what follows the path attributes
  attrsSeen,
  calls,         \* the functions called so far, with the attribute code
  m,             \* the plugin's updateMessage
  errs,          \* the error joined so far
  notification   \* what handleUpdate or OnOpenMessage returned

openVars == <<tuples, own, sent, msg>>
uvars == <<upc, openVars, addPathIPv4, addPathIPv6, rest, nlri, attrsSeen,
           calls, m, errs, notification>>

\* The attributes whose value is kept as it is decoded.
Simple == {PATH_ATTR_ORIGIN, PATH_ATTR_AS_PATH, PATH_ATTR_NEXT_HOP, PATH_ATTR_MED,
           PATH_ATTR_LOCAL_PREF, PATH_ATTR_ATOMIC_AGGREGATE, PATH_ATTR_AGGREGATOR,
           PATH_ATTR_COMMUNITY, PATH_ATTR_ORIGINATOR_ID, PATH_ATTR_CLUSTER_LIST,
           PATH_ATTR_LARGE_COMMUNITY}

emptyMessage ==
  [withdrawn |-> <<>>, nlri |-> <<>>, ipv6Withdrawn |-> <<>>, ipv6NLRI |-> <<>>,
   ipv6NextHops |-> <<>>, attrs |-> <<>>]

nil == <<>>

TypeOK ==
  /\ upc \in {"open", "update", "attrs", "nlri", "return", "done"}
  /\ addPathIPv4 \in BOOLEAN /\ addPathIPv6 \in BOOLEAN /\ own \in BOOLEAN
  /\ \A s \in {msg, rest, nlri} : \A k \in DOMAIN s : s[k] \in 0..255
  /\ attrsSeen \subseteq 0..255
  /\ DOMAIN m = DOMAIN emptyMessage /\ \A k \in DOMAIN m.attrs : m.attrs[k].code \in Simple
  /\ \A k \in DOMAIN errs : errs[k].kind \in Kinds
  /\ Len(notification) <= 1
-----------------------------------------------------------------------------
(* The sender, which is not part of this code.                             *)

uint16(n) == <<n \div 256, n % 256>>

\* A route is sent with its identifier only where add-path was agreed on.
encodeRoutes(routes, addPath) ==
  FlattenSeq([k \in DOMAIN routes |->
    (IF addPath THEN routes[k].ID ELSE <<>>) \o <<routes[k].Prefix.bits>> \o
    upto(routes[k].Prefix.addr, (routes[k].Prefix.bits + 7) \div 8)])

encodeSegment(t, as) == IF as = <<>> THEN <<>> ELSE <<t, Len(as)>> \o FlattenSeq(as)

\* The value of attribute a: values of so many octets, those of an AS_SET, and
\* the routes of an address family.
encodeValue(a, addPath) ==
  CASE a.code = PATH_ATTR_AS_PATH -> encodeSegment(1, a.set) \o encodeSegment(2, a.val)
    [] a.code = PATH_ATTR_MP_REACH_NLRI ->
         uint16(a.afi) \o <<SAFI_UNICAST, Len(FlattenSeq(a.val))>> \o FlattenSeq(a.val)
         \o <<0>> \o encodeRoutes(a.routes, addPath)
    [] a.code = PATH_ATTR_MP_UNREACH_NLRI ->
         uint16(a.afi) \o <<SAFI_UNICAST>> \o encodeRoutes(a.routes, addPath)
    [] OTHER -> FlattenSeq(a.val)

\* An attribute is sent with the flags that belong to it, or with others.
encodeAttr(a, addPath) ==
  LET v == encodeValue(a, addPath)
  IN <<a.flags, a.code>> \o (IF ExtendedLen(a.flags) THEN uint16(Len(v)) ELSE <<Len(v)>>) \o v

encode(u, ipv4, ipv6) ==
  LET wr == encodeRoutes(u.withdrawn, ipv4)
      pa == FlattenSeq([k \in DOMAIN u.attrs |-> encodeAttr(u.attrs[k], ipv6)])
  IN uint16(Len(wr)) \o wr \o uint16(Len(pa)) \o pa \o encodeRoutes(u.nlri, ipv4)

\* The sender uses add-path where it says that it will.
advertised(afi) ==
  \E k \in DOMAIN tuples : tuples[k].AFI = afi /\ tuples[k].SAFI = SAFI_UNICAST /\ tuples[k].Tx

Init ==
  /\ upc = "open" /\ tuples \in Tuples
  /\ \/ own = TRUE /\ sent \in Updates
        /\ msg = encode(sent, advertised(AFI_IPV4), advertised(AFI_IPV6))
     \/ own = FALSE /\ sent = [withdrawn |-> <<>>, attrs |-> <<>>, nlri |-> <<>>]
        /\ msg \in Garbled
  /\ addPathIPv4 = FALSE /\ addPathIPv6 = FALSE
  /\ rest = <<>> /\ nlri = <<>> /\ attrsSeen = {} /\ calls = <<>>
  /\ m = emptyMessage /\ errs = nil /\ notification = nil
-----------------------------------------------------------------------------
(* The plugin.                                                             *)

\* OnOpenMessage, with add-path enabled and the capabilities of the remote.
\* Without tuples the remote has no such capability.
OnOpenMessage ==
  /\ upc = "open"
  /\ LET r == DecodeAddPathTuples(NewAddPathCapability(tuples))
         sends(afi) == \E k \in DOMAIN r.val : /\ r.val[k].AFI = afi
                                               /\ r.val[k].SAFI = SAFI_UNICAST /\ r.val[k].Tx
     IN IF tuples # <<>> /\ r.err # nil
        THEN upc' = "done" /\ notification' = r.err /\ UNCHANGED <<addPathIPv4, addPathIPv6>>
        ELSE /\ upc' = "update" /\ UNCHANGED notification
             /\ addPathIPv4' = (tuples # <<>> /\ sends(AFI_IPV4))
             /\ addPathIPv6' = (tuples # <<>> /\ sends(AFI_IPV6))
  /\ UNCHANGED <<openVars, rest, nlri, attrsSeen, calls, m, errs>>

\* The message and the error that a function leaves.
refused(e) == [msg |-> m, err |-> e]
accepted(msg1) == [msg |-> msg1, err |-> nil]

\* The closures given to NewMPReachNLRIDecodeFn and NewMPUnreachNLRIDecodeFn.
\* Only IPv6 unicast is looked at.
reachFn(r) ==
  LET nhs == DecodeMPReachIPv6NextHops(r.nh)
      routes == DecodeMPIPv6Prefixes(r.nlri, addPathIPv6)
  IN IF r.afi # AFI_IPV6 \/ r.safi # SAFI_UNICAST THEN accepted(m)
     ELSE IF nhs.err # nil THEN refused(nhs.err)
     ELSE IF routes.err # nil THEN refused(routes.err)
     ELSE accepted([m EXCEPT !.ipv6NLRI = routes.val, !.ipv6NextHops = nhs.val])

unreachFn(r) ==
  LET routes == DecodeMPIPv6Prefixes(r.withdrawn, addPathIPv6)
  IN IF r.afi # AFI_IPV6 \/ r.safi # SAFI_UNICAST THEN accepted(m)
     ELSE IF routes.err # nil THEN refused(routes.err)
     ELSE accepted([m EXCEPT !.ipv6Withdrawn = routes.val])

\* Mutant of joined: flags that do not fit make the octets uninteresting.
joinedFlagsOnly(me, r) == IF me # nil THEN refused(me) ELSE r

\* The error me of the flags is joined with what comes of the octets.
joined(me, r) == [r EXCEPT !.err = me \o @]

keep(code, r) ==
  IF r.err # nil THEN refused(r.err)
  ELSE accepted([m EXCEPT !.attrs = Append(@, [code |-> code, val |-> r.val])])

\* Of an AS_PATH, the sequence is kept.
sequence(r) == IF r.err # nil THEN r ELSE ok(r.val.ASSequence)

decodeAttr(code, flags, b) ==
  CASE code = PATH_ATTR_ORIGIN           -> OriginDecode(flags, b)
    [] code = PATH_ATTR_AS_PATH          -> sequence(ASPathDecode(flags, b))
    [] code = PATH_ATTR_NEXT_HOP         -> NextHopDecode(flags, b)
    [] code = PATH_ATTR_MED              -> MEDDecode(flags, b)
    [] code = PATH_ATTR_LOCAL_PREF       -> LocalPrefDecode(flags, b)
    [] code = PATH_ATTR_ATOMIC_AGGREGATE -> AtomicAggregateDecode(flags, b)
    [] code = PATH_ATTR_AGGREGATOR       -> AggregatorDecode(flags, b)
    [] code = PATH_ATTR_COMMUNITY        -> CommunitiesDecode(flags, b)
    [] code = PATH_ATTR_ORIGINATOR_ID    -> OriginatorIDDecode(flags, b)
    [] code = PATH_ATTR_CLUSTER_LIST     -> ClusterListDecode(flags, b)
    [] code = PATH_ATTR_LARGE_COMMUNITY  -> LargeCommunitiesDecode(flags, b)

\* The possible results of paFn.  The example leaves out the decoders of some
\* attributes, and ignores an attribute without a decoder; other plugins may
\* not.
paFn(code, flags, b) ==
  LET me == Validate(flags, code, TRUE, FALSE)
      reach == NewMPReachNLRIDecodeFn(b)
      unreach == NewMPUnreachNLRIDecodeFn(b)
  IN CASE code = PATH_ATTR_MP_REACH_NLRI ->
            {joined(me, IF reach.err # nil THEN refused(reach.err) ELSE reachFn(reach.val))}
       [] code = PATH_ATTR_MP_UNREACH_NLRI ->
            {joined(me, IF unreach.err # nil THEN refused(unreach.err) ELSE unreachFn(unreach.val))}
       [] code \in Simple -> {keep(code, decodeAttr(code, flags, b))}
       [] OTHER -> {refused(e) : e \in PluginErrs}
-----------------------------------------------------------------------------
(* UpdateDecoder.Decode.  A Notification ends it; other errors are joined  *)
(* and decoding goes on.                                                   *)

Call(fn, code) == calls' = Append(calls, [fn |-> fn, code |-> code])

\* Mutant of join: a Notification is not looked for among joined errors.
joinTopOnly(err, next) ==
  /\ errs' = errs \o err
  /\ upc' = IF Len(err) = 1 /\ isNotification(err) THEN "return" ELSE next

\* err is joined, and decoding goes on at next unless it is a Notification.
join(err, next) ==
  /\ errs' = errs \o err
  /\ upc' = IF isNotification(err) THEN "return" ELSE next

\* The lengths, and wrFn.  In the code wrl and wrl + 2 are uint16; a message
\* of fsm.read is too short for the sum to wrap.
Decode ==
  /\ upc = "update"
  /\ LET b == from(msg, 2)
         wrl == Uint16(msg)
         c == from(b, wrl + 2)
         pal == Uint16(from(b, wrl))
         r == NewWithdrawnRoutesDecodeFn(upto(b, wrl), addPathIPv4)
     IN IF Len(msg) < 4
        THEN join(Notification(""), "return") /\ UNCHANGED <<rest, nlri, calls, m>>
        ELSE IF Len(b) < wrl + 2 \/ Len(c) < pal
        THEN join(Notification("MALFORMED_ATTR_LIST"), "return") /\ UNCHANGED <<rest, nlri, calls, m>>
        ELSE /\ Call("wrFn", 0) /\ join(r.err, IF pal = 0 THEN "nlri" ELSE "attrs")
             /\ m' = [m EXCEPT !.withdrawn = r.val]
             /\ rest' = upto(c, pal) /\ nlri' = from(c, pal)
  /\ UNCHANGED <<openVars, addPathIPv4, addPathIPv6, attrsSeen, notification>>

totalAttrLenErr(code) == TreatAsWithdraw(code, "")

\* The header of the attribute at the front of b, and its length field.
headerLen(b) == IF ExtendedLen(b[1]) THEN 4 ELSE 3
attrLen(b) == IF ExtendedLen(b[1]) THEN Uint16(from(b, 2)) ELSE b[3]

\* The attribute is longer than what is left.
overrun(b) ==
  IF Len(b) < 2 THEN TRUE
  ELSE IF Len(b) < headerLen(b) THEN TRUE ELSE Len(b) < headerLen(b) + attrLen(b)

\* An iteration of the loop of decodePathAttrs.
decodePathAttr ==
  /\ upc = "attrs" /\ rest # <<>>
  /\ LET b == from(rest, headerLen(rest))
         attrType == rest[2]
     IN IF overrun(rest)
        THEN /\ join(totalAttrLenErr(IF Len(rest) < 2 THEN 0 ELSE rest[2]), "attrs")
             /\ rest' = <<>> /\ UNCHANGED <<attrsSeen, calls, m>>
        ELSE /\ rest' = from(b, attrLen(rest))
             /\ IF attrType \in attrsSeen
                THEN /\ join(IF attrType \in {PATH_ATTR_MP_REACH_NLRI, PATH_ATTR_MP_UNREACH_NLRI}
                             THEN Notification("MALFORMED_ATTR_LIST") ELSE nil, "attrs")
                     /\ UNCHANGED <<attrsSeen, calls, m>>
                ELSE /\ attrsSeen' = attrsSeen \cup {attrType}
                     /\ Call("paFn", attrType)
                     /\ \E r \in paFn(attrType, rest[1], upto(b, attrLen(rest))) :
                          m' = r.msg /\ join(r.err, "attrs")
  /\ UNCHANGED <<openVars, addPathIPv4, addPathIPv6, nlri, notification>>

\* Mutant of missing: one of the two is enough.
missingBoth ==
  IF attrsSeen \cap {PATH_ATTR_AS_PATH, PATH_ATTR_ORIGIN} = {}
  THEN {PATH_ATTR_AS_PATH, PATH_ATTR_ORIGIN} ELSE {}

\* What decodePathAttrs does after its loop: well-known attributes that a
\* message with routes must have.
missing == {PATH_ATTR_AS_PATH, PATH_ATTR_ORIGIN} \ attrsSeen

endPathAttrs ==
  /\ upc = "attrs" /\ rest = <<>>
  /\ join(IF (PATH_ATTR_MP_REACH_NLRI \in attrsSeen \/ nlri # <<>>) /\ missing # {}
          THEN TreatAsWithdraw(IF PATH_ATTR_ORIGIN \in missing THEN PATH_ATTR_ORIGIN
                               ELSE PATH_ATTR_AS_PATH, "MISSING_WELL_KNOWN_ATTR")
          ELSE nil, "nlri")
  /\ UNCHANGED <<openVars, addPathIPv4, addPathIPv6, rest, nlri, attrsSeen, calls, m, notification>>

nlriFn ==
  /\ upc = "nlri"
  /\ LET r == NewNLRIDecodeFn(nlri, addPathIPv4)
     IN join(r.err, "return") /\ m' = [m EXCEPT !.nlri = r.val]
  /\ Call("nlriFn", 0)
  /\ UNCHANGED <<openVars, addPathIPv4, addPathIPv6, rest, nlri, attrsSeen, notification>>

(* UpdateNotificationFromErr walks the tree of errors up to the first      *)
(* Notification, and remembers the first of each other kind.               *)

\* Mutant of remember: the last of a kind.
rememberLast(found, e) ==
  IF found["Notification"] # nil THEN found ELSE [found EXCEPT ![e.kind] = <<e>>]

remember(found, e) ==
  IF found["Notification"] # nil \/ found[e.kind] # nil THEN found
  ELSE [found EXCEPT ![e.kind] = <<e>>]

UpdateNotificationFromErr(err) ==
  LET found == FoldLeft(remember, [k \in Kinds |-> nil], err)
  IN IF err = nil THEN nil
     ELSE IF found["Notification"] # nil THEN found["Notification"]
     ELSE IF found["TreatAsWithdraw"] # nil THEN found["TreatAsWithdraw"]
     ELSE IF found["AttrDiscard"] # nil THEN found["AttrDiscard"]
     ELSE IF found["UpdateError"] # nil THEN found["UpdateError"]
     ELSE plainError

handleUpdate ==
  /\ upc = "return" /\ upc' = "done"
  /\ notification' = UpdateNotificationFromErr(errs)
  /\ UNCHANGED <<openVars, addPathIPv4, addPathIPv6, rest, nlri, attrsSeen, calls, m, errs>>

Next == OnOpenMessage \/ Decode \/ decodePathAttr \/ endPathAttrs \/ nlriFn \/ handleUpdate

Spec == Init /\ [][Next]_uvars
-----------------------------------------------------------------------------
(* Properties.                                                             *)

\* The message was decoded, and nothing asks for a reset of the session.
Decoded == upc = "done" /\ calls # <<>> /\ ~isNotification(errs)

\* Once a Notification is among the errors, no function of the plugin is called
\* any more and its message stays as it is: what a plugin installs is never
\* changed by octets behind those that reset the session (update.go:1061-1067,
\* 1140-1164).
ResetStops == [][isNotification(errs) => UNCHANGED <<calls, m>>]_uvars

wrLen == Uint16(msg)
paLen == Uint16(from(msg, 2 + wrLen))

\* Where treat-as-withdraw or attribute discard is enough, or there is no
\* error, every route of the message is known: both fields of routes, found by
\* the lengths in front whatever the attributes look like, have been decoded
\* to the last octet, and so have the routes of an MP_REACH_NLRI that was
\* reached, even if its flags are wrong (update.go:890-905, 986-989, 1131-1166).
RoutesKnown ==
  Decoded =>
    /\ encodeRoutes(m.withdrawn, TRUE) = SubSeq(msg, 3, 2 + wrLen)
    /\ encodeRoutes(m.nlri, TRUE) = from(msg, 4 + wrLen + paLen)
    /\ \A k \in DOMAIN sent.attrs :
         /\ sent.attrs[k].code = PATH_ATTR_MP_REACH_NLRI /\ sent.attrs[k].afi = AFI_IPV6
         /\ PATH_ATTR_MP_REACH_NLRI \in attrsSeen
         => encodeRoutes(m.ipv6NLRI, TRUE) = encodeRoutes(sent.attrs[k].routes, addPathIPv6)

Value(code) == SelectSeq(m.attrs, LAMBDA a : a.code = code)

\* Routes without ORIGIN and AS_PATH, and no error that says so.
Unattributed ==
  /\ Decoded /\ errs = nil /\ (m.nlri # <<>> \/ m.ipv6NLRI # <<>>)
  /\ \E code \in {PATH_ATTR_ORIGIN, PATH_ATTR_AS_PATH} : Value(code) = <<>>

\* However the path attributes of a message end, if it has any: routes come
\* with ORIGIN and AS_PATH or with an error (update.go:1013-1036, 1071-1098).
AttributedIfAny == Unattributed => paLen = 0

\* update.go:1073-1074, "If any of the well-known mandatory attributes are not
\* present in an UPDATE message, then "treat-as-withdraw" MUST be used".
Attributed == ~Unattributed

severity(e) ==
  CASE e.kind = "Notification" -> 4 [] e.kind = "TreatAsWithdraw" -> 3
    [] e.kind = "AttrDiscard" -> 2  [] e.kind = "UpdateError" -> 1 [] OTHER -> 0

\* The session is reset with the first of the most severe errors, and without
\* an error it is not reset (update.go:64-74).
Severest ==
  upc = "done" /\ calls # <<>> =>
    IF errs = nil THEN notification = nil
    ELSE \E k \in DOMAIN errs :
           /\ notification = <<errs[k]>>
           /\ \A j \in DOMAIN errs :
                \/ severity(errs[j]) < severity(errs[k])
                \/ severity(errs[j]) = severity(errs[k]) /\ k <= j
-----------------------------------------------------------------------------
(* A message that its sender means well.                                   *)

codes(u) == {u.attrs[k].code : k \in DOMAIN u.attrs}
first(u, code) ==
  u.attrs[CHOOSE k \in DOMAIN u.attrs : /\ u.attrs[k].code = code
                                        /\ \A j \in 1 .. k-1 : u.attrs[j].code # code]

\* The flags of an attribute are those its decoder asks for.  It asks for an
\* optional ATOMIC_AGGREGATE, which in RFC 4271 is well-known (update.go:529).
flagsFit(a) ==
  LET optional == a.code \notin {PATH_ATTR_ORIGIN, PATH_ATTR_AS_PATH, PATH_ATTR_NEXT_HOP,
                                 PATH_ATTR_LOCAL_PREF}
      transitive == a.code \notin {PATH_ATTR_MED, PATH_ATTR_ORIGINATOR_ID,
                                   PATH_ATTR_CLUSTER_LIST, PATH_ATTR_MP_REACH_NLRI,
                                   PATH_ATTR_MP_UNREACH_NLRI}
  IN Optional(a.flags) = optional /\ Transitive(a.flags) = transitive

\* A path segment whose octets an octet can count.
segmentFits(as) == Len(as) < 64

hasRoutes(u) == u.nlri # <<>> \/ PATH_ATTR_MP_REACH_NLRI \in codes(u)

WellMeant(u) ==
  /\ \A k \in DOMAIN u.attrs :
       LET a == u.attrs[k]
       IN /\ flagsFit(a)
          /\ a.code = PATH_ATTR_AS_PATH =>
               a.set \o a.val # <<>> /\ segmentFits(a.set) /\ segmentFits(a.val)
          /\ a.code \in {PATH_ATTR_MP_REACH_NLRI, PATH_ATTR_MP_UNREACH_NLRI} =>
               \A j \in DOMAIN u.attrs \ {k} : u.attrs[j].code # a.code
  /\ hasRoutes(u) => {PATH_ATTR_ORIGIN, PATH_ATTR_AS_PATH} \subseteq codes(u)

\* Routes as the plugin keeps them.
said(routes, addPath) ==
  IF addPath THEN routes ELSE [k \in DOMAIN routes |-> [routes[k] EXCEPT !.ID = <<>>]]

\* The attribute with this code is there and is for IPv6.
ipv6(u, code) == IF code \in codes(u) THEN first(u, code).afi = AFI_IPV6 ELSE FALSE
mpRoutes(u, code) == IF ipv6(u, code) THEN said(first(u, code).routes, addPathIPv6) ELSE <<>>

\* The plugin itself asks for a reset.
pluginResets ==
  \E e \in PluginErrs : isNotification(e) /\ \E k \in DOMAIN errs : <<errs[k]>> = e

\* What the remote means to say is what the plugin has in the end, and without
\* an error but the plugin's own: the routes of both families, with their
\* identifiers where the remote said it uses add-path, and each attribute by
\* its first occurrence (update.go:1013-1069, 1131-1166, packet.go:79-154).
Understood ==
  upc = "done" /\ calls # <<>> /\ own /\ WellMeant(sent) /\ ~pluginResets =>
    /\ \A k \in DOMAIN errs : errs[k].kind \in {"UpdateError", "error"}
    /\ m.withdrawn = said(sent.withdrawn, addPathIPv4)
    /\ m.nlri = said(sent.nlri, addPathIPv4)
    /\ m.ipv6Withdrawn = mpRoutes(sent, PATH_ATTR_MP_UNREACH_NLRI)
    /\ m.ipv6NLRI = mpRoutes(sent, PATH_ATTR_MP_REACH_NLRI)
    /\ ipv6(sent, PATH_ATTR_MP_REACH_NLRI) =>
         m.ipv6NextHops = first(sent, PATH_ATTR_MP_REACH_NLRI).val
    /\ \A code \in Simple :
         IF code \in codes(sent)
         THEN Value(code) = <<[code |-> code, val |-> first(sent, code).val]>>
         ELSE Value(code) = <<>>

\* update.go:320-333, where a segment is malformed if it overruns the attribute
\* or its length is zero, or its type is not known: an AS_PATH of other segments
\* is decoded.
ASPathDecoded ==
  upc = "done" /\ own =>
    \A k \in DOMAIN errs : errs[k].subcode = "MALFORMED_AS_PATH" =>
      first(sent, PATH_ATTR_AS_PATH).set \o first(sent, PATH_ATTR_AS_PATH).val = <<>>
=============================================================================
