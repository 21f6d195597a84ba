----------------------------- MODULE MCReceive ------------------------------
EXTENDS Receive

CONSTANT Alphabet   \* the octets that other senders of an OPEN use

\* OPEN: all optional parameters whose length fits into an octet, and two that
\* are too long.
MCBodies ==
  SeqOf(Alphabet, W - 1) \cup
  {<<capabilityOptionalParamType, n>> \o [k \in 1..W |-> 0] : n \in {W - 2, W - 1}}

\* Up to two capabilities of up to two octets, and one that is too long.
MCGiven ==
  LET caps == [Code : {1, CAP_FOUR_OCTET_AS}, Value : SeqOf({0, 1}, 2)]
  IN SeqOf(caps, 2) \cup {<<[Code |-> 1, Value |-> [k \in 1..W |-> 0]]>>}
-----------------------------------------------------------------------------
(* UPDATE.                                                                 *)

route(id, bits, addr) ==
  [ID |-> <<0, 0, 0, id>>, Prefix |-> [bits |-> bits, addr |-> addr]]
zeros(n) == [k \in 1..n |-> 0]

IPv4Routes == {route(1, 9, <<10, 128, 0, 0>>), route(2, 0, zeros(4))}
IPv6Routes == {route(1, 17, <<32, 1, 128>> \o zeros(13)), route(2, 128, [k \in 1..16 |-> k])}

attr(code, flags, val) ==
  [code |-> code, flags |-> flags, val |-> val, set |-> <<>>, afi |-> 0, routes |-> <<>>]
asPath(set, seq) == [attr(2, 64, seq) EXCEPT !.set = set]
mp(code, flags, afi, nhs, routes) ==
  [attr(code, flags, nhs) EXCEPT !.afi = afi, !.routes = routes]

AS == <<0, 0, 253, 234>>
NextHop6 == [k \in 1..16 |-> 17 - k]

\* Each attribute once or twice, with flags that fit and with others.
Well ==
  {attr(1, 64, <<<<0>>>>), attr(1, 80, <<<<2>>>>), asPath(<<>>, <<AS>>),
   asPath(<<AS, <<0, 0, 0, 1>>>>, <<AS, AS>>), asPath(<<>>, [k \in 1..63 |-> AS]),
   attr(3, 64, <<<<192, 0, 2, 1>>>>),
   attr(4, 128, <<<<0, 0, 0, 9>>>>), attr(5, 64, <<<<0, 0, 0, 5>>>>), attr(6, 192, <<<<>>>>),
   attr(7, 192, <<<<0, 0, 0, 1, 10, 0, 0, 1>>>>), attr(8, 192, <<AS, <<1, 2, 3, 4>>>>),
   attr(9, 128, <<<<10, 0, 0, 2>>>>), attr(10, 128, <<<<10, 0, 0, 3>>>>),
   attr(32, 192, <<zeros(12), [k \in 1..12 |-> k]>>), attr(99, 192, <<<<7>>>>),
   mp(14, 128, 1, <<NextHop6>>, <<>>)} \cup
  {mp(14, 144, 2, nhs, <<r>>) : r \in IPv6Routes, nhs \in {<<NextHop6>>, <<NextHop6, NextHop6>>}} \cup
  {mp(15, 128, 2, <<>>, <<r>>) : r \in IPv6Routes}
Flagged ==
  {attr(1, 192, <<<<0>>>>), [asPath(<<>>, <<AS>>) EXCEPT !.flags = 0]} \cup
  {mp(14, 192, 2, <<NextHop6>>, <<r>>) : r \in IPv6Routes}

\* Those that are tried in pairs.
Few == {a \in Well : a.code \in {1, 4, 14, 15, 99}}

Mandatory == <<attr(1, 64, <<<<1>>>>), asPath(<<>>, <<AS>>)>>

MCUpdates ==
  [withdrawn : SeqOf(IPv4Routes, 1), nlri : SeqOf(IPv4Routes, 1),
   attrs : SeqOf(Well \cup Flagged, 1) \cup {Mandatory \o <<a>> : a \in Well}
           \cup {Mandatory \o <<a1, a2>> : a1 \in Few, a2 \in Few}
           \cup {<<a>> \o Mandatory : a \in Flagged}]

\* An AS_PATH whose sequence has more octets than an octet can count.
LongUpdates ==
  [withdrawn : {<<>>}, nlri : {<<route(1, 8, <<10, 0, 0, 0>>)>>},
   attrs : {<<attr(1, 64, <<<<0>>>>), [asPath(<<>>, [k \in 1..64 |-> AS]) EXCEPT !.flags = 80]>>}]
NoAttrUpdates == [withdrawn : {<<>>}, nlri : SeqOf(IPv4Routes, 2), attrs : {<<>>}]

\* Attributes that a decoder refuses, as octets; a path segment of each
\* malformed kind; the longest next hop.
octetsOf(code, flags, v) ==
  <<flags, code>> \o (IF flags = 144 THEN U!uint16(Len(v)) ELSE <<Len(v)>>) \o v
Malformed ==
  {octetsOf(code, 64, <<3>>) : code \in {1, 3, 5}} \cup
  {octetsOf(code, 128, zeros(5)) : code \in {4, 9, 10, 14, 15}} \cup
  {octetsOf(code, 192, zeros(5)) : code \in {6, 7, 8, 32}} \cup
  {octetsOf(code, 128, <<0, 2, 1, 16, 0>>) : code \in {14, 15}} \cup
  {octetsOf(14, 128, <<0, 2, 1, 5>> \o zeros(6)), octetsOf(14, 144, <<0, 2, 1, 255>> \o zeros(256)),
   octetsOf(15, 128, <<0, 2, 1, 129>>),
   octetsOf(15, 192, <<0, 2, 1, 129>>), octetsOf(1, 64, <<0, 0>>)} \cup
  {octetsOf(2, 64, v) : v \in {<<>>, <<2, 0, 0, 0, 0, 1>>, <<2, 2, 0, 0, 0, 1>>, <<3, 1>> \o AS,
                               <<2, 1>> \o AS \o <<2, 1>>, <<2, 1>> \o AS \o <<2>>}}

\* One for each kind of error.
Worst == {octetsOf(1, 64, <<3>>), octetsOf(7, 192, zeros(5)), octetsOf(14, 128, zeros(5)),
          octetsOf(99, 192, <<>>)}

\* Messages with such attributes, with routes and without, and messages with
\* an octet changed or cut off, so that lengths are wrong; messages as long as
\* the reader takes them, and longer.
MCGarbled ==
  LET mandatory == octetsOf(1, 64, <<1>>) \o octetsOf(2, 64, <<2, 1>> \o AS)
      pas == Malformed \cup {a1 \o a2 : a1 \in Malformed, a2 \in Worst}
             \cup {mandatory \o a : a \in Malformed}
      fine == U!encode([withdrawn |-> <<route(1, 9, <<10, 128, 0, 0>>)>>,
                        attrs |-> Mandatory \o <<attr(4, 144, <<<<0, 0, 0, 9>>>>)>>,
                        nlri |-> <<route(2, 24, <<10, 1, 2, 0>>)>>], FALSE, FALSE)
  IN {<<0, 0>> \o U!uint16(Len(pa)) \o pa \o r : pa \in pas, r \in {<<>>, <<8, 10>>}} \cup
     SeqOf({0, 1}, 4) \cup
     {[fine EXCEPT ![k] = n] : k \in DOMAIN fine, n \in {0, 1, 2, 16, 33, 255}} \cup
     {SubSeq(fine, 1, n) : n \in DOMAIN fine} \cup
     {<<0, 0>> \o U!uint16(n) \o <<208, 99>> \o U!uint16(n - 4) \o zeros(n - 4) : n \in {4073, 4074}}

both == [AFI |-> 1, SAFI |-> 1, Tx |-> TRUE, Rx |-> TRUE]
MCTuples ==
  {<<>>, <<both>>, <<[both EXCEPT !.Tx = FALSE], [both EXCEPT !.AFI = 2]>>,
   <<[both EXCEPT !.Rx = FALSE, !.AFI = 2], [both EXCEPT !.Rx = FALSE]>>,
   <<[both EXCEPT !.SAFI = 2]>>, <<[both EXCEPT !.Tx = FALSE, !.Rx = FALSE]>>}

MCPluginErrs ==
  {<<>>, <<[kind |-> "error", code |-> 0, subcode |-> ""]>>} \cup
  {<<[kind |-> k, code |-> 99, subcode |-> ""]>> : k \in {"UpdateError", "Notification"}}
-----------------------------------------------------------------------------
MCBadHeaders ==
  [marker : BOOLEAN, length : {0, 18, 19, 4096, 4097, 65535}, type : {0, 5}]

MCNotifications == [Code : {2, 6}, Subcode : {0, 7}, Data : SeqOf({0, 4}, 3)]
MCNotificationBodies == SeqOf({0, 3, 6}, 3)
=============================================================================
