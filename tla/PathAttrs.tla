----------------------------- MODULE PathAttrs ------------------------------
(***************************************************************************)
(* The decoders of the fields of an UPDATE message (update.go): prefixes,  *)
(* path attributes, MP_REACH_NLRI and MP_UNREACH_NLRI, and the add-path    *)
(* tuples of an OPEN (packet.go).  They are pure: octets in, a value and   *)
(* the errors out.                                                         *)
(*                                                                         *)
(* Octets are numbers below 256, slices are sequences of octets.  A uint32 *)
(* and an address are the octets they are read from.                       *)
(***************************************************************************)
EXTENDS Integers, SequencesExt

uint8(n) == n % 256
Uint16(b) == 256 * b[1] + b[2]

\* b[i:] and b[:n] of Go.
from(b, i) == SubSeq(b, i + 1, Len(b))
upto(b, n) == SubSeq(b, 1, n)

\* b in pieces of n octets, n being a divisor of its length.
pieces(b, n) == [k \in 1 .. Len(b) \div n |-> SubSeq(b, n * (k - 1) + 1, n * k)]
-----------------------------------------------------------------------------
(* Errors.  errors.Join makes a tree whose inner nodes say nothing: an     *)
(* error is the sequence of its leaves, nil the empty one.  Of the         *)
(* NOTIFICATION that a leaf is, or holds, the subcode is kept.             *)

Kinds == {"Notification", "TreatAsWithdraw", "AttrDiscard", "UpdateError", "error"}

Notification(subcode) == <<[kind |-> "Notification", code |-> 0, subcode |-> subcode]>>
TreatAsWithdraw(code, subcode) ==
  <<[kind |-> "TreatAsWithdraw", code |-> code, subcode |-> subcode]>>
AttrDiscard(code, subcode) ==
  <<[kind |-> "AttrDiscard", code |-> code, subcode |-> subcode]>>

plainError == <<[kind |-> "error", code |-> 0, subcode |-> ""]>>

\* errors.As(err, &notif).
isNotification(err) == \E k \in DOMAIN err : err[k].kind = "Notification"

\* What a decoder returns.
ok(v) == [val |-> v, err |-> <<>>]
fail(e) == [val |-> <<>>, err |-> e]
-----------------------------------------------------------------------------
(* Prefixes.  The length octet of a prefix counts bits.                    *)

\* Mutant of octetsOf: bits that do not fill an octet are not counted.
octetsOfWhole(bl) == bl \div 8

octetsOf(bl) == uint8(bl + 7) \div 8

\* The prefix at the front of b is refused (that it has more than 4 or 16
\* octets, which the code also asks, is excluded by the number of bits).
badPrefix(b, ipv6) ==
  \/ b[1] > IF ipv6 THEN 128 ELSE 32
  \/ Len(b) - 1 < octetsOf(b[1])

\* The address is filled up with zeros.
prefix(b, ipv6) ==
  LET n == octetsOf(b[1])
  IN [bits |-> b[1],
      addr |-> [k \in 1 .. IF ipv6 THEN 16 ELSE 4 |-> IF k <= n THEN b[k + 1] ELSE 0]]

\* The loop over prefixes, each with an identifier of idLen octets in front.
decode(b, idLen, ipv6) ==
  LET walk[i \in 0 .. Len(b)] ==
        LET p == from(b, i + idLen)
        IN IF i = Len(b) THEN ok(<<>>)
           ELSE IF Len(b) - i <= idLen \/ badPrefix(p, ipv6) THEN fail(plainError)
           ELSE LET rest == walk[i + idLen + 1 + octetsOf(p[1])]
                IN IF rest.err # <<>> THEN rest
                   ELSE ok(<<[ID |-> SubSeq(b, i + 1, i + idLen),
                              Prefix |-> prefix(p, ipv6)]>> \o rest.val)
  IN walk[0]

decodePrefixes(b, ipv6) == decode(b, 0, ipv6)
decodeAddPathPrefixes(b, ipv6) == decode(b, 4, ipv6)

\* The DecodeFns: a field that cannot be decoded resets the session.
prefixes(b, ipv6, addPath, subcode) ==
  LET r == IF addPath THEN decodeAddPathPrefixes(b, ipv6) ELSE decodePrefixes(b, ipv6)
  IN IF r.err # <<>> THEN fail(Notification(subcode)) ELSE r

NewWithdrawnRoutesDecodeFn(b, addPath) == prefixes(b, FALSE, addPath, "")
NewNLRIDecodeFn(b, addPath) == prefixes(b, FALSE, addPath, "INVALID_NETWORK_FIELD")
DecodeMPIPv6Prefixes(b, addPath) == prefixes(b, TRUE, addPath, "")

DecodeMPReachIPv6NextHops(nh) ==
  IF Len(nh) \notin {16, 32} THEN fail(Notification("")) ELSE ok(pieces(nh, 16))
-----------------------------------------------------------------------------
(* Path attributes.                                                        *)

Optional(flags) == (flags \div 128) % 2 = 1
Transitive(flags) == (flags \div 64) % 2 = 1
ExtendedLen(flags) == (flags \div 16) % 2 = 1

PATH_ATTR_ORIGIN == 1
PATH_ATTR_AS_PATH == 2
PATH_ATTR_NEXT_HOP == 3
PATH_ATTR_MED == 4
PATH_ATTR_LOCAL_PREF == 5
PATH_ATTR_ATOMIC_AGGREGATE == 6
PATH_ATTR_AGGREGATOR == 7
PATH_ATTR_COMMUNITY == 8
PATH_ATTR_ORIGINATOR_ID == 9
PATH_ATTR_CLUSTER_LIST == 10
PATH_ATTR_MP_REACH_NLRI == 14
PATH_ATTR_MP_UNREACH_NLRI == 15
PATH_ATTR_LARGE_COMMUNITY == 32

Validate(flags, forCode, wantOptional, wantTransitive) ==
  IF Optional(flags) # wantOptional \/ Transitive(flags) # wantTransitive
  THEN TreatAsWithdraw(forCode, "ATTR_FLAGS_ERR") ELSE <<>>

\* Every Decode looks at the flags first; then comes its own result.
validated(e, r) == IF e # <<>> THEN fail(e) ELSE r

\* A value of n octets, one or more values of n octets.
exactly(b, n, e) == IF Len(b) # n THEN fail(e) ELSE ok(<<b>>)
piecesOf(b, n, e) == IF Len(b) < n \/ Len(b) % n # 0 THEN fail(e) ELSE ok(pieces(b, n))

\* attrLenBadForCodeErr, as the error of the two approaches of RFC 7606.
withdrawLen(code) == TreatAsWithdraw(code, "ATTR_LEN_ERR")
discardLen(code) == AttrDiscard(code, "ATTR_LEN_ERR")

OriginDecode(flags, b) ==
  validated(Validate(flags, PATH_ATTR_ORIGIN, FALSE, TRUE),
    IF Len(b) # 1 THEN fail(withdrawLen(PATH_ATTR_ORIGIN))
    ELSE IF b[1] > 2 THEN fail(TreatAsWithdraw(PATH_ATTR_ORIGIN, "INVALID_ORIGIN_ATTR"))
    ELSE ok(<<b>>))

NextHopDecode(flags, b) ==
  validated(Validate(flags, PATH_ATTR_NEXT_HOP, FALSE, TRUE),
            exactly(b, 4, withdrawLen(PATH_ATTR_NEXT_HOP)))

MEDDecode(flags, b) ==
  validated(Validate(flags, PATH_ATTR_MED, TRUE, FALSE),
            exactly(b, 4, withdrawLen(PATH_ATTR_MED)))

LocalPrefDecode(flags, b) ==
  validated(Validate(flags, PATH_ATTR_LOCAL_PREF, FALSE, TRUE),
            exactly(b, 4, withdrawLen(PATH_ATTR_LOCAL_PREF)))

AtomicAggregateDecode(flags, b) ==
  validated(Validate(flags, PATH_ATTR_ATOMIC_AGGREGATE, TRUE, TRUE),
            exactly(b, 0, discardLen(PATH_ATTR_ATOMIC_AGGREGATE)))

AggregatorDecode(flags, b) ==
  validated(Validate(flags, PATH_ATTR_AGGREGATOR, TRUE, TRUE),
            exactly(b, 8, discardLen(PATH_ATTR_AGGREGATOR)))

CommunitiesDecode(flags, b) ==
  validated(Validate(flags, PATH_ATTR_COMMUNITY, TRUE, TRUE),
            piecesOf(b, 4, withdrawLen(PATH_ATTR_COMMUNITY)))

LargeCommunitiesDecode(flags, b) ==
  validated(Validate(flags, PATH_ATTR_LARGE_COMMUNITY, TRUE, TRUE),
            piecesOf(b, 12, withdrawLen(PATH_ATTR_LARGE_COMMUNITY)))

OriginatorIDDecode(flags, b) ==
  validated(Validate(flags, PATH_ATTR_ORIGINATOR_ID, TRUE, FALSE),
            exactly(b, 4, withdrawLen(PATH_ATTR_ORIGINATOR_ID)))

ClusterListDecode(flags, b) ==
  validated(Validate(flags, PATH_ATTR_CLUSTER_LIST, TRUE, FALSE),
            piecesOf(b, 4, withdrawLen(PATH_ATTR_CLUSTER_LIST)))

asPathMalformedErr == TreatAsWithdraw(PATH_ATTR_AS_PATH, "MALFORMED_AS_PATH")

\* Mutant of segLen: the number of ASes is taken for the number of octets.
segLenASes(n) == n

\* The octets of a path segment, computed in an octet: int(b[1] * 4).
segLen(n) == uint8(4 * n)

\* The loop over the path segments from octet i of b on: the segments, or the
\* first error.
segments(b) ==
  LET walk[i \in 0 .. Len(b)] ==
        LET s == from(b, i)
        IN IF s = <<>> THEN ok(<<>>)
           ELSE IF Len(s) < 6 \/ Len(s) % 2 # 0 THEN fail(withdrawLen(PATH_ATTR_AS_PATH))
           ELSE IF segLen(s[2]) = 0 \/ Len(s) - 2 < segLen(s[2]) \/ s[1] \notin {1, 2}
                THEN fail(asPathMalformedErr)
           ELSE LET rest == walk[i + 2 + segLen(s[2])]
                IN IF rest.err # <<>> THEN rest
                   ELSE ok(<<[type |-> s[1],
                              AS |-> pieces(SubSeq(s, 3, 2 + segLen(s[2])), 4)]>> \o rest.val)
  IN walk[0]

\* Of the segments of a type the last is kept.
ofType(segs, t) ==
  LET s == SelectSeq(segs, LAMBDA g : g.type = t)
  IN IF s = <<>> THEN <<>> ELSE Last(s).AS

ASPathDecode(flags, b) ==
  validated(Validate(flags, PATH_ATTR_AS_PATH, FALSE, TRUE),
    IF Len(b) < 6 THEN fail(withdrawLen(PATH_ATTR_AS_PATH)) ELSE
    LET r == segments(b)
    IN IF r.err # <<>> THEN r
       ELSE ok([ASSet |-> ofType(r.val, 1), ASSequence |-> ofType(r.val, 2)]))
-----------------------------------------------------------------------------
(* MP_REACH_NLRI and MP_UNREACH_NLRI: what the closure is passed.  The     *)
(* flags may be wrong and the closure called nevertheless: its error is    *)
(* joined to theirs.                                                       *)

mpLenErr == Notification("ATTR_LEN_ERR")

NewMPReachNLRIDecodeFn(b) ==
  IF Len(b) < 5 THEN fail(mpLenErr)
  ELSE LET nhLen == b[4]  c == from(b, 4)
       IN IF Len(c) < nhLen + 1 THEN fail(mpLenErr)
          ELSE ok([afi |-> Uint16(b), safi |-> b[3],
                   nh |-> upto(c, nhLen), nlri |-> from(c, uint8(nhLen + 1))])

NewMPUnreachNLRIDecodeFn(b) ==
  IF Len(b) < 3 THEN fail(mpLenErr)
  ELSE ok([afi |-> Uint16(b), safi |-> b[3], withdrawn |-> from(b, 3)])
-----------------------------------------------------------------------------
(* Add-path tuples, the value of a capability.                             *)

sendReceive(t) == (IF t.Rx THEN 1 ELSE 0) + (IF t.Tx THEN 2 ELSE 0)

NewAddPathCapability(tuples) ==
  FlattenSeq([k \in DOMAIN tuples |->
    <<tuples[k].AFI \div 256, tuples[k].AFI % 256, tuples[k].SAFI, sendReceive(tuples[k])>>])

DecodeAddPathTuples(b) ==
  LET t == pieces(b, 4)
  IN IF b = <<>> \/ Len(b) % 4 # 0 \/ \E k \in DOMAIN t : t[k][4] \notin 1..3
     THEN fail(Notification(""))
     ELSE ok([k \in DOMAIN t |-> [AFI |-> Uint16(t[k]), SAFI |-> t[k][3],
                                  Tx |-> t[k][4] \in {2, 3}, Rx |-> t[k][4] \in {1, 3}]])
=============================================================================
