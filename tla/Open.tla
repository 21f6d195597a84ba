-------------------------------- MODULE Open --------------------------------
(***************************************************************************)
(* The OPEN message (packet.go): how it is built and encoded, decoded by   *)
(* two nested loops over octets, and validated.  A behaviour is the        *)
(* receipt of one OPEN: one that this code sends, or any other octets.     *)
(*                                                                         *)
(* The module is written for octets below W and AS numbers of ASLen        *)
(* octets, 256 and 4 in the code, so that all short messages can be tried  *)
(* with small values of both.                                              *)
(***************************************************************************)
EXTENDS Integers, SequencesExt

CONSTANTS
  W, ASLen,
  MaxUint16, asTrans,            \* of the AS field in front, in the same scale
  CAP_FOUR_OCTET_AS,
  ASNs, IDs, Multicast,          \* AS numbers, BGP identifiers
  LocalID, LocalAS,              \* the receiver
  Given,                         \* what GetCapabilities of the sender returns
  Bodies                         \* the optional parameters of other senders

Octets == 0..W-1

\* n >> 8, n >> 16 and so on.
shifted(n) ==
  LET f[k \in 0..ASLen] == IF k = 0 THEN n ELSE f[k-1] \div W
  IN f

\* An AS number fits into ASLen octets; a plugin's capabilities are octets.
ASSUME OpenAssumption ==
  /\ W \in Nat \ {0, 1, 2, 3} /\ ASLen \in Nat \ {0}
  /\ \A s \in Bodies : s \in Seq(Octets)
  /\ \A g \in Given : g \in Seq([Code : Octets, Value : Seq(Octets)])
  /\ CAP_FOUR_OCTET_AS \in Octets
  /\ asTrans <= MaxUint16 /\ MaxUint16 < W ^ ASLen
  /\ \A n \in ASNs : n \in Nat /\ shifted(n)[ASLen] = 0
  /\ LocalAS \in ASNs /\ LocalID \in IDs /\ Multicast \subseteq IDs

capabilityOptionalParamType == 2

VARIABLES
  pc,          \* "decode", "params", "caps", "validate", "done", "panic"
  remoteAS,    \* the receiver's configuration
  own, given,  \* the sender runs this code, and its plugin's capabilities
  body,        \* the optional parameters sent
  b, c,        \* what the outer and the inner loop have still to decode
  params,      \* the capabilities of each parameter decoded so far
  open,        \* the fixed fields, once validated
  result       \* the subcode of the NOTIFICATION, or "nil"

vars == <<pc, remoteAS, own, given, body, b, c, params, open, result>>

NoOpen == [version |-> 0, asn |-> 0, holdTime |-> 0, bgpID |-> 0]
Results == {"nil", "badMessageLen", "unspecific", "unsupportedOptionalParam",
            "unsupportedVersionNum", "badPeerAS", "unacceptableHoldTime",
            "badBGPID", "unsupportedCapability"}

\* Octets that an octet can count, and a capability as it is decoded.
Short == {s \in Seq(Octets) : Len(s) < W}
Capability == [Code : Octets, Value : Short]

\* Mutant of openASN: the AS number is cut to the field.
openASNCut(asn) == asn % (MaxUint16 + 1)

\* newOpenMessage: the AS number in the fixed fields.
openASN(asn) == IF asn > MaxUint16 THEN asTrans ELSE asn

\* The fixed fields, which are chosen when they are looked at.
opens ==
  [version : IF own THEN {4} ELSE {3, 4},
   asn : IF own THEN {openASN(remoteAS)} ELSE 0..MaxUint16,
   holdTime : IF own THEN {0, 3} ELSE 0..3,
   bgpID : IDs]

TypeOK ==
  /\ pc \in {"decode", "params", "caps", "validate", "done", "panic"}
  /\ remoteAS \in ASNs /\ own \in BOOLEAN /\ result \in Results
  /\ given \in Given \cup {<<>>} /\ body \in Seq(Octets)
  /\ b \in Short /\ c \in Short /\ params \in Seq(Seq(Capability))
  /\ open \in opens \cup {NoOpen}
-----------------------------------------------------------------------------
(* Building and encoding.  A length is written as one octet.               *)

uint8(n) == n % W

\* binary.BigEndian, for AS numbers.
PutUint(n) == [k \in 1..ASLen |-> shifted(n)[ASLen - k] % W]

capabilityEncode(cap) == <<cap.Code, uint8(Len(cap.Value))>> \o cap.Value

\* capabilityOptionalParam.encode; caps is not empty.
paramEncode(caps) ==
  LET v == FlattenSeq([k \in DOMAIN caps |-> capabilityEncode(caps[k])])
  IN <<capabilityOptionalParamType, uint8(Len(v))>> \o v

openEncode(ps) == FlattenSeq([k \in DOMAIN ps |-> paramEncode(ps[k])])

newFourOctetASCap(asn) == [Code |-> CAP_FOUR_OCTET_AS, Value |-> PutUint(asn)]

\* newOpenMessage: the capabilities.
allCaps(asn, caps) ==
  LET all[n \in 0..Len(caps)] ==
        IF n = 0 THEN <<newFourOctetASCap(asn)>>
        ELSE IF caps[n].Code = CAP_FOUR_OCTET_AS THEN all[n-1]
        ELSE Append(all[n-1], caps[n])
  IN all[Len(caps)]
-----------------------------------------------------------------------------
(* Decoding.                                                               *)

Init ==
  /\ pc = "decode" /\ remoteAS \in ASNs
  /\ \/ own = TRUE /\ given \in Given /\ body = openEncode(<<allCaps(remoteAS, given)>>)
     \/ own = FALSE /\ given = <<>> /\ body \in Bodies
  /\ b = <<>> /\ c = <<>> /\ params = <<>>
  /\ open = NoOpen /\ result = "nil"

return(e) == pc' = "done" /\ result' = e

\* Mutant of decode: the length of the optional parameters is not compared.
decodeAnyLen ==
  /\ pc = "decode"
  /\ \/ ~own /\ return("badMessageLen") /\ b' = b
     \/ pc' = "params" /\ b' = body /\ UNCHANGED result
  /\ UNCHANGED <<remoteAS, own, given, body, c, params, open>>

\* openMessage.decode.  Another sender may stop in the fixed fields, and may
\* give any length for what follows.
decode ==
  /\ pc = "decode"
  /\ \/ ~own /\ return("badMessageLen") /\ b' = b
     \/ \E optionalParamsLen \in IF own THEN {uint8(Len(body))} ELSE Octets :
          IF optionalParamsLen # Len(body) THEN return("unspecific") /\ b' = b
          ELSE pc' = "params" /\ b' = body /\ UNCHANGED result
  /\ UNCHANGED <<remoteAS, own, given, body, c, params, open>>

\* Both loops take an element off the front of s: a code, a length n and n
\* octets, s[2 : n+2] in Go, where n + 2 is computed in an octet.
short(s) == IF Len(s) < 2 THEN TRUE ELSE Len(s) < s[2] + 2
outOfRange(s) == s[2] > 0 /\ uint8(s[2] + 2) < 2
octets(s) == IF s[2] > 0 THEN SubSeq(s, 3, uint8(s[2] + 2)) ELSE <<>>
next(s) == SubSeq(s, s[2] + 3, Len(s))

\* An iteration of decodeOptionalParams, up to the parameter's own decode.
decodeOptionalParams ==
  /\ pc = "params"
  /\ IF short(b) THEN return("unspecific") /\ UNCHANGED <<b, c, params>>
     ELSE IF outOfRange(b) THEN pc' = "panic" /\ UNCHANGED <<result, b, c, params>>
     ELSE /\ b' = next(b) /\ c' = octets(b)
          /\ IF b[1] = capabilityOptionalParamType
             THEN pc' = "caps" /\ params' = Append(params, <<>>) /\ UNCHANGED result
             ELSE return("unsupportedOptionalParam") /\ UNCHANGED params
  /\ UNCHANGED <<remoteAS, own, given, body, open>>

\* Mutants of capabilityDecode: the last parameter decoded ends the message;
\* the inner loop does not advance.
capabilityDecodeOne ==
  /\ pc = "caps"
  /\ IF short(c) THEN return("unspecific") /\ UNCHANGED <<c, params>>
     ELSE /\ params' = [params EXCEPT ![Len(params)] =
                          Append(@, [Code |-> c[1], Value |-> octets(c)])]
          /\ c' = next(c)
          /\ pc' = IF c' # <<>> THEN "caps" ELSE "validate"
          /\ UNCHANGED result
  /\ UNCHANGED <<remoteAS, own, given, body, b, open>>

capabilityDecodeStuck ==
  /\ pc = "caps"
  /\ IF short(c) THEN return("unspecific") /\ UNCHANGED params
     ELSE /\ params' = [params EXCEPT ![Len(params)] =
                          Append(@, [Code |-> c[1], Value |-> octets(c)])]
          /\ UNCHANGED <<pc, result>>
  /\ UNCHANGED <<remoteAS, own, given, body, b, c, open>>

\* An iteration of capabilityOptionalParam.decode, and where both loops end.
capabilityDecode ==
  /\ pc = "caps"
  /\ IF short(c) THEN return("unspecific") /\ UNCHANGED <<c, params>>
     ELSE IF outOfRange(c) THEN pc' = "panic" /\ UNCHANGED <<result, c, params>>
     ELSE /\ params' = [params EXCEPT ![Len(params)] =
                          Append(@, [Code |-> c[1], Value |-> octets(c)])]
          /\ c' = next(c)
          /\ pc' = IF c' # <<>> THEN "caps" ELSE IF b # <<>> THEN "params" ELSE "validate"
          /\ UNCHANGED result
  /\ UNCHANGED <<remoteAS, own, given, body, b, open>>
-----------------------------------------------------------------------------
(* Validation.                                                             *)

getCapabilities == FlattenSeq(params)

\* The loop over the capabilities stops at the first that is not as it should
\* be; trans is fourOctetAS.
validateCaps(trans, caps, as) ==
  LET fourOctetAS == {k \in DOMAIN caps : caps[k].Code = CAP_FOUR_OCTET_AS}
      bad == {k \in fourOctetAS : caps[k].Value # PutUint(as)}
  IN IF bad # {} THEN IF Len(caps[Min(bad)].Value) # ASLen THEN "unspecific" ELSE "badPeerAS"
     ELSE IF fourOctetAS # {} THEN "nil"
     ELSE IF trans THEN "badPeerAS" ELSE "unsupportedCapability"

\* Mutant of validate: AS_TRANS is as good as the AS number.
validateTrans(o, caps, as) ==
  IF o.version # 4 THEN "unsupportedVersionNum"
  ELSE IF o.asn \notin {asTrans, as} THEN "badPeerAS"
  ELSE IF o.holdTime \in {1, 2} THEN "unacceptableHoldTime"
  ELSE IF o.bgpID \in Multicast \/ (LocalAS = as /\ LocalID = o.bgpID) THEN "badBGPID"
  ELSE IF o.asn = asTrans THEN "nil"
  ELSE validateCaps(FALSE, caps, as)

validate(o, caps, as) ==
  IF o.version # 4 THEN "unsupportedVersionNum"
  ELSE IF o.asn \notin {asTrans, as} THEN "badPeerAS"
  ELSE IF o.holdTime \in {1, 2} THEN "unacceptableHoldTime"
  ELSE IF o.bgpID \in Multicast \/ (LocalAS = as /\ LocalID = o.bgpID) THEN "badBGPID"
  ELSE validateCaps(o.asn = asTrans, caps, as)

validated ==
  /\ pc = "validate"
  /\ open' \in opens /\ return(validate(open', getCapabilities, remoteAS))
  /\ UNCHANGED <<remoteAS, own, given, body, b, c, params>>

Done == pc = "done" /\ UNCHANGED vars

Next == decode \/ decodeOptionalParams \/ capabilityDecode \/ validated \/ Done

Spec == Init /\ [][Next]_vars /\ WF_vars(Next)
-----------------------------------------------------------------------------
\* The bound of a slice, computed in an octet, never wraps round: the length
\* of all parameters is itself an octet (packet.go:348, 376, 492).
NoPanic == pc # "panic"

\* A message that is decoded to its end has been decoded as a whole: to encode
\* the result yields the octets that were sent (packet.go:361-398, 478-505).
NothingLost == pc = "validate" => openEncode(params) = body

\* An OPEN of this code, if its capabilities fit into the length octet, reaches
\* the other end: the same capabilities arrive, with the AS number in front, and
\* are accepted, unless the identifier is unacceptable (packet.go:432-458,
\* plugin.go:7-9).
OpenUnderstood ==
  pc = "done" /\ own /\ Len(body) < W =>
    /\ getCapabilities = allCaps(remoteAS, given)
    /\ result # "nil" => result = "badBGPID" /\ open.bgpID \in Multicast \cup {LocalID}

\* No OPEN passes for two AS numbers: one that is accepted would not be if the
\* remote were configured with another (packet.go:250-325).
OneAS ==
  pc = "done" /\ open # NoOpen /\ result = "nil" =>
    \A as \in ASNs \ {remoteAS} : validate(open, getCapabilities, as) # "nil"
=============================================================================
