------------------------------ MODULE OpenProof -----------------------------
(***************************************************************************)
(* The OPEN, for octets of any width and messages of any length: no slice  *)
(* of the decoders is out of range, nothing of a message is lost, what     *)
(* this code sends is understood, and no OPEN passes for two AS numbers.   *)
(***************************************************************************)
EXTENDS Open, Induction

\* The widths are numbers.
LEMMA Widths == W \in Nat /\ W > 3 /\ ASLen \in Nat /\ ASLen > 0
BY OpenAssumption, SMTT(60) DEF OpenAssumption

-----------------------------------------------------------------------------
(* Numbers as octets.                                                      *)

\* The shifts of a number, one octet after the other (encoding/binary).
LEMMA ShiftedSteps ==
  ASSUME NEW n \in Nat
  PROVE  /\ shifted(n) \in [0..ASLen -> Nat] /\ shifted(n)[0] = n
         /\ \A k \in 1..ASLen : shifted(n)[k] = shifted(n)[k-1] \div W
<1> DEFINE F == [k \in 1..ASLen |-> [x \in Nat |-> x \div W]]
           f[k \in 0..ASLen] == IF k = 0 THEN n ELSE f[k-1] \div W
<1>1. ASSUME NEW x \in Nat PROVE x \div W \in Nat
  BY Widths
<1>2. F \in [1..ASLen -> [Nat -> Nat]] /\ \A k \in 1..ASLen, x \in Nat : F[k][x] = x \div W
  BY <1>1
<1> HIDE DEF F
<1>3. PICK g : Iterates(g, ASLen, Nat, n, F)
  BY <1>2, Widths, Recursion, Zenon
<1>4. ASSUME NEW k \in 1..ASLen PROVE g[k] = g[k-1] \div W
  <2>1. k-1 \in 0..ASLen
    BY Widths, SMTT(60)
  <2> QED
    BY <2>1, <1>2, <1>3, Zenon DEF Iterates
<1>5. \E h : h = [k \in 0..ASLen |-> IF k = 0 THEN n ELSE h[k-1] \div W]
  <2>1. g = [k \in 0..ASLen |-> IF k = 0 THEN n ELSE g[k-1] \div W]
    BY <1>3, <1>4, Widths, SMTT(60) DEF Iterates
  <2> QED
    BY <2>1, Zenon
<1>6. f = CHOOSE h : h = [k \in 0..ASLen |-> IF k = 0 THEN n ELSE h[k-1] \div W]
  OBVIOUS
<1> HIDE DEF f
<1>7. f = [k \in 0..ASLen |-> IF k = 0 THEN n ELSE f[k-1] \div W]
  BY <1>5, <1>6, Zenon
<1>8. \A k \in 0..ASLen : f[k] = IF k = 0 THEN n ELSE f[k-1] \div W
  BY <1>7, Zenon
<1>9. f[0] = n /\ \A k \in 1..ASLen : f[k] = f[k-1] \div W
  BY <1>8, Widths, SMTT(60)
<1>10. f \in [0..ASLen -> Nat]
  <2> DEFINE T == {k \in Nat : f[k] \in Nat}
  <2>1. 0 \in T
    BY <1>9, SMTT(60)
  <2>2. ASSUME NEW k \in 0..ASLen-1, k \in T PROVE k + 1 \in T
    <3>1. k + 1 \in 1..ASLen /\ (k + 1) - 1 = k
      BY Widths, SMTT(60)
    <3>2. f[k+1] = f[k] \div W
      BY <3>1, <1>9, SMTT(60)
    <3>3. f[k] \div W \in Nat
      BY <2>2, <3>1, <1>1, SMTT(60)
    <3> QED
      BY <3>2, <3>3, SMTT(60)
  <2>3. \A k \in 0..ASLen : k \in T
    <3> HIDE DEF T
    <3> QED
      BY <2>1, <2>2, Widths, InductUpto, SMTT(60)
  <2> QED
    BY <2>3, <1>7, SMTT(60)
<1> QED
  BY <1>9, <1>10, SMTT(60) DEF shifted, f

\* An AS number is written as octets.
LEMMA PutUintOctets ==
  ASSUME NEW n \in Nat
  PROVE  PutUint(n) \in Seq(Octets) /\ Len(PutUint(n)) = ASLen
<1>1. ASSUME NEW k \in 1..ASLen PROVE shifted(n)[ASLen - k] % W \in Octets
  <2>1. ASLen - k \in 0..ASLen
    BY Widths, SMTT(60)
  <2>2. shifted(n)[ASLen - k] \in Nat
    BY <2>1, ShiftedSteps, Zenon
  <2> QED
    BY <2>2, Widths, SMTT(60) DEF Octets
<1> QED
  BY <1>1, Widths, SMTT(60) DEF PutUint

\* Two AS numbers are not written alike (encoding/binary; packet.go:285-299).
LEMMA PutUintInjective ==
  ASSUME NEW m \in ASNs, NEW n \in ASNs, PutUint(m) = PutUint(n)
  PROVE  m = n
<1>1. m \in Nat /\ n \in Nat /\ shifted(m)[ASLen] = 0 /\ shifted(n)[ASLen] = 0
  BY OpenAssumption, SMTT(60) DEF OpenAssumption
<1>2. ASSUME NEW k \in 0..ASLen-1 PROVE shifted(m)[k] % W = shifted(n)[k] % W
  <2>1. ASLen - k \in 1..ASLen /\ ASLen - (ASLen - k) = k
    BY Widths, SMTT(60)
  <2>2. /\ PutUint(m)[ASLen - k] = shifted(m)[ASLen - (ASLen - k)] % W
        /\ PutUint(n)[ASLen - k] = shifted(n)[ASLen - (ASLen - k)] % W
    BY <2>1, SMTT(60) DEF PutUint
  <2> QED
    BY <2>1, <2>2, SMTT(60)
<1> DEFINE T == {k \in Nat : k <= ASLen => shifted(m)[ASLen-k] = shifted(n)[ASLen-k]}
<1>3. 0 \in T
  BY <1>1, Widths, SMTT(60)
<1>4. ASSUME NEW k \in 0..ASLen-1, k \in T PROVE k + 1 \in T
  <2> DEFINE j == ASLen - (k+1)
  <2>1. j \in 0..ASLen-1 /\ j + 1 \in 1..ASLen /\ (j+1)-1 = j /\ j + 1 = ASLen - k /\ j \in 0..ASLen
    BY Widths, SMTT(60)
  <2> HIDE DEF j
  <2>2. /\ shifted(m)[j+1] = shifted(m)[j] \div W
        /\ shifted(n)[j+1] = shifted(n)[j] \div W
        /\ shifted(m)[j] \in Nat /\ shifted(n)[j] \in Nat
    <3>1. ASSUME NEW x \in Nat
          PROVE  shifted(x)[j+1] = shifted(x)[j] \div W /\ shifted(x)[j] \in Nat
      <4>1. /\ shifted(x) \in [0..ASLen -> Nat]
            /\ \A i \in 1..ASLen : shifted(x)[i] = shifted(x)[i-1] \div W
        BY ShiftedSteps, SMTT(60)
      <4> QED
        BY <4>1, <2>1, SMTT(60)
    <3> QED
      BY <3>1, <1>1, SMTT(60)
  <2>3. shifted(m)[j+1] = shifted(n)[j+1]
    <3>1. shifted(m)[ASLen-k] = shifted(n)[ASLen-k]
      BY <1>4, Widths, SMTT(60)
    <3> QED
      BY <3>1, <2>1
  <2>4. shifted(m)[j] % W = shifted(n)[j] % W
    BY <2>1, <1>2, SMTT(60)
  <2>5. ASSUME NEW x \in Nat, NEW y \in Nat, x \div W = y \div W, x % W = y % W PROVE x = y
    BY <2>5, Widths, SMTT(60)
  <2>6. shifted(m)[j] = shifted(n)[j]
    BY <2>2, <2>3, <2>4, <2>5, SMTT(60)
  <2> QED
    BY <2>6, SMTT(60) DEF j
<1>5. ASLen \in T
  <2> HIDE DEF T
  <2> QED
    BY <1>3, <1>4, Widths, InductUpto, SMTT(60)
<1>6. shifted(m)[0] = shifted(n)[0]
  BY <1>5, Widths, SMTT(60)
<1> QED
  BY <1>6, <1>1, ShiftedSteps, SMTT(60)

-----------------------------------------------------------------------------
(* What is sent.                                                           *)

\* The capabilities a plugin gives, and those that are sent.
Cap == [Code : Octets, Value : Seq(Octets)]

\* What newOpenMessage sends: the AS number in front, in the only capability
\* of that code (packet.go:432-458).
LEMMA AllCaps ==
  ASSUME NEW as \in ASNs, NEW caps \in Seq(Cap)
  PROVE  /\ allCaps(as, caps) \in Seq(Cap) /\ Len(allCaps(as, caps)) >= 1
         /\ allCaps(as, caps)[1] = newFourOctetASCap(as)
         /\ \A k \in 2..Len(allCaps(as, caps)) :
              allCaps(as, caps)[k].Code # CAP_FOUR_OCTET_AS
<1> DEFINE N == Len(caps)
           add(n, x) == IF caps[n].Code = CAP_FOUR_OCTET_AS THEN x ELSE Append(x, caps[n])
           F == [n \in 1..N |-> [x \in Seq(Cap) |-> add(n, x)]]
           first == <<newFourOctetASCap(as)>>
           all[n \in 0..N] ==
             IF n = 0 THEN <<newFourOctetASCap(as)>>
             ELSE IF caps[n].Code = CAP_FOUR_OCTET_AS THEN all[n-1]
             ELSE Append(all[n-1], caps[n])
<1>n. N \in Nat /\ \A n \in 1..N : caps[n] \in Cap
  OBVIOUS
<1>c. newFourOctetASCap(as) \in Cap
  <2>1. as \in Nat /\ CAP_FOUR_OCTET_AS \in Octets
    BY OpenAssumption, Zenon DEF OpenAssumption
  <2> QED
    BY <2>1, PutUintOctets, Zenon DEF newFourOctetASCap, Cap
<1>0. first \in Seq(Cap) /\ Len(first) = 1 /\ first[1] = newFourOctetASCap(as)
  <2>1. ASSUME NEW S, NEW x \in S PROVE <<x>> \in Seq(S) /\ Len(<<x>>) = 1 /\ <<x>>[1] = x
    OBVIOUS
  <2> QED
    BY <2>1, <1>c, Zenon
<1>1. ASSUME NEW n \in 1..N, NEW x \in Seq(Cap) PROVE add(n, x) \in Seq(Cap)
  BY <1>n, AppendProperties, SMTT(60)
<1>2. F \in [1..N -> [Seq(Cap) -> Seq(Cap)]] /\ \A n \in 1..N, x \in Seq(Cap) : F[n][x] = add(n, x)
  BY <1>1, SMTT(60)
<1>3. PICK g : Iterates(g, N, Seq(Cap), first, F)
  <2> HIDE DEF F, N, first
  <2> QED
    BY <1>0, <1>2, <1>n, Recursion, Zenon
<1>4. \E h : h = [n \in 0..N |->
             IF n = 0 THEN <<newFourOctetASCap(as)>>
             ELSE IF caps[n].Code = CAP_FOUR_OCTET_AS THEN h[n-1]
             ELSE Append(h[n-1], caps[n])]
  <2>1. g \in [0..N -> Seq(Cap)] /\ g[0] = first /\ \A n \in 1..N : g[n] = F[n][g[n-1]]
    BY <1>3, SMTT(60) DEF Iterates
  <2>2. ASSUME NEW n \in 0..N
        PROVE  g[n] = IF n = 0 THEN <<newFourOctetASCap(as)>>
                      ELSE IF caps[n].Code = CAP_FOUR_OCTET_AS THEN g[n-1]
                      ELSE Append(g[n-1], caps[n])
    <3>1. CASE n = 0
      BY <3>1, <2>1, SMTT(60)
    <3>2. CASE n # 0
      <4>1. n \in 1..N /\ n-1 \in 0..N
        BY <3>2, <1>n, SMTT(60)
      <4>2. g[n] = add(n, g[n-1])
        <5> HIDE DEF F, N, add
        <5> QED
          BY <4>1, <2>1, <1>2, SMTT(60)
      <4> QED
        BY <4>2, <3>2, SMTT(60)
    <3> QED
      BY <3>1, <3>2, SMTT(60)
  <2>3. g = [n \in 0..N |->
             IF n = 0 THEN <<newFourOctetASCap(as)>>
             ELSE IF caps[n].Code = CAP_FOUR_OCTET_AS THEN g[n-1]
             ELSE Append(g[n-1], caps[n])]
    <3> HIDE DEF N
    <3> QED
      BY <2>1, <2>2, Zenon
  <2> QED
    BY <2>3, SMTT(60)
<1>5. all = CHOOSE h : h = [n \in 0..N |->
             IF n = 0 THEN <<newFourOctetASCap(as)>>
             ELSE IF caps[n].Code = CAP_FOUR_OCTET_AS THEN h[n-1]
             ELSE Append(h[n-1], caps[n])]
  OBVIOUS
<1>6. allCaps(as, caps) = all[N]
  BY DEF allCaps
<1> HIDE DEF all
<1>7. all = [n \in 0..N |->
             IF n = 0 THEN <<newFourOctetASCap(as)>>
             ELSE IF caps[n].Code = CAP_FOUR_OCTET_AS THEN all[n-1]
             ELSE Append(all[n-1], caps[n])]
  BY <1>4, <1>5, Zenon
<1>8. \A n \in 0..N : all[n] = IF n = 0 THEN <<newFourOctetASCap(as)>>
             ELSE IF caps[n].Code = CAP_FOUR_OCTET_AS THEN all[n-1]
             ELSE Append(all[n-1], caps[n])
  BY <1>7, Zenon
<1> DEFINE Fine(x) == /\ x \in Seq(Cap) /\ Len(x) >= 1 /\ x[1] = newFourOctetASCap(as)
                      /\ \A k \in 2..Len(x) : x[k].Code # CAP_FOUR_OCTET_AS
           T == {n \in Nat : Fine(all[n])}
<1>9. 0 \in T
  <2>1. all[0] = first
    <3>1. 0 \in 0..N
      BY <1>n, SMTT(60)
    <3> QED
      BY <3>1, <1>8, Zenon
  <2>2. Fine(first)
    <3> HIDE DEF first
    <3> QED
      BY <1>0, SMTT(60)
  <2> QED
    BY <2>1, <2>2, Zenon
<1>10. ASSUME NEW n \in 0..N-1, n \in T PROVE n+1 \in T
  <2>1. n+1 \in 1..N /\ n+1 \in 0..N /\ n+1 # 0 /\ (n+1)-1 = n
    BY <1>n, SMTT(60)
  <2>2. all[n+1] = add(n+1, all[n])
    BY <2>1, <1>8, SMTT(60)
  <2>3. ASSUME NEW x, NEW y \in Cap, Fine(x), y.Code # CAP_FOUR_OCTET_AS PROVE Fine(Append(x, y))
    <3>1. /\ x \in Seq(Cap) /\ Len(x) >= 1 /\ x[1] = newFourOctetASCap(as)
          /\ \A k \in 2..Len(x) : x[k].Code # CAP_FOUR_OCTET_AS
      BY <2>3, SMTT(60)
    <3>2. /\ Append(x, y) \in Seq(Cap) /\ Len(Append(x, y)) = Len(x) + 1
          /\ \A k \in 1..Len(x) : Append(x, y)[k] = x[k]
          /\ Append(x, y)[Len(x)+1] = y
      BY <3>1, AppendProperties, SMTT(60)
    <3>3. Len(x) \in Nat
      BY <3>1, SMTT(60)
    <3>4. Append(x, y)[1] = x[1]
      <4>1. 1 \in 1..Len(x)
        BY <3>1, <3>3, SMTT(60)
      <4> QED
        BY <4>1, <3>2, SMTT(60)
    <3>5. ASSUME NEW k \in 2..Len(x)+1 PROVE Append(x, y)[k].Code # CAP_FOUR_OCTET_AS
      <4>1. CASE k <= Len(x)
        BY <4>1, <3>1, <3>2, <3>3, SMTT(60)
      <4>2. CASE ~(k <= Len(x))
        <5>1. k = Len(x) + 1
          BY <4>2, <3>3, SMTT(60)
        <5> QED
          BY <5>1, <3>2, <2>3, SMTT(60)
      <4> QED
        BY <4>1, <4>2, SMTT(60)
    <3> QED
      BY <3>1, <3>2, <3>3, <3>4, <3>5, SMTT(60)
  <2>4. Fine(all[n])
    BY <1>10, Zenon
  <2>5. Fine(add(n+1, all[n]))
    <3>1. caps[n+1] \in Cap
      BY <2>1, SMTT(60)
    <3> HIDE DEF Fine
    <3> QED
      BY <3>1, <2>3, <2>4, SMTT(60)
  <2> QED
    <3> HIDE DEF Fine, add
    <3> QED
      BY <2>1, <2>2, <2>5, SMTT(60)
<1>11. N \in T
  <2>1. \A n \in 0..N : n \in T
    <3> HIDE DEF T, N
    <3> QED
      BY <1>9, <1>10, <1>n, InductUpto, SMTT(60)
  <2> QED
    <3> HIDE DEF T, N
    <3> QED
      BY <2>1, <1>n, SMTT(60)
<1>12. Fine(all[N])
  <2> HIDE DEF Fine, N
  <2> QED
    BY <1>11
<1> QED
  BY <1>6, <1>12, SMTT(60)

-----------------------------------------------------------------------------
(* Encoding.                                                               *)

\* Capabilities one after the other, as they are in a parameter.
CapsEncode(caps) == FlattenSeq([k \in DOMAIN caps |-> capabilityEncode(caps[k])])

\* Octets with two in front.
LEMMA TwoInFront ==
  ASSUME NEW x \in Octets, NEW n \in Octets, NEW v \in Seq(Octets)
  PROVE  /\ <<x, n>> \o v \in Seq(Octets) /\ Len(<<x, n>> \o v) = Len(v) + 2
         /\ (<<x, n>> \o v)[1] = x /\ (<<x, n>> \o v)[2] = n
         /\ SubSeq(<<x, n>> \o v, 3, Len(v) + 2) = v
<1> DEFINE h == <<x, n>>
           s == h \o v
<1>1. h \in Seq(Octets) /\ Len(h) = 2 /\ h[1] = x /\ h[2] = n /\ Len(v) \in Nat
  OBVIOUS
<1> HIDE DEF h
<1>2. /\ s \in Seq(Octets) /\ Len(s) = Len(v) + 2
      /\ \A i \in 1..Len(v)+2 : s[i] = IF i <= 2 THEN h[i] ELSE v[i - 2]
  <2>1. /\ h \o v \in Seq(Octets) /\ Len(h \o v) = Len(h) + Len(v)
        /\ \A i \in 1..Len(h)+Len(v) : (h \o v)[i] = IF i <= Len(h) THEN h[i] ELSE v[i - Len(h)]
    BY <1>1, ConcatProperties, Zenon
  <2> QED
    BY <2>1, <1>1, SMTT(60)
<1> HIDE DEF s
<1>3. s[1] = x /\ s[2] = n
  BY <1>1, <1>2, SMTT(60)
<1>4. SubSeq(s, 3, Len(v) + 2) = v
  <2> DEFINE u == SubSeq(s, 3, Len(v) + 2)
  <2>1. \A i \in 3..Len(v)+2 : s[i] \in Octets
    BY <1>1, <1>2, SMTT(60)
  <2>2. /\ u \in Seq(Octets)
        /\ Len(u) = IF 3 <= Len(v)+2 THEN (Len(v)+2)-3+1 ELSE 0
        /\ \A i \in 1..(Len(v)+2)-3+1 : u[i] = s[3+i-1]
    BY <2>1, <1>1, SubSeqProperties, SMTT(60)
  <2> HIDE DEF u
  <2>3. Len(u) = Len(v)
    BY <2>2, <1>1, SMTT(60)
  <2>4. ASSUME NEW i \in 1..Len(u) PROVE u[i] = v[i]
    <3>1. /\ i \in 1..(Len(v)+2)-3+1 /\ 3+i-1 = i+2
          /\ i+2 \in 1..Len(v)+2 /\ ~(i+2 <= 2) /\ (i+2)-2 = i
      BY <2>3, <1>1, SMTT(60)
    <3>2. u[i] = s[i+2]
      BY <2>2, <3>1, SMTT(60)
    <3> QED
      BY <3>1, <3>2, <1>2, SMTT(60)
  <2>5. u = v
    BY <2>2, <2>3, <2>4, SeqEqual, SMTT(60)
  <2> QED
    BY <2>5, SMTT(60) DEF u
<1> QED
  BY <1>2, <1>3, <1>4, SMTT(60) DEF s, h

\* A length is written as an octet (packet.go:518, 539).
LEMMA Uint8Octet ==
  ASSUME NEW n \in Nat
  PROVE  uint8(n) \in Octets
BY Widths, SMTT(60) DEF uint8, Octets

\* A capability is encoded as octets (packet.go:536-542).
LEMMA CapabilityEncodeType ==
  ASSUME NEW cap \in Cap
  PROVE  /\ capabilityEncode(cap) \in Seq(Octets)
         /\ Len(capabilityEncode(cap)) = Len(cap.Value) + 2
<1>1. cap.Code \in Octets /\ cap.Value \in Seq(Octets) /\ Len(cap.Value) \in Nat
  BY DEF Cap
<1>2. uint8(Len(cap.Value)) \in Octets
  BY <1>1, Uint8Octet, SMTT(60)
<1> QED
  BY <1>1, <1>2, TwoInFront, SMTT(60) DEF capabilityEncode

\* The encodings of capabilities are sequences of octets.
LEMMA Encodings ==
  ASSUME NEW caps \in Seq(Cap)
  PROVE  [k \in DOMAIN caps |-> capabilityEncode(caps[k])] \in Seq(Seq(Octets))
<1>1. DOMAIN caps = 1..Len(caps) /\ Len(caps) \in Nat
  OBVIOUS
<1>2. ASSUME NEW k \in 1..Len(caps) PROVE capabilityEncode(caps[k]) \in Seq(Octets)
  BY CapabilityEncodeType, SMTT(60)
<1> QED
  BY <1>1, <1>2, SMTT(60)

\* So is their concatenation.
LEMMA CapsEncodeType ==
  ASSUME NEW caps \in Seq(Cap)
  PROVE  CapsEncode(caps) \in Seq(Octets)
BY Encodings, FlattenType, SMTT(60) DEF CapsEncode

\* No capabilities, no octets.
LEMMA CapsEncodeEmpty == CapsEncode(<<>>) = <<>>
<1>1. [k \in DOMAIN <<>> |-> capabilityEncode(<<>>[k])] = <<>>
  OBVIOUS
<1> QED
  BY <1>1, FlattenEmpty, SMTT(60) DEF CapsEncode

\* Capabilities in two parts are encoded part by part.
LEMMA CapsEncodeConcat ==
  ASSUME NEW s \in Seq(Cap), NEW t \in Seq(Cap)
  PROVE  CapsEncode(s \o t) = CapsEncode(s) \o CapsEncode(t)
<1> DEFINE enc(u) == [k \in DOMAIN u |-> capabilityEncode(u[k])]
<1>1. enc(s) \in Seq(Seq(Octets)) /\ enc(t) \in Seq(Seq(Octets))
  BY Encodings, SMTT(60)
<1>2. /\ s \o t \in Seq(Cap) /\ Len(s \o t) = Len(s) + Len(t)
      /\ \A i \in 1..Len(s)+Len(t) : (s \o t)[i] = IF i <= Len(s) THEN s[i] ELSE t[i - Len(s)]
  BY ConcatProperties, SMTT(60)
<1>3. Len(enc(s)) = Len(s) /\ Len(enc(t)) = Len(t) /\ Len(enc(s \o t)) = Len(s) + Len(t)
  BY <1>2, SMTT(60)
<1>4. enc(s \o t) = enc(s) \o enc(t)
  <2>1. enc(s \o t) \in Seq(Seq(Octets))
    BY <1>2, Encodings, Zenon
  <2>2. enc(s) \o enc(t) \in Seq(Seq(Octets)) /\ Len(enc(s) \o enc(t)) = Len(s) + Len(t)
    <3>1. ASSUME NEW x \in Seq(Seq(Octets)), NEW y \in Seq(Seq(Octets))
          PROVE  x \o y \in Seq(Seq(Octets)) /\ Len(x \o y) = Len(x) + Len(y)
      BY ConcatProperties, SMTT(60)
    <3> HIDE DEF enc
    <3> QED
      BY <1>1, <1>3, <3>1, Zenon
  <2>3. ASSUME NEW i \in 1..Len(s)+Len(t) PROVE enc(s \o t)[i] = (enc(s) \o enc(t))[i]
    <3>1. enc(s \o t)[i] = capabilityEncode((s \o t)[i])
      BY <1>2, SMTT(60)
    <3>2. (enc(s) \o enc(t))[i] = IF i <= Len(s) THEN enc(s)[i] ELSE enc(t)[i - Len(s)]
      <4> HIDE DEF enc
      <4> QED
        BY <1>1, <1>3, ConcatProperties, SMTT(60)
    <3>3. CASE i <= Len(s)
      <4>1. i \in DOMAIN s
        BY <3>3, SMTT(60)
      <4>2. enc(s)[i] = capabilityEncode(s[i])
        BY <4>1, SMTT(60)
      <4> QED
        BY <4>2, <3>1, <3>2, <3>3, <1>2, SMTT(60)
    <3>4. CASE ~(i <= Len(s))
      <4>1. i - Len(s) \in DOMAIN t
        BY <3>4, SMTT(60)
      <4>2. enc(t)[i - Len(s)] = capabilityEncode(t[i - Len(s)])
        BY <4>1, SMTT(60)
      <4> QED
        BY <4>2, <3>1, <3>2, <3>4, <1>2, SMTT(60)
    <3> QED
      BY <3>3, <3>4, SMTT(60)
  <2> HIDE DEF enc
  <2> QED
    BY <2>1, <2>2, <2>3, <1>3, SeqEqual, Zenon
<1>5. FlattenSeq(enc(s) \o enc(t)) = FlattenSeq(enc(s)) \o FlattenSeq(enc(t))
  <2> HIDE DEF enc
  <2> QED
    BY <1>1, FlattenConcat, SMTT(60)
<1> QED
  BY <1>4, <1>5, Zenon DEF CapsEncode

\* A single capability.
LEMMA CapsEncodeOne ==
  ASSUME NEW cap \in Cap
  PROVE  CapsEncode(<<cap>>) = capabilityEncode(cap)
<1>1. [k \in DOMAIN <<cap>> |-> capabilityEncode(<<cap>>[k])] = <<capabilityEncode(cap)>>
  OBVIOUS
<1> QED
  BY <1>1, FlattenOne, CapabilityEncodeType, SMTT(60) DEF CapsEncode

\* A parameter is its type, the length of its capabilities and these
\* (packet.go:507-521), all of them octets.
LEMMA ParamEncode ==
  ASSUME NEW caps \in Seq(Cap)
  PROVE  /\ paramEncode(caps) = <<capabilityOptionalParamType, uint8(Len(CapsEncode(caps)))>>
                                  \o CapsEncode(caps)
         /\ paramEncode(caps) \in Seq(Octets)
         /\ Len(paramEncode(caps)) = Len(CapsEncode(caps)) + 2
<1>1. CapsEncode(caps) \in Seq(Octets) /\ Len(CapsEncode(caps)) \in Nat
  BY CapsEncodeType, SMTT(60)
<1>2. uint8(Len(CapsEncode(caps))) \in Octets /\ capabilityOptionalParamType \in Octets
  BY <1>1, Uint8Octet, Widths, SMTT(60) DEF capabilityOptionalParamType, Octets
<1>4. paramEncode(caps) = <<capabilityOptionalParamType, uint8(Len(CapsEncode(caps)))>>
                            \o CapsEncode(caps)
  BY DEF paramEncode, CapsEncode
<1> QED
  BY <1>1, <1>2, <1>4, TwoInFront, SMTT(60)

\* The parameters of an OPEN are encoded as octets (packet.go:400-417).
LEMMA ParamEncodings ==
  ASSUME NEW ps \in Seq(Seq(Cap))
  PROVE  [k \in DOMAIN ps |-> paramEncode(ps[k])] \in Seq(Seq(Octets))
<1>1. DOMAIN ps = 1..Len(ps) /\ Len(ps) \in Nat
  OBVIOUS
<1>2. ASSUME NEW k \in 1..Len(ps) PROVE paramEncode(ps[k]) \in Seq(Octets)
  <2>1. ps[k] \in Seq(Cap)
    BY SMTT(60)
  <2> QED
    BY <2>1, ParamEncode, Zenon
<1> QED
  BY <1>1, <1>2, SMTT(60)

\* So is their concatenation.
LEMMA OpenEncodeType ==
  ASSUME NEW ps \in Seq(Seq(Cap))
  PROVE  openEncode(ps) \in Seq(Octets)
BY ParamEncodings, FlattenType, SMTT(60) DEF openEncode

\* No parameters, no octets.
LEMMA OpenEncodeEmpty == openEncode(<<>>) = <<>>
<1>1. [k \in DOMAIN <<>> |-> paramEncode(<<>>[k])] = <<>>
  OBVIOUS
<1> QED
  BY <1>1, FlattenEmpty DEF openEncode

\* One more parameter.
LEMMA OpenEncodeAppend ==
  ASSUME NEW ps \in Seq(Seq(Cap)), NEW caps \in Seq(Cap)
  PROVE  openEncode(Append(ps, caps)) = openEncode(ps) \o paramEncode(caps)
<1> DEFINE enc(u) == [k \in DOMAIN u |-> paramEncode(u[k])]
<1>1. enc(ps) \in Seq(Seq(Octets)) /\ paramEncode(caps) \in Seq(Octets)
  BY ParamEncodings, ParamEncode, Zenon
<1>2. enc(Append(ps, caps)) = Append(enc(ps), paramEncode(caps))
  OBVIOUS
<1>3. FlattenSeq(Append(enc(ps), paramEncode(caps))) = FlattenSeq(enc(ps)) \o paramEncode(caps)
  <2> HIDE DEF enc
  <2> QED
    BY <1>1, FlattenAppend, SMTT(60)
<1> QED
  BY <1>2, <1>3, Zenon DEF openEncode

\* A single parameter, which is what newOpenMessage sends.
LEMMA OpenEncodeOne ==
  ASSUME NEW caps \in Seq(Cap)
  PROVE  openEncode(<<caps>>) = paramEncode(caps)
<1>1. <<caps>> = Append(<<>>, caps) /\ <<>> \in Seq(Seq(Cap))
  OBVIOUS
<1>2. openEncode(<<caps>>) = openEncode(<<>>) \o paramEncode(caps)
  BY <1>1, OpenEncodeAppend, Zenon
<1>3. paramEncode(caps) \in Seq(Octets)
  BY ParamEncode, Zenon
<1>4. <<>> \o paramEncode(caps) = paramEncode(caps)
  BY <1>3, ConcatEmptySeq, SMTT(60)
<1> QED
  BY <1>2, <1>4, OpenEncodeEmpty, Zenon

-----------------------------------------------------------------------------
(* An element of either loop.                                              *)

\* A number that fits into an octet is not changed by the conversion uint8
\* (packet.go:376, 492).
LEMMA Uint8Fits ==
  ASSUME NEW n \in Octets
  PROVE  uint8(n) = n
BY Widths DEF uint8, Octets

\* An element that both loops let through is taken off within bounds, as it
\* is, and what is left is shorter (packet.go:364-379, 480-500).
LEMMA Taken ==
  ASSUME NEW s \in Short, ~short(s)
  PROVE  /\ ~outOfRange(s) /\ s[1] \in Octets /\ s[2] \in Octets
         /\ octets(s) \in Short /\ Len(octets(s)) = s[2]
         /\ next(s) \in Short /\ Len(next(s)) < Len(s)
         /\ s = <<s[1], s[2]>> \o (octets(s) \o next(s))
<1>s. s \in Seq(Octets) /\ Len(s) \in Nat /\ Len(s) < W
  BY DEF Short
<1>1. Len(s) >= 2 /\ s[1] \in Octets /\ s[2] \in Octets /\ s[2] \in Nat /\ s[2] + 2 <= Len(s)
  <2>1. Len(s) >= 2
    BY <1>s DEF short
  <2>2. s[1] \in Octets /\ s[2] \in Octets
    BY <1>s, <2>1, SMTT(60)
  <2>3. s[2] \in Nat
    BY <2>2, Widths, SMTT(60) DEF Octets
  <2> QED
    BY <1>s, <2>1, <2>2, <2>3, SMTT(60) DEF short
<1>2. uint8(s[2] + 2) = s[2] + 2
  <2>1. s[2] + 2 \in Octets
    BY <1>s, <1>1, Widths, SMTT(60) DEF Octets
  <2> QED
    BY <2>1, Uint8Fits, SMTT(60)
<1>3. ~outOfRange(s)
  BY <1>1, <1>2, SMTT(60) DEF outOfRange
<1>4. octets(s) = SubSeq(s, 3, s[2] + 2)
  <2>1. CASE s[2] > 0
    BY <2>1, <1>2, Zenon DEF octets
  <2>2. CASE ~(s[2] > 0)
    <3>1. SubSeq(s, 3, s[2] + 2) = <<>>
      <4>1. s[2] + 2 \in Int /\ s[2] + 2 < 3
        BY <2>2, <1>1, SMTT(60)
      <4> QED
        BY <4>1, SubSeqEmpty, SMTT(60)
    <3> QED
      BY <3>1, <2>2, Zenon DEF octets
  <2> QED
    BY <2>1, <2>2, SMTT(60)
<1>5. ASSUME NEW m \in 1..Len(s)+1, NEW n \in m-1..Len(s)
      PROVE  SubSeq(s, m, n) \in Seq(Octets) /\ Len(SubSeq(s, m, n)) = n - m + 1
  <2>1. m \in Int /\ n \in Int /\ \A i \in m..n : s[i] \in Octets
    BY <1>s, SMTT(60)
  <2>2. /\ SubSeq(s, m, n) \in Seq(Octets)
        /\ Len(SubSeq(s, m, n)) = IF m <= n THEN n-m+1 ELSE 0
    BY <2>1, SubSeqProperties, SMTT(60)
  <2> QED
    BY <2>1, <2>2, SMTT(60)
<1>6. octets(s) \in Seq(Octets) /\ Len(octets(s)) = s[2]
  <2>1. 3 \in 1..Len(s)+1 /\ s[2] + 2 \in 3-1..Len(s) /\ (s[2] + 2) - 3 + 1 = s[2]
    BY <1>s, <1>1, SMTT(60)
  <2> QED
    BY <2>1, <1>4, <1>5, SMTT(60)
<1>7. next(s) \in Seq(Octets) /\ Len(next(s)) = Len(s) - s[2] - 2
  <2>1. /\ s[2] + 3 \in 1..Len(s)+1 /\ Len(s) \in (s[2] + 3)-1..Len(s)
        /\ Len(s) - (s[2] + 3) + 1 = Len(s) - s[2] - 2
    BY <1>s, <1>1, SMTT(60)
  <2>2. Len(SubSeq(s, s[2] + 3, Len(s))) = Len(s) - (s[2] + 3) + 1 /\ SubSeq(s, s[2] + 3, Len(s)) \in Seq(Octets)
    BY <2>1, <1>5, SMTT(60)
  <2> QED
    BY <2>1, <2>2, SMTT(60) DEF next
<1>8. octets(s) \in Short /\ next(s) \in Short /\ Len(next(s)) < Len(s)
  <2>1. Len(octets(s)) < W /\ Len(next(s)) < W /\ Len(next(s)) < Len(s)
    BY <1>s, <1>1, <1>6, <1>7, Widths, SMTT(60)
  <2> QED
    BY <2>1, <1>6, <1>7, SMTT(60) DEF Short
<1>9. octets(s) \o next(s) = SubSeq(s, 3, Len(s))
  <2>1. /\ 3 \in 1..Len(s)+1 /\ s[2] + 2 \in 3-1..Len(s) /\ Len(s) \in s[2]+2..Len(s)
        /\ (s[2] + 2) + 1 = s[2] + 3
    BY <1>s, <1>1, SMTT(60)
  <2>2. SubSeq(s, 3, s[2]+2) \o SubSeq(s, (s[2]+2)+1, Len(s)) = SubSeq(s, 3, Len(s))
    BY <2>1, <1>s, ConcatAdjacentSubSeq, Zenon
  <2> QED
    BY <2>1, <2>2, <1>4, Zenon DEF next
<1>10. s = <<s[1], s[2]>> \o SubSeq(s, 3, Len(s))
  <2>1. SubSeq(s, 1, 2) \o SubSeq(s, 2+1, Len(s)) = SubSeq(s, 1, Len(s))
    <3>1. 1 \in 1..Len(s)+1 /\ 2 \in 1-1..Len(s) /\ Len(s) \in 2..Len(s)
      BY <1>s, <1>1, SMTT(60)
    <3> QED
      BY <3>1, <1>s, ConcatAdjacentSubSeq, Zenon
  <2>2. SubSeq(s, 1, Len(s)) = s
    BY <1>s, SubSeqFull, SMTT(60)
  <2>3. SubSeq(s, 1, 2) = <<s[1], s[2]>>
    <3> DEFINE u == SubSeq(s, 1, 2)
    <3>1. u \in Seq(Octets) /\ Len(u) = 2
      <4>1. 1 \in 1..Len(s)+1 /\ 2 \in 1-1..Len(s) /\ 2 - 1 + 1 = 2
        BY <1>s, <1>1, SMTT(60)
      <4> QED
        BY <4>1, <1>5, SMTT(60)
    <3>2. u[1] = s[1] /\ u[2] = s[2]
      BY <1>s, <1>1, SMTT(60)
    <3> HIDE DEF u
    <3>3. u = <<s[1], s[2]>>
      BY <3>1, <3>2, SMTT(60)
    <3> QED
      BY <3>3, SMTT(60) DEF u
  <2> QED
    BY <2>1, <2>2, <2>3, SMTT(60)
<1> QED
  BY <1>1, <1>3, <1>6, <1>8, <1>9, <1>10, SMTT(60)

\* An element in front of r, as both encoders write it.
Framed(x, v, r) == <<x, uint8(Len(v))>> \o (v \o r)

\* What an encoder has put in front of r is what the loop takes off.
LEMMA Takes ==
  ASSUME NEW x \in Octets, NEW v \in Seq(Octets), NEW r \in Seq(Octets),
         NEW s \in Short, s = Framed(x, v, r)
  PROVE  ~short(s) /\ s[1] = x /\ octets(s) = v /\ next(s) = r
<1> DEFINE n == uint8(Len(v))
<1>1. v \o r \in Seq(Octets) /\ Len(v \o r) = Len(v) + Len(r) /\ Len(v) \in Nat /\ Len(r) \in Nat
  BY ConcatProperties, SMTT(60)
<1>2. n \in Octets
  BY <1>1, Uint8Octet, SMTT(60)
<1>3. /\ Len(s) = Len(v \o r) + 2 /\ s[1] = x /\ s[2] = n
      /\ SubSeq(s, 3, Len(v \o r) + 2) = v \o r
  <2>0. s = <<x, n>> \o (v \o r)
    BY SMTT(60) DEF Framed
  <2> HIDE DEF n
  <2> QED
    BY <2>0, <1>1, <1>2, TwoInFront, SMTT(60)
<1>4. n = Len(v)
  <2>1. Len(v) \in Octets
    BY <1>1, <1>3, Widths, SMTT(60) DEF Short, Octets
  <2> QED
    BY <2>1, Uint8Fits, SMTT(60)
<1>5. ~short(s)
  BY <1>1, <1>3, <1>4, SMTT(60) DEF short
<1>6. /\ octets(s) \in Seq(Octets) /\ next(s) \in Seq(Octets) /\ Len(octets(s)) = s[2]
      /\ s = <<s[1], s[2]>> \o (octets(s) \o next(s))
  BY <1>5, Taken, Zenon DEF Short
<1>7. octets(s) \o next(s) = v \o r
  <2> DEFINE t == octets(s) \o next(s)
  <2>1. t \in Seq(Octets) /\ s = <<x, n>> \o t
    <3> HIDE DEF n
    <3> QED
      BY <1>3, <1>6, ConcatProperties, Zenon
  <2>2. Len(s) = Len(t) + 2 /\ SubSeq(s, 3, Len(t) + 2) = t
    <3> HIDE DEF n, t
    <3> QED
      BY <2>1, <1>2, TwoInFront, SMTT(60)
  <2>3. Len(t) = Len(v \o r)
    <3> HIDE DEF t
    <3>1. Len(t) \in Nat /\ Len(v \o r) \in Nat
      BY <2>1, <1>1, SMTT(60)
    <3> QED
      BY <3>1, <2>2, <1>3, Zenon
  <2> QED
    BY <2>2, <2>3, <1>3, Zenon
<1>8. octets(s) = v /\ next(s) = r
  <2>1. Len(octets(s)) = Len(v)
    BY <1>3, <1>4, <1>6, SMTT(60)
  <2>2. ASSUME NEW a1 \in Seq(Octets), NEW d1 \in Seq(Octets), a1 \o d1 = v \o r, Len(a1) = Len(v)
        PROVE  a1 = v /\ d1 = r
    BY <2>2, SameCut, Zenon
  <2> QED
    BY <2>1, <2>2, <1>6, <1>7, Zenon
<1> QED
  BY <1>3, <1>5, <1>8, SMTT(60)

-----------------------------------------------------------------------------
(* Types, and the bounds of slices.                                        *)

\* Both loops work on octets that are no more than an octet can count
\* (packet.go:349, 376-379, 492-500), the inner one for a parameter.
IInv == TypeOK /\ NoPanic /\ (pc = "caps" => params # <<>>)

\* What is given is capabilities, and so is what is decoded.
LEMMA Caps ==
  /\ Given \subseteq Seq(Cap) /\ Capability \subseteq Cap
  /\ Seq(Capability) \subseteq Seq(Cap) /\ Seq(Seq(Capability)) \subseteq Seq(Seq(Cap))
<1>1. Given \subseteq Seq(Cap)
  BY OpenAssumption, Zenon DEF OpenAssumption, Cap
<1>2. Capability \subseteq Cap
  BY DEF Capability, Cap, Short
<1>3. ASSUME NEW S, NEW T, S \subseteq T PROVE Seq(S) \subseteq Seq(T)
  BY <1>3, SMTT(60)
<1>4. Seq(Capability) \subseteq Seq(Cap)
  BY <1>2, <1>3, SMTT(60)
<1>5. Seq(Seq(Capability)) \subseteq Seq(Seq(Cap))
  BY <1>4, <1>3, SMTT(60)
<1> QED
  BY <1>1, <1>2, <1>4, <1>5, SMTT(60)

\* What newOpenMessage yields, encoded: the parameters are one, of all
\* capabilities (packet.go:400-417, 432-458).
LEMMA OwnBody ==
  ASSUME NEW as \in ASNs, NEW g \in Given
  PROVE  /\ allCaps(as, g) \in Seq(Cap)
         /\ openEncode(<<allCaps(as, g)>>) = paramEncode(allCaps(as, g))
         /\ openEncode(<<allCaps(as, g)>>) \in Seq(Octets)
<1>1. g \in Seq(Cap)
  BY Caps, SMTT(60)
<1>2. allCaps(as, g) \in Seq(Cap)
  BY <1>1, AllCaps, Zenon
<1> QED
  BY <1>2, OpenEncodeOne, ParamEncode, Zenon

\* The loops have nothing to decode yet, and what is sent is octets
\* (packet.go:338-359, 400-417).
LEMMA InitIInv == Init => IInv
<1> SUFFICES ASSUME Init PROVE IInv
  OBVIOUS
<1>1. body \in Seq(Octets)
  BY OpenAssumption, OwnBody, SMTT(60) DEF Init, OpenAssumption
<1>2. <<>> \in Short /\ <<>> \in Seq(Seq(Capability))
  BY Widths, SMTT(60) DEF Short
<1>3. given \in Given \cup {<<>>} /\ own \in BOOLEAN
  BY Zenon DEF Init
<1> QED
  BY <1>1, <1>2, <1>3, SMTT(60) DEF Init, IInv, NoPanic, TypeOK, Results

\* What validation returns is a result (packet.go:250-325).
LEMMA ValidateType ==
  ASSUME NEW o, NEW caps, NEW as
  PROVE  validate(o, caps, as) \in Results
<1>1. ASSUME NEW t PROVE validateCaps(t, caps, as) \in Results
  BY DEF validateCaps, Results
<1> QED
  BY <1>1, Zenon DEF validate, Results

\* Each action keeps the invariant: decode compares the length octet with the
\* length before the loops start, and the loops only shorten what they hold.
LEMMA NextIInv == IInv /\ [Next]_vars => IInv'
<1> SUFFICES ASSUME IInv, [Next]_vars PROVE IInv'
  BY SMTT(60)
<1>o. TypeOK /\ remoteAS' = remoteAS /\ own' = own /\ given' = given /\ body' = body
  BY DEF IInv, Next, vars, decode, decodeOptionalParams, capabilityDecode, validated, Done
<1>f. opens' = opens
  BY <1>o, SMTT(60) DEF opens
<1> DEFINE Rest == /\ pc \in {"decode", "params", "caps", "validate", "done"} /\ result \in Results
                   /\ b \in Short /\ c \in Short /\ params \in Seq(Seq(Capability))
                   /\ open \in opens \cup {NoOpen} /\ (pc = "caps" => params # <<>>)
<1>r. Rest
  BY SMTT(60) DEF IInv, TypeOK, NoPanic
<1>s. Rest' => IInv'
  BY <1>o, SMTT(60) DEF IInv, TypeOK, NoPanic
<1>1. CASE decode
  <2>1. \/ pc' = "done" /\ b' = b /\ result' \in Results
        \/ pc' = "params" /\ b' = body /\ Len(body) \in Octets /\ result' = result
    <3>1. uint8(Len(body)) \in Octets
      <4>1. Len(body) \in Nat
        BY <1>o, SMTT(60) DEF TypeOK
      <4> QED
        BY <4>1, Uint8Octet, SMTT(60)
    <3> QED
      BY <3>1, <1>1, SMTT(60) DEF decode, return, Results
  <2>2. Len(body) \in Octets => body \in Short
    BY <1>o, Widths, SMTT(60) DEF TypeOK, Short, Octets
  <2>3. c' = c /\ params' = params /\ open' = open
    BY <1>1, SMTT(60) DEF decode
  <2>4. Rest'
    BY <2>1, <2>2, <2>3, <1>f, <1>r, SMTT(60)
  <2> QED
    BY <2>4, <1>s, SMTT(60)
<1>2. CASE decodeOptionalParams
  <2>0. open' = open
    BY <1>2, SMTT(60) DEF decodeOptionalParams
  <2>1. CASE short(b)
    <3>1. pc' = "done" /\ result' = "unspecific" /\ b' = b /\ c' = c /\ params' = params
      BY <1>2, <2>1, SMTT(60) DEF decodeOptionalParams, return
    <3>2. Rest'
      BY <3>1, <2>0, <1>f, <1>r, SMTT(60) DEF Results
    <3> QED
      BY <3>2, <1>s
  <2>2. CASE ~short(b)
    <3>1. ~outOfRange(b) /\ octets(b) \in Short /\ next(b) \in Short
      BY <2>2, <1>r, Taken, Zenon
    <3>2. /\ b' = next(b) /\ c' = octets(b)
          /\ pc' \in {"caps", "done"} /\ result' \in {result, "unsupportedOptionalParam"}
          /\ params' \in {params, Append(params, <<>>)}
          /\ pc' = "caps" => params' = Append(params, <<>>)
      BY <1>2, <2>2, <3>1, SMTT(60) DEF decodeOptionalParams, return
    <3>3. Append(params, <<>>) \in Seq(Seq(Capability)) /\ Append(params, <<>>) # <<>>
      BY <1>r, EmptySeq, AppendProperties, SMTT(60)
    <3>4. Rest'
      BY <3>1, <3>2, <3>3, <2>0, <1>f, <1>r, Zenon DEF Results
    <3> QED
      BY <3>4, <1>s
  <2> QED
    BY <2>1, <2>2, SMTT(60)
<1>3. CASE capabilityDecode
  <2>0. open' = open /\ b' = b
    BY <1>3, SMTT(60) DEF capabilityDecode
  <2>1. CASE short(c)
    <3>1. pc' = "done" /\ result' = "unspecific" /\ c' = c /\ params' = params
      BY <1>3, <2>1, SMTT(60) DEF capabilityDecode, return
    <3>2. Rest'
      BY <3>1, <2>0, <1>f, <1>r, SMTT(60) DEF Results
    <3> QED
      BY <3>2, <1>s
  <2>2. CASE ~short(c)
    <3> DEFINE cap == [Code |-> c[1], Value |-> octets(c)]
    <3>1. ~outOfRange(c) /\ octets(c) \in Short /\ next(c) \in Short /\ c[1] \in Octets
      BY <2>2, <1>r, Taken, Zenon
    <3>2. /\ c' = next(c) /\ pc' \in {"caps", "params", "validate"} /\ result' = result
          /\ params' = [params EXCEPT ![Len(params)] = Append(@, cap)]
      BY <1>3, <2>2, <3>1, SMTT(60) DEF capabilityDecode
    <3>3. cap \in Capability
      BY <3>1, SMTT(60) DEF Capability
    <3> HIDE DEF cap
    <3>4. params' \in Seq(Seq(Capability)) /\ params' # <<>>
      <4>1. ASSUME NEW S, NEW ps \in Seq(Seq(S)), NEW x \in S, ps # <<>>
            PROVE  /\ [ps EXCEPT ![Len(ps)] = Append(@, x)] \in Seq(Seq(S))
                   /\ [ps EXCEPT ![Len(ps)] = Append(@, x)] # <<>>
        <5>1. Len(ps) \in 1..Len(ps)
          BY <4>1, SMTT(60)
        <5>2. ps[Len(ps)] \in Seq(S)
          BY <5>1, SMTT(60)
        <5>3. Append(ps[Len(ps)], x) \in Seq(S)
          BY <5>2, AppendProperties, SMTT(60)
        <5> QED
          BY <5>1, <5>3, ExceptSeq, SMTT(60)
      <4>2. params # <<>>
        BY <1>3, <1>r, SMTT(60) DEF capabilityDecode
      <4> QED
        BY <4>1, <4>2, <3>2, <3>3, <1>r, SMTT(60)
    <3>5. Rest'
      BY <3>1, <3>2, <3>4, <2>0, <1>f, <1>r, SMTT(60)
    <3> QED
      BY <3>5, <1>s
  <2> QED
    BY <2>1, <2>2
<1>4. CASE validated
  <2>1. /\ open' \in opens /\ pc' = "done" /\ result' \in Results
        /\ b' = b /\ c' = c /\ params' = params
    BY <1>4, ValidateType, SMTT(60) DEF validated, return
  <2>2. Rest'
    BY <2>1, <1>f, <1>r, SMTT(60)
  <2> QED
    BY <2>2, <1>s
<1>5. CASE Done \/ UNCHANGED vars
  <2>1. Rest'
    BY <1>5, <1>f, <1>r, SMTT(60) DEF Done, vars
  <2> QED
    BY <2>1, <1>s
<1> QED
  BY <1>1, <1>2, <1>3, <1>4, <1>5, SMTT(60) DEF Next

-----------------------------------------------------------------------------
(* Nothing is lost.                                                        *)

\* What has been decoded and what is still to be decoded are the octets sent,
\* in the inner loop with the parameter it is in (packet.go:361-398, 478-505).
Decoded ==
  /\ pc = "decode" => params = <<>>
  /\ pc = "params" => openEncode(params) \o b = body
  /\ pc = "caps" => \E ps \in Seq(Seq(Cap)), caps \in Seq(Cap) :
       LET v == CapsEncode(caps) \o c
       IN /\ params = Append(ps, caps) /\ Len(v) \in Octets
          /\ openEncode(ps) \o (<<capabilityOptionalParamType, Len(v)>> \o (v \o b)) = body
  /\ pc = "validate" => openEncode(params) = body

\* Parts of octets can be put together in any order.
LEMMA Assoc ==
  ASSUME NEW x \in Seq(Octets), NEW y \in Seq(Octets), NEW z \in Seq(Octets)
  PROVE  (x \o y) \o z = x \o (y \o z) /\ x \o y \in Seq(Octets)
BY ConcatAssociative, ConcatProperties, SMTT(60)

\* An iteration of the outer loop cuts a parameter off (packet.go:364-379).
LEMMA CutParam ==
  ASSUME IInv, Decoded, decodeOptionalParams
  PROVE  Decoded'
<1>t. /\ pc = "params" /\ params \in Seq(Seq(Cap)) /\ b \in Short /\ openEncode(params) \o b = body
      /\ body' = body
  BY Caps, SMTT(60) DEF IInv, TypeOK, Decoded, decodeOptionalParams
<1>1. CASE pc' # "caps"
  <2>1. pc' \in {"done", "panic"}
    BY <1>1, SMTT(60) DEF decodeOptionalParams, return
  <2> QED
    BY <2>1, SMTT(60) DEF Decoded
<1>2. CASE pc' = "caps"
  <2>1. /\ ~short(b) /\ b[1] = capabilityOptionalParamType
        /\ b' = next(b) /\ c' = octets(b) /\ params' = Append(params, <<>>)
    BY <1>2, SMTT(60) DEF decodeOptionalParams, return
  <2>2. /\ b[2] \in Octets /\ Len(octets(b)) = b[2] /\ octets(b) \in Seq(Octets)
        /\ b = <<b[1], b[2]>> \o (octets(b) \o next(b))
    BY <2>1, <1>t, Taken, Zenon DEF Short
  <2>3. CapsEncode(<<>>) \o octets(b) = octets(b)
    BY <2>2, CapsEncodeEmpty, ConcatEmptySeq, SMTT(60)
  <2>4. <<>> \in Seq(Cap)
    BY EmptySeq, SMTT(60)
  <2>5. openEncode(params) \o (<<capabilityOptionalParamType, Len(octets(b))>>
                                 \o (octets(b) \o next(b))) = body
    BY <2>1, <2>2, <1>t, Zenon
  <2>6. \E ps \in Seq(Seq(Cap)), caps \in Seq(Cap) :
         /\ params' = Append(ps, caps) /\ Len(CapsEncode(caps) \o c') \in Octets
         /\ openEncode(ps) \o (<<capabilityOptionalParamType, Len(CapsEncode(caps) \o c')>>
                                  \o ((CapsEncode(caps) \o c') \o b')) = body
    BY <2>1, <2>2, <2>3, <2>4, <2>5, <1>t, Zenon
  <2> QED
    BY <2>6, <1>2, <1>t, Zenon DEF Decoded
<1> QED
  BY <1>1, <1>2

\* An iteration of the inner loop cuts a capability off the parameter; with the
\* last one, the parameter is complete (packet.go:480-504).
LEMMA CutCapability ==
  ASSUME IInv, Decoded, capabilityDecode
  PROVE  Decoded'
<1>t. /\ pc = "caps" /\ params \in Seq(Seq(Cap)) /\ c \in Short /\ b \in Seq(Octets)
      /\ body' = body /\ b' = b
  BY Caps, SMTT(60) DEF IInv, TypeOK, Short, capabilityDecode
<1>1. CASE pc' \in {"done", "panic"}
  BY <1>1, SMTT(60) DEF Decoded
<1>2. CASE pc' \notin {"done", "panic"}
  <2> DEFINE cap == [Code |-> c[1], Value |-> octets(c)]
             v == capabilityEncode(cap)
  <2>1. /\ ~short(c) /\ c' = next(c)
        /\ params' = [params EXCEPT ![Len(params)] = Append(@, cap)]
        /\ pc' = IF c' # <<>> THEN "caps" ELSE IF b # <<>> THEN "params" ELSE "validate"
    BY <1>2, SMTT(60) DEF capabilityDecode, return
  <2>2. /\ c[1] \in Octets /\ c[2] \in Octets /\ octets(c) \in Short /\ Len(octets(c)) = c[2]
        /\ next(c) \in Seq(Octets) /\ c = <<c[1], c[2]>> \o (octets(c) \o next(c))
    BY <2>1, <1>t, Taken, Zenon DEF Short
  <2>3. cap \in Cap
    BY <2>2, SMTT(60) DEF Cap, Short
  <2>4. v \in Seq(Octets) /\ c = v \o next(c)
    <3>1. v = <<c[1], c[2]>> \o octets(c)
      BY <2>2, Uint8Fits, SMTT(60) DEF capabilityEncode
    <3>2. octets(c) \in Seq(Octets) /\ <<c[1], c[2]>> \in Seq(Octets)
      BY <2>2, SMTT(60) DEF Short
    <3> DEFINE h == <<c[1], c[2]>>
    <3>3. (h \o octets(c)) \o next(c) = h \o (octets(c) \o next(c)) /\ h \o octets(c) \in Seq(Octets)
      <4>1. h \in Seq(Octets)
        BY <3>2, SMTT(60)
      <4>2. octets(c) \in Seq(Octets) /\ next(c) \in Seq(Octets)
        BY <3>2, <2>2, SMTT(60)
      <4> HIDE DEF h
      <4>3. h \o octets(c) \in Seq(Octets)
        BY <4>1, <4>2, Assoc, SMTT(60)
      <4> QED
        BY <4>1, <4>2, <4>3, Assoc, SMTT(60)
    <3> QED
      BY <3>1, <3>3, <2>2, Zenon
  <2> HIDE DEF cap, v
  <2>5. PICK ps \in Seq(Seq(Cap)), caps \in Seq(Cap) :
         /\ params = Append(ps, caps) /\ Len(CapsEncode(caps) \o c) \in Octets
         /\ openEncode(ps) \o (<<capabilityOptionalParamType, Len(CapsEncode(caps) \o c)>>
                                  \o ((CapsEncode(caps) \o c) \o b)) = body
    BY <1>t, Zenon DEF Decoded
  <2> DEFINE more == Append(caps, cap)
  <2>6. more \in Seq(Cap) /\ CapsEncode(more) = CapsEncode(caps) \o v
    <3>1. more = caps \o <<cap>> /\ <<cap>> \in Seq(Cap) /\ more \in Seq(Cap)
      BY <2>3, AppendIsConcat, AppendProperties, SMTT(60)
    <3>2. CapsEncode(caps \o <<cap>>) = CapsEncode(caps) \o CapsEncode(<<cap>>)
      BY <3>1, CapsEncodeConcat, Zenon
    <3> QED
      BY <3>1, <3>2, <2>3, CapsEncodeOne, Zenon DEF v
  <2> HIDE DEF more
  <2>7. params' = Append(ps, more)
    <3>1. params[Len(params)] = caps
      BY <2>5, AppendProperties, SMTT(60)
    <3>2. params' = [params EXCEPT ![Len(params)] = more]
      BY <3>1, <2>1, SMTT(60) DEF more
    <3>3. /\ params \in Seq(Seq(Cap)) /\ Len(params) = Len(ps) + 1
          /\ \A i \in 1..Len(ps) : params[i] = ps[i]
      BY <2>5, AppendProperties, SMTT(60)
    <3>4. /\ params' \in Seq(Seq(Cap)) /\ Len(params') = Len(params)
          /\ \A i \in 1..Len(params) : params'[i] = IF i = Len(params) THEN more ELSE params[i]
      <4>1. more \in Seq(Cap) /\ Len(params) \in 1..Len(params)
        BY <2>6, <3>3, SMTT(60)
      <4> QED
        BY <4>1, <3>2, <3>3, ExceptSeq, SMTT(60)
    <3>5. \A i \in 1..Len(ps) : params'[i] = ps[i]
      BY <3>3, <3>4, SMTT(60)
    <3>6. Len(params') = Len(ps) + 1 /\ params'[Len(ps)+1] = more /\ more \in Seq(Cap)
      BY <2>6, <3>3, <3>4, SMTT(60)
    <3> QED
      BY <3>4, <3>5, <3>6, IsAppend, SMTT(60)
  <2>e. CapsEncode(caps) \in Seq(Octets) /\ CapsEncode(more) \in Seq(Octets)
    BY <2>6, CapsEncodeType, Zenon
  <2>8. CapsEncode(more) \o c' = CapsEncode(caps) \o c
    <3>1. ASSUME NEW e \in Seq(Octets) PROVE (e \o v) \o next(c) = e \o (v \o next(c))
      BY <2>2, <2>4, Assoc, Zenon
    <3> QED
      BY <3>1, <2>1, <2>4, <2>6, <2>e, Zenon
  <2>9. CASE c' # <<>>
    <3>1. \E qs \in Seq(Seq(Cap)), ds \in Seq(Cap) :
         /\ params' = Append(qs, ds) /\ Len(CapsEncode(ds) \o c') \in Octets
         /\ openEncode(qs) \o (<<capabilityOptionalParamType, Len(CapsEncode(ds) \o c')>>
                                  \o ((CapsEncode(ds) \o c') \o b')) = body
      BY <2>5, <2>6, <2>7, <2>8, <1>t, Zenon
    <3> QED
      BY <3>1, <2>1, <2>9, <1>t, Zenon DEF Decoded
  <2>10. CASE c' = <<>>
    <3> DEFINE e == CapsEncode(more)
               h == <<capabilityOptionalParamType, Len(e)>>
    <3>1. e = CapsEncode(caps) \o c /\ Len(e) \in Octets
      <4>1. e \o <<>> = e
        BY <2>e, ConcatEmptySeq, SMTT(60)
      <4> QED
        BY <4>1, <2>5, <2>8, <2>10, Zenon
    <3>2. openEncode(params') = openEncode(ps) \o (h \o e)
      <4>1. paramEncode(more) = h \o e
        BY <3>1, <2>6, ParamEncode, Uint8Fits, Zenon
      <4> QED
        BY <4>1, <2>6, <2>7, OpenEncodeAppend, Zenon
    <3>3. h \in Seq(Octets) /\ openEncode(ps) \in Seq(Octets)
      BY <3>1, OpenEncodeType, Widths, SMTT(60) DEF capabilityOptionalParamType, Octets
    <3>4. openEncode(ps) \o (h \o (e \o b)) = body
      BY <3>1, <2>5, Zenon
    <3> HIDE DEF e, h
    <3>5. openEncode(params') \o b = body
      <4>0. e \in Seq(Octets)
        BY <2>e, SMTT(60) DEF e
      <4>1. h \o (e \o b) = (h \o e) \o b /\ h \o e \in Seq(Octets)
        <5>1. h \in Seq(Octets)
          BY <3>3, SMTT(60)
        <5>2. b \in Seq(Octets)
          BY <1>t, SMTT(60)
        <5>3. h \o e \in Seq(Octets)
          BY <5>1, <4>0, Assoc, SMTT(60)
        <5>4. h \o (e \o b) = (h \o e) \o b
          BY <5>1, <5>2, <4>0, Assoc, SMTT(60)
        <5> QED
          BY <5>3, <5>4, SMTT(60)
      <4>2. ASSUME NEW x \in Seq(Octets), NEW y \in Seq(Octets) PROVE (x \o y) \o b = x \o (y \o b)
        BY <1>t, Assoc, Zenon
      <4> QED
        BY <4>1, <4>2, <3>2, <3>3, <3>4, Zenon
    <3>6. CASE b # <<>>
      BY <3>5, <3>6, <2>1, <2>10, <1>t, Zenon DEF Decoded
    <3>7. CASE b = <<>>
      <4>1. openEncode(params') \in Seq(Octets)
        <5>1. params' \in Seq(Seq(Cap))
          BY <2>6, <2>7, AppendProperties, SMTT(60)
        <5> QED
          BY <5>1, OpenEncodeType, SMTT(60)
      <4>2. openEncode(params') = body
        BY <4>1, <3>5, <3>7, ConcatEmptySeq, SMTT(60)
      <4> QED
        BY <4>2, <3>7, <2>1, <2>10, <1>t, SMTT(60) DEF Decoded
    <3> QED
      BY <3>6, <3>7, SMTT(60)
  <2> QED
    BY <2>9, <2>10, SMTT(60)
<1> QED
  BY <1>1, <1>2, SMTT(60)

\* Nothing is decoded yet.
LEMMA InitDecoded == Init => Decoded
BY SMTT(60) DEF Init, Decoded

\* Each step keeps the octets together.
LEMMA NextDecoded == IInv /\ Decoded /\ [Next]_vars => Decoded'
<1> SUFFICES ASSUME IInv, Decoded, [Next]_vars PROVE Decoded'
  BY SMTT(60)
<1>1. CASE decode
  <2>1. pc' = "done" \/ (pc' = "params" /\ b' = body /\ body' = body /\ params' = params)
    BY <1>1, SMTT(60) DEF decode, return
  <2>2. params = <<>> /\ body \in Seq(Octets)
    BY <1>1, SMTT(60) DEF decode, IInv, TypeOK, Decoded
  <2>3. openEncode(<<>>) \o body = body
    BY <2>2, OpenEncodeEmpty, ConcatEmptySeq, SMTT(60)
  <2> QED
    BY <2>1, <2>2, <2>3, SMTT(60) DEF Decoded
<1>2. CASE decodeOptionalParams
  BY <1>2, CutParam, SMTT(60)
<1>3. CASE capabilityDecode
  BY <1>3, CutCapability, SMTT(60)
<1>4. CASE validated
  BY <1>4, SMTT(60) DEF validated, return, Decoded
<1>5. CASE Done \/ UNCHANGED vars
  BY <1>5, Zenon DEF Done, vars, Decoded
<1> QED
  BY <1>1, <1>2, <1>3, <1>4, <1>5, SMTT(60) DEF Next

-----------------------------------------------------------------------------
(* Validation.                                                             *)

\* The result of an OPEN that was looked at is what validate returns.
Judged == open # NoOpen => pc = "done" /\ result = validate(open, getCapabilities, remoteAS)

\* Only validation, which is the end, sets either of the two.
LEMMA NextJudged == Judged /\ [Next]_vars => Judged'
<1> SUFFICES ASSUME Judged, [Next]_vars PROVE Judged'
  OBVIOUS
<1>1. CASE decode
  BY <1>1, SMTT(60) DEF decode, Judged
<1>2. CASE decodeOptionalParams
  BY <1>2, SMTT(60) DEF decodeOptionalParams, Judged
<1>3. CASE capabilityDecode
  BY <1>3, SMTT(60) DEF capabilityDecode, Judged
<1>4. CASE validated
  BY <1>4, SMTT(60) DEF validated, return, Judged, getCapabilities
<1>5. CASE Done \/ UNCHANGED vars
  BY <1>5, SMTT(60) DEF Done, vars, Judged, getCapabilities
<1> QED
  BY <1>1, <1>2, <1>3, <1>4, <1>5 DEF Next

\* An OPEN is accepted only with a capability that holds the AS number
\* (packet.go:285-324).
LEMMA AcceptedAS ==
  ASSUME NEW o, NEW caps, NEW as, validate(o, caps, as) = "nil"
  PROVE  /\ \E k \in DOMAIN caps : caps[k].Code = CAP_FOUR_OCTET_AS
         /\ \A k \in DOMAIN caps : caps[k].Code = CAP_FOUR_OCTET_AS => caps[k].Value = PutUint(as)
<1>1. validateCaps(o.asn = asTrans, caps, as) = "nil"
  BY Zenon DEF validate
<1> DEFINE four == {k \in DOMAIN caps : caps[k].Code = CAP_FOUR_OCTET_AS}
           bad == {k \in four : caps[k].Value # PutUint(as)}
<1>2. bad = {} /\ four # {}
  <2>1. validateCaps(o.asn = asTrans, caps, as) =
          IF bad # {} THEN IF Len(caps[Min(bad)].Value) # ASLen THEN "unspecific" ELSE "badPeerAS"
          ELSE IF four # {} THEN "nil"
          ELSE IF o.asn = asTrans THEN "badPeerAS" ELSE "unsupportedCapability"
    BY DEF validateCaps
  <2> HIDE DEF bad, four
  <2> QED
    BY <1>1, <2>1, Zenon
<1> QED
  BY <1>2, Zenon

\* The same OPEN is not accepted for two AS numbers.
LEMMA JudgedOnce == IInv /\ Judged => OneAS
<1> SUFFICES ASSUME IInv, Judged, open # NoOpen, result = "nil",
                    NEW as \in ASNs, as # remoteAS,
                    validate(open, getCapabilities, as) = "nil"
             PROVE  FALSE
  BY Zenon DEF OneAS
<1>1. validate(open, getCapabilities, remoteAS) = "nil"
  BY SMTT(60) DEF Judged
<1>2. PICK k \in DOMAIN getCapabilities :
        getCapabilities[k].Code = CAP_FOUR_OCTET_AS /\ getCapabilities[k].Value = PutUint(remoteAS)
  BY <1>1, AcceptedAS, SMTT(60)
<1>3. getCapabilities[k].Value = PutUint(as)
  BY <1>2, AcceptedAS, Zenon
<1>4. remoteAS \in ASNs
  BY SMTT(60) DEF IInv, TypeOK
<1> QED
  BY <1>2, <1>3, <1>4, PutUintInjective, Zenon

-----------------------------------------------------------------------------
(* An OPEN of this code.                                                   *)

\* How an OPEN of this code is decoded: the capabilities before and behind the
\* place where the inner loop is are those that were sent.
all == allCaps(remoteAS, given)
Understanding ==
  own =>
    /\ given \in Given /\ body = openEncode(<<all>>)
    /\ Len(body) < W =>
         /\ pc = "params" => params = <<>> /\ b = body
         /\ pc = "caps" => b = <<>> /\ \E s \in Seq(Cap), t \in Seq(Cap) :
              /\ all = s \o t /\ t # <<>>
              /\ params = <<s>> /\ c = CapsEncode(t)
         /\ pc \in {"validate", "done"} => params = <<all>>
         /\ pc = "done" => open # NoOpen

\* The single parameter is cut off.
LEMMA OwnParam ==
  ASSUME IInv, Understanding, decodeOptionalParams, own, Len(body) < W
  PROVE  Understanding'
<1>t. /\ pc = "params" /\ params = <<>> /\ b = body /\ b \in Short /\ given \in Given /\ remoteAS \in ASNs
      /\ body = openEncode(<<all>>) /\ own' = own /\ given' = given /\ body' = body /\ all' = all
  BY SMTT(60) DEF IInv, TypeOK, Understanding, decodeOptionalParams, all
<1>1. /\ all \in Seq(Cap) /\ all # <<>> /\ body = paramEncode(all)
  <2>1. given \in Seq(Cap)
    BY <1>t, Caps, SMTT(60)
  <2>2. all \in Seq(Cap) /\ Len(all) >= 1
    BY <2>1, <1>t, AllCaps, SMTT(60) DEF all
  <2>3. body = paramEncode(all)
    BY <2>2, <1>t, OpenEncodeOne, SMTT(60)
  <2> QED
    BY <2>2, <2>3, SMTT(60)
<1> DEFINE v == CapsEncode(all)
<1>2. v \in Seq(Octets) /\ v \o <<>> = v /\ <<>> \in Seq(Octets)
  BY <1>1, CapsEncodeType, ConcatEmptySeq, EmptySeq, SMTT(60)
<1>3. body = <<capabilityOptionalParamType, uint8(Len(v))>> \o v
  BY <1>1, ParamEncode, SMTT(60)
<1>4. capabilityOptionalParamType \in Octets
  BY Widths, SMTT(60) DEF capabilityOptionalParamType, Octets
<1>5. ~short(b) /\ b[1] = capabilityOptionalParamType /\ octets(b) = v /\ next(b) = <<>>
  <2> HIDE DEF v
  <2>1. b \in Short /\ b = Framed(capabilityOptionalParamType, v, <<>>)
    BY <1>2, <1>3, <1>t, SMTT(60) DEF Framed
  <2>2. v \in Seq(Octets) /\ <<>> \in Seq(Octets)
    BY <1>2, SMTT(60)
  <2> QED
    BY <2>1, <2>2, <1>4, Takes, Zenon
<1>6. ~outOfRange(b)
  BY <1>5, <1>t, Taken, Zenon
<1>7. pc' = "caps" /\ b' = <<>> /\ c' = v /\ params' = <<<<>>>>
  <2>1. pc' = "caps" /\ b' = <<>> /\ c' = v /\ params' = Append(params, <<>>)
    BY <1>5, <1>6, SMTT(60) DEF decodeOptionalParams
  <2> QED
    BY <2>1, <1>t, SMTT(60)
<1>8. all = <<>> \o all /\ <<>> \in Seq(Cap)
  BY <1>1, ConcatEmptySeq, EmptySeq, SMTT(60)
<1>9. \E s \in Seq(Cap), t \in Seq(Cap) :
        all = s \o t /\ t # <<>> /\ params' = <<s>> /\ c' = CapsEncode(t)
  BY <1>1, <1>7, <1>8, Zenon
<1> QED
  BY <1>t, <1>7, <1>9, Zenon DEF Understanding

\* A capability is cut off.
LEMMA OwnCapability ==
  ASSUME IInv, Understanding, capabilityDecode, own, Len(body) < W
  PROVE  Understanding'
<1>t. /\ pc = "caps" /\ b = <<>> /\ b' = b /\ c \in Short /\ given \in Given
      /\ body = openEncode(<<all>>) /\ own' = own /\ given' = given /\ body' = body /\ all' = all
  BY SMTT(60) DEF IInv, TypeOK, Understanding, capabilityDecode, all
<1>1. PICK s \in Seq(Cap), t \in Seq(Cap) :
        all = s \o t /\ t # <<>> /\ params = <<s>> /\ c = CapsEncode(t)
  BY <1>t, SMTT(60) DEF Understanding
<1> DEFINE x == t[1]
           r == SubSeq(t, 2, Len(t))
<1>2. x \in Cap /\ r \in Seq(Cap) /\ t = <<x>> \o r /\ <<x>> \in Seq(Cap)
  <2>1. Len(t) \in Nat /\ 1 \in 1..Len(t) /\ Len(t) \in 1..Len(t)
    BY <1>1, SMTT(60)
  <2>2. SubSeq(t, 1, Len(t)) = <<t[1]>> \o SubSeq(t, 1+1, Len(t))
    BY <2>1, SubSeqRecursiveFirst, SMTT(60)
  <2>3. SubSeq(t, 1, Len(t)) = t
    BY SubSeqFull, SMTT(60)
  <2>4. r \in Seq(Cap)
    BY <2>1, SubSeqProperties, SMTT(60)
  <2> QED
    BY <2>1, <2>2, <2>3, <2>4
<1> HIDE DEF x, r
<1> DEFINE u == CapsEncode(r)
<1>3. u \in Seq(Octets) /\ c = capabilityEncode(x) \o u
  <2>1. CapsEncode(<<x>> \o r) = CapsEncode(<<x>>) \o u
    BY <1>2, CapsEncodeConcat, Zenon
  <2>2. CapsEncode(<<x>>) = capabilityEncode(x)
    BY <1>2, CapsEncodeOne, SMTT(60)
  <2>3. u \in Seq(Octets)
    BY <1>2, CapsEncodeType, SMTT(60)
  <2> HIDE DEF u
  <2> QED
    BY <1>1, <1>2, <2>1, <2>2, <2>3, Zenon
<1>4. /\ x.Code \in Octets /\ x.Value \in Seq(Octets) /\ uint8(Len(x.Value)) \in Octets
      /\ x = [Code |-> x.Code, Value |-> x.Value]
  <2>1. x.Code \in Octets /\ x.Value \in Seq(Octets) /\ x = [Code |-> x.Code, Value |-> x.Value]
    BY <1>2, SMTT(60) DEF Cap
  <2>2. Len(x.Value) \in Nat
    BY <2>1, SMTT(60)
  <2> QED
    BY <2>1, <2>2, Uint8Octet, SMTT(60)
<1>5. c = Framed(x.Code, x.Value, u)
  <2> DEFINE h == <<x.Code, uint8(Len(x.Value))>>
  <2>1. c = (h \o x.Value) \o u
    BY <1>3, SMTT(60) DEF capabilityEncode
  <2>2. h \in Seq(Octets)
    BY <1>4, SMTT(60)
  <2>3. x.Value \in Seq(Octets) /\ u \in Seq(Octets)
    BY <1>3, <1>4, SMTT(60)
  <2> HIDE DEF h, u
  <2>4. (h \o x.Value) \o u = h \o (x.Value \o u)
    BY <2>2, <2>3, Assoc, Zenon
  <2> QED
    BY <2>1, <2>4, Zenon DEF h, Framed
<1>6. ~short(c) /\ c[1] = x.Code /\ octets(c) = x.Value /\ next(c) = u
  <2> HIDE DEF u
  <2>1. x.Code \in Octets /\ x.Value \in Seq(Octets) /\ u \in Seq(Octets) /\ c \in Short
    BY <1>3, <1>4, <1>t, SMTT(60)
  <2> QED
    BY <2>1, <1>5, Takes, SMTT(60)
<1>7. ~outOfRange(c)
  BY <1>6, <1>t, Taken, Zenon
<1> DEFINE w == s \o <<x>>
<1>8. w \in Seq(Cap) /\ all = w \o r
  <2>1. w \in Seq(Cap)
    BY <1>2, ConcatProperties, SMTT(60)
  <2>2. (s \o <<x>>) \o r = s \o (<<x>> \o r)
    BY <1>2, ConcatAssociative, SMTT(60)
  <2> QED
    BY <2>1, <2>2, <1>1, <1>2, SMTT(60)
<1>9. params' = <<w>> /\ c' = u /\ pc' = IF u # <<>> THEN "caps" ELSE "validate"
  <2>1. /\ params' = [params EXCEPT ![Len(params)] = Append(@, [Code |-> c[1], Value |-> octets(c)])]
        /\ c' = next(c) /\ pc' = IF c' # <<>> THEN "caps" ELSE IF b # <<>> THEN "params" ELSE "validate"
    BY <1>6, <1>7, SMTT(60) DEF capabilityDecode
  <2>2. [Code |-> c[1], Value |-> octets(c)] = x
    BY <1>4, <1>6, SMTT(60)
  <2>3. Append(s, x) = w
    BY <1>2, AppendIsConcat, SMTT(60)
  <2>4. params' = <<w>>
    <3>1. params = <<s>> /\ Len(params) = 1 /\ params[1] = s
      BY <1>1, SMTT(60)
    <3>2. params' = [params EXCEPT ![1] = w]
      BY <2>1, <2>2, <2>3, <3>1, Zenon
    <3> HIDE DEF w
    <3> QED
      BY <3>1, <3>2, SMTT(60)
  <2> QED
    BY <2>1, <2>4, <1>6, <1>t, Zenon
<1>10. CASE r = <<>>
  <2>1. u = <<>>
    BY <1>10, CapsEncodeEmpty, SMTT(60)
  <2>2. all = w
    BY <1>8, <1>10, ConcatEmptySeq, SMTT(60)
  <2> HIDE DEF u, w
  <2> QED
    BY <2>1, <2>2, <1>9, <1>t, SMTT(60) DEF Understanding
<1>11. CASE r # <<>>
  <2>1. u # <<>>
    <3>1. PICK q \in Seq(Cap), y \in Cap : r = Append(q, y)
      BY <1>11, <1>2, SequenceEmptyOrAppend, SMTT(60)
    <3>2. r = q \o <<y>> /\ <<y>> \in Seq(Cap)
      BY <3>1, AppendIsConcat, SMTT(60)
    <3>3. u = CapsEncode(q) \o capabilityEncode(y)
      BY <3>2, CapsEncodeConcat, CapsEncodeOne, Zenon
    <3>4. /\ CapsEncode(q) \in Seq(Octets) /\ capabilityEncode(y) \in Seq(Octets)
          /\ Len(capabilityEncode(y)) = Len(y.Value) + 2 /\ Len(y.Value) \in Nat
      <4>1. y.Value \in Seq(Octets)
        BY SMTT(60) DEF Cap
      <4>2. CapsEncode(q) \in Seq(Octets)
        BY CapsEncodeType, SMTT(60)
      <4>3. capabilityEncode(y) \in Seq(Octets) /\ Len(capabilityEncode(y)) = Len(y.Value) + 2
        BY CapabilityEncodeType, SMTT(60)
      <4> QED
        BY <4>1, <4>2, <4>3, SMTT(60)
    <3>5. capabilityEncode(y) # <<>>
      BY <3>4, SMTT(60)
    <3> QED
      BY <3>3, <3>4, <3>5, ConcatEqualIffEmpty, SMTT(60)
  <2>2. \E s1 \in Seq(Cap), t1 \in Seq(Cap) :
          all = s1 \o t1 /\ t1 # <<>> /\ params' = <<s1>> /\ c' = CapsEncode(t1)
    BY <1>2, <1>8, <1>9, <1>11, Zenon
  <2> HIDE DEF u, w
  <2> QED
    BY <2>1, <2>2, <1>9, <1>t, Zenon DEF Understanding
<1> QED
  BY <1>10, <1>11, SMTT(60)

\* What is sent is fixed before anything is decoded.
LEMMA InitUnderstanding == Init => Understanding
BY SMTT(60) DEF Init, Understanding, all

\* Each step decodes what was sent.
LEMMA NextUnderstanding ==
  IInv /\ Decoded /\ Judged /\ Understanding /\ [Next]_vars => Understanding'
<1> SUFFICES ASSUME IInv, Decoded, Judged, Understanding, [Next]_vars PROVE Understanding'
  BY SMTT(60)
<1>o. own' = own /\ given' = given /\ body' = body /\ all' = all
  BY SMTT(60) DEF Next, vars, decode, decodeOptionalParams, capabilityDecode, validated, Done, all
<1>n. CASE ~own
  BY <1>o, <1>n, SMTT(60) DEF Understanding
<1>t. own => given \in Given /\ body = openEncode(<<all>>)
  BY SMTT(60) DEF Understanding
<1>l. CASE own /\ ~(Len(body) < W)
  BY <1>o, <1>t, <1>l, SMTT(60) DEF Understanding
<1>s. CASE own /\ Len(body) < W
  <2>1. CASE decode
    <3>1. uint8(Len(body)) = Len(body)
      <4>1. Len(body) \in Octets
        BY <1>s, Widths, SMTT(60) DEF IInv, TypeOK, Octets
      <4> QED
        BY <4>1, Uint8Fits, SMTT(60)
    <3>2. pc' = "params" /\ b' = body /\ params' = <<>>
      BY <2>1, <3>1, <1>s, SMTT(60) DEF decode, Decoded
    <3> QED
      BY <3>2, <1>o, <1>s, <1>t, SMTT(60) DEF Understanding
  <2>2. CASE decodeOptionalParams
    BY <2>2, <1>s, OwnParam, SMTT(60)
  <2>3. CASE capabilityDecode
    BY <2>3, <1>s, OwnCapability, SMTT(60)
  <2>4. CASE validated
    <3>1. open' # NoOpen
      <4>1. open' \in opens /\ opens = [version : {4}, asn : {openASN(remoteAS)}, holdTime : {0, 3}, bgpID : IDs]
        BY <2>4, <1>s, Zenon DEF validated, opens
      <4>2. open'.version = 4 /\ NoOpen.version = 0
        BY <4>1, SMTT(60) DEF NoOpen
      <4> QED
        BY <4>2, SMTT(60)
    <3>2. pc' = "done" /\ params' = <<all>>
      BY <2>4, <1>s, SMTT(60) DEF validated, return, Understanding
    <3> QED
      BY <3>1, <3>2, <1>o, <1>s, <1>t, SMTT(60) DEF Understanding
  <2>5. CASE Done \/ UNCHANGED vars
    BY <2>5, <1>o, <1>s, <1>t, Zenon DEF Done, vars, Understanding
  <2> QED
    BY <2>1, <2>2, <2>3, <2>4, <2>5, SMTT(60) DEF Next
<1> QED
  BY <1>l, <1>n, <1>s, SMTT(60)

\* What newOpenMessage sends passes validateCaps of the receiver
\* (packet.go:285-324, 432-458).
LEMMA OwnCapsValid ==
  ASSUME NEW as \in ASNs, NEW g \in Given, NEW trans
  PROVE  validateCaps(trans, allCaps(as, g), as) = "nil"
<1> DEFINE caps == allCaps(as, g)
           four == {k \in DOMAIN caps : caps[k].Code = CAP_FOUR_OCTET_AS}
           bad == {k \in four : caps[k].Value # PutUint(as)}
<1>1. /\ caps \in Seq(Cap) /\ Len(caps) >= 1 /\ caps[1] = newFourOctetASCap(as)
      /\ \A k \in 2..Len(caps) : caps[k].Code # CAP_FOUR_OCTET_AS
  <2>1. g \in Seq(Cap)
    BY Caps
  <2> QED
    BY <2>1, AllCaps, Zenon
<1>2. caps[1].Code = CAP_FOUR_OCTET_AS /\ caps[1].Value = PutUint(as)
  BY <1>1, SMTT(60) DEF newFourOctetASCap
<1> HIDE DEF caps
<1>3. DOMAIN caps = 1..Len(caps) /\ Len(caps) \in Nat
  BY <1>1, SMTT(60)
<1>4. four = {1} /\ bad = {}
  <2>1. ASSUME NEW k \in four PROVE k = 1
    BY <1>1, <1>3, SMTT(60)
  <2>2. 1 \in four
    <3>1. 1 \in DOMAIN caps
      BY <1>1, <1>3, SMTT(60)
    <3> QED
      BY <3>1, <1>2, SMTT(60)
  <2> QED
    BY <2>1, <2>2, <1>2, Zenon
<1>5. validateCaps(trans, caps, as) =
        IF bad # {} THEN IF Len(caps[Min(bad)].Value) # ASLen THEN "unspecific" ELSE "badPeerAS"
        ELSE IF four # {} THEN "nil"
        ELSE IF trans THEN "badPeerAS" ELSE "unsupportedCapability"
  BY SMTT(60) DEF validateCaps
<1> HIDE DEF four, bad
<1> QED
  BY <1>4, <1>5, SMTT(60) DEF caps

\* At the end, the invariants say what OpenUnderstood says.
LEMMA Understands == IInv /\ Judged /\ Understanding => OpenUnderstood
<1> SUFFICES ASSUME IInv, Judged, Understanding, pc = "done", own, Len(body) < W
             PROVE  /\ getCapabilities = allCaps(remoteAS, given)
                    /\ result # "nil" =>
                         result = "badBGPID" /\ open.bgpID \in Multicast \cup {LocalID}
  BY SMTT(60) DEF OpenUnderstood
<1>1. params = <<all>> /\ open # NoOpen /\ given \in Given /\ remoteAS \in ASNs
  BY SMTT(60) DEF Understanding, IInv, TypeOK
<1>2. getCapabilities = all
  <2>1. all \in Seq(Cap)
    BY <1>1, OwnBody, SMTT(60) DEF all
  <2> QED
    BY <2>1, <1>1, FlattenOne, SMTT(60) DEF getCapabilities
<1>3. result = validate(open, all, remoteAS)
  BY <1>1, <1>2, SMTT(60) DEF Judged
<1>4. open.version = 4 /\ open.asn = openASN(remoteAS) /\ open.holdTime \in {0, 3}
  <2>1. open \in [version : {4}, asn : {openASN(remoteAS)}, holdTime : {0, 3}, bgpID : IDs]
    BY <1>1, SMTT(60) DEF IInv, TypeOK, opens
  <2> QED
    BY <2>1, SMTT(60)
<1>5. open.asn \in {asTrans, remoteAS}
  BY <1>4, SMTT(60) DEF openASN
<1>6. validateCaps(open.asn = asTrans, all, remoteAS) = "nil"
  BY <1>1, OwnCapsValid, SMTT(60) DEF all
<1>7. result # "nil" => result = "badBGPID" /\ open.bgpID \in Multicast \cup {LocalID}
  BY <1>3, <1>4, <1>5, <1>6, SMTT(60) DEF validate
<1> QED
  BY <1>2, <1>7, SMTT(60) DEF all

-----------------------------------------------------------------------------
(* Together.                                                               *)

\* The inductive invariant.
OpenInv == IInv /\ Decoded /\ Judged /\ Understanding

\* It holds before anything is decoded.
LEMMA InitOpen == Init => OpenInv
<1>1. Init => Judged
  BY SMTT(60) DEF Init, Judged
<1> QED
  BY <1>1, InitIInv, InitDecoded, InitUnderstanding, SMTT(60) DEF OpenInv

\* Every step of the decoders and of validation keeps it.
LEMMA NextOpen == OpenInv /\ [Next]_vars => OpenInv'
BY NextIInv, NextDecoded, NextJudged, NextUnderstanding, SMTT(60) DEF OpenInv

\* What it says of the properties.
LEMMA OpenFacts == OpenInv => TypeOK /\ NoPanic /\ NothingLost /\ OneAS /\ OpenUnderstood
<1>1. IInv => TypeOK /\ NoPanic
  BY SMTT(60) DEF IInv
<1>2. Decoded => NothingLost
  BY SMTT(60) DEF Decoded, NothingLost
<1> QED
  BY <1>1, <1>2, JudgedOnce, Understands, SMTT(60) DEF OpenInv

\* Decoding an OPEN never slices out of range (packet.go:361-398, 478-505), for
\* every width of an octet, the code's 256 among them, and messages of any length.
THEOREM SliceBounds == Spec => []NoPanic
BY InitOpen, NextOpen, OpenFacts, PTL DEF Spec

\* An OPEN that is decoded to its end has been decoded as a whole
\* (packet.go:361-398, 478-505).
THEOREM Lossless == Spec => []NothingLost
BY InitOpen, NextOpen, OpenFacts, PTL DEF Spec

\* Whatever capabilities a plugin gives, if they fit into the length octet they
\* arrive, and the OPEN is accepted unless its identifier is not
\* (packet.go:250-325, 432-458).
THEOREM Understood == Spec => []OpenUnderstood
BY InitOpen, NextOpen, OpenFacts, PTL DEF Spec

\* No OPEN, of whatever octets, passes for two AS numbers (packet.go:250-325).
THEOREM OneASOnly == Spec => []OneAS
BY InitOpen, NextOpen, OpenFacts, PTL DEF Spec
=============================================================================
