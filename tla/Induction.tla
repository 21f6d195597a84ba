------------------------------ MODULE Induction -----------------------------
(***************************************************************************)
(* Facts about numbers and sequences that the proofs about loops need.     *)
(* Induction is stated for a set of numbers in place of a predicate: a     *)
(* counterexample would have a least one.                                  *)
(***************************************************************************)
EXTENDS Integers, SequencesExt, SequenceTheorems, WellFoundedInduction, TLAPS

\* A set of numbers that is not empty has a least element.
LEMMA Least ==
  ASSUME NEW T, T \subseteq Nat, T # {}
  PROVE  \E n \in T : \A k \in T : n <= k
<1> DEFINE R == {p \in Nat \X Nat : p[1] < p[2]}
<1>1. IsWellFoundedOn(R, Nat)
  BY NatLessThanWellFounded DEF OpToRel
<1>2. \A k, n \in Nat : <<k, n>> \in R <=> k < n
  OBVIOUS
<1> HIDE DEF R
<1>3. PICK n \in T : \A k \in T : ~(<<k, n>> \in R)
  BY <1>1, WFMin, Zenon
<1>4. ASSUME NEW k \in T PROVE n <= k
  <2>1. k \in Nat /\ n \in Nat /\ ~(<<k, n>> \in R)
    BY <1>3
  <2>2. ~(k < n)
    BY <2>1, <1>2
  <2> QED
    BY <2>1, <2>2
<1> QED
  BY <1>4

\* A set that holds 0, and n + 1 if it holds n, holds all numbers.
LEMMA Induct ==
  ASSUME NEW S, 0 \in S, \A n \in Nat : n \in S => n + 1 \in S
  PROVE  \A n \in Nat : n \in S
<1> SUFFICES ASSUME NEW m \in Nat, m \notin S PROVE FALSE
  OBVIOUS
<1> DEFINE T == {n \in Nat : n \notin S}
<1>1. T \subseteq Nat /\ T # {}
  OBVIOUS
<1>2. PICK n \in T : \A k \in T : n <= k
  <2> HIDE DEF T
  <2> QED
    BY <1>1, Least, Zenon
<1>3. n # 0 /\ n - 1 \in Nat
  OBVIOUS
<1>4. n - 1 \in S
  BY <1>2, <1>3
<1> QED
  BY <1>3, <1>4

\* The same for the numbers up to N.
LEMMA InductUpto ==
  ASSUME NEW N \in Nat, NEW S, 0 \in S, \A n \in 0..N-1 : n \in S => n + 1 \in S
  PROVE  \A n \in 0..N : n \in S
<1> DEFINE T == {n \in Nat : n <= N => n \in S}
<1>1. 0 \in T /\ \A n \in Nat : n \in T => n + 1 \in T
  OBVIOUS
<1>2. \A n \in Nat : n \in T
  <2> HIDE DEF T
  <2> QED
    BY <1>1, Induct
<1> QED
  BY <1>2

\* The values of a loop over 1..N that starts with x and changes the value it
\* has, a member of S, by the function F[n] in iteration n.
Iterates(g, N, S, x, F) ==
  /\ g \in [0..N -> S] /\ g[0] = x
  /\ \A n \in 1..N : g[n] = F[n][g[n-1]]

\* Such a loop has values.
LEMMA Recursion ==
  ASSUME NEW N \in Nat, NEW S, NEW x \in S, NEW F \in [1..N -> [S -> S]]
  PROVE  \E g : Iterates(g, N, S, x, F)
<1> DEFINE P(m) == \E g : Iterates(g, m, S, x, F)
           T == {m \in Nat : P(m)}
<1>1. P(0)
  <2> DEFINE g == [n \in 0..0 |-> x]
  <2>1. Iterates(g, 0, S, x, F)
    BY DEF Iterates
  <2> QED
    BY <2>1
<1>2. ASSUME NEW m \in 0..N-1, P(m) PROVE P(m+1)
  <2>1. PICK g : Iterates(g, m, S, x, F)
    BY <1>2
  <2> DEFINE y == F[m+1][g[m]]
             h == [n \in 0..m+1 |-> IF n <= m THEN g[n] ELSE y]
  <2>2. g \in [0..m -> S] /\ g[0] = x /\ \A n \in 1..m : g[n] = F[n][g[n-1]]
    BY <2>1 DEF Iterates
  <2>3. y \in S
    <3>1. m+1 \in 1..N /\ g[m] \in S
      BY <2>2
    <3>2. F[m+1] \in [S -> S]
      BY <3>1
    <3> QED
      BY <3>1, <3>2
  <2>4. h \in [0..m+1 -> S] /\ h[0] = x
    <3> HIDE DEF y
    <3> QED
      BY <2>2, <2>3
  <2>5. ASSUME NEW n \in 1..m+1 PROVE h[n] = F[n][h[n-1]]
    <3>1. h[n-1] = g[n-1]
      OBVIOUS
    <3>2. CASE n <= m
      <4>1. n \in 1..m /\ h[n] = g[n]
        BY <3>2
      <4> QED
        BY <4>1, <3>1, <2>2
    <3>3. CASE ~(n <= m)
      <4>1. n = m+1 /\ n-1 = m /\ h[n] = y
        BY <3>3
      <4> QED
        BY <4>1, <3>1
    <3> QED
      BY <3>2, <3>3
  <2>6. Iterates(h, m+1, S, x, F)
    <3> HIDE DEF h
    <3> QED
      BY <2>4, <2>5 DEF Iterates
  <2> HIDE DEF h
  <2> QED
    BY <2>6
<1>3. P(N)
  <2> HIDE DEF P
  <2>1. 0 \in T /\ \A m \in 0..N-1 : m \in T => m + 1 \in T
    BY <1>1, <1>2
  <2> HIDE DEF T
  <2>2. \A m \in 0..N : m \in T
    BY <2>1, InductUpto, Zenon
  <2> QED
    BY <2>2 DEF T
<1> QED
  BY <1>3

\* A function that is defined from its value one place before is a function
\* with these values, here for the function in the definition of FlattenSeq.
LEMMA FlattenDef ==
  ASSUME NEW seqs, NEW N \in Nat
  PROVE  \E g : g = [i \in 1..N |-> IF i = 1 THEN seqs[i] ELSE g[i-1] \o seqs[i]]
<1> DEFINE P(m) == \E g : g = [i \in 1..m |-> IF i = 1 THEN seqs[i]
                                               ELSE g[i-1] \o seqs[i]]
           S == {m \in Nat : P(m)}
<1>1. P(0)
  <2> DEFINE g == [i \in 1..0 |-> seqs[i]]
  <2>1. g = [i \in 1..0 |-> IF i = 1 THEN seqs[i] ELSE g[i-1] \o seqs[i]]
    OBVIOUS
  <2> QED
    BY <2>1
<1>2. ASSUME NEW m \in Nat, P(m) PROVE P(m+1)
  <2>1. PICK g : g = [i \in 1..m |-> IF i = 1 THEN seqs[i] ELSE g[i-1] \o seqs[i]]
    BY <1>2, Zenon
  <2> DEFINE h == [i \in 1..m+1 |-> IF i <= m THEN g[i] ELSE
                                    IF i = 1 THEN seqs[i] ELSE g[i-1] \o seqs[i]]
  <2>2. ASSUME NEW i \in 1..m+1
        PROVE  h[i] = IF i = 1 THEN seqs[i] ELSE h[i-1] \o seqs[i]
    <3>1. i # 1 => i-1 \in 1..m /\ h[i-1] = g[i-1]
      OBVIOUS
    <3>2. CASE i <= m
      <4>1. h[i] = g[i]
        BY <3>2
      <4>2. i \in 1..m
        BY <3>2
      <4>3. g[i] = IF i = 1 THEN seqs[i] ELSE g[i-1] \o seqs[i]
        BY <2>1, <4>2, Zenon
      <4> QED
        BY <4>1, <4>3, <3>1
    <3>3. CASE ~(i <= m)
      BY <3>1, <3>3
    <3> QED
      BY <3>2, <3>3
  <2>3. h = [i \in 1..m+1 |-> IF i = 1 THEN seqs[i] ELSE h[i-1] \o seqs[i]]
    BY <2>2, Zenon
  <2> HIDE DEF h
  <2> QED
    BY <2>3, Zenon
<1>3. P(N)
  <2> HIDE DEF P
  <2>1. 0 \in S /\ \A m \in Nat : m \in S => m + 1 \in S
    BY <1>1, <1>2
  <2> HIDE DEF S
  <2>2. N \in S
    BY <2>1, Induct
  <2> QED
    BY <2>2 DEF S
<1> QED
  BY <1>3, Zenon

\* FlattenSeq is such a function.
LEMMA FlattenUnfold ==
  ASSUME NEW seqs, Len(seqs) \in Nat \ {0}
  PROVE  \E f : /\ f = [i \in 1..Len(seqs) |-> IF i = 1 THEN seqs[i] ELSE f[i-1] \o seqs[i]]
                /\ FlattenSeq(seqs) = f[Len(seqs)]
<1> DEFINE f[i \in 1..Len(seqs)] == IF i = 1 THEN seqs[i] ELSE f[i-1] \o seqs[i]
<1>1. FlattenSeq(seqs) = f[Len(seqs)]
  BY DEF FlattenSeq
<1>2. f = CHOOSE g : g = [i \in 1..Len(seqs) |-> IF i = 1 THEN seqs[i] ELSE g[i-1] \o seqs[i]]
  OBVIOUS
<1>3. \E g : g = [i \in 1..Len(seqs) |-> IF i = 1 THEN seqs[i] ELSE g[i-1] \o seqs[i]]
  BY FlattenDef, Zenon
<1> HIDE DEF f
<1>4. f = [i \in 1..Len(seqs) |-> IF i = 1 THEN seqs[i] ELSE f[i-1] \o seqs[i]]
  BY <1>2, <1>3, Zenon
<1> QED
  BY <1>1, <1>4, Zenon

\* The same, place by place.
LEMMA FlattenSteps ==
  ASSUME NEW seqs, Len(seqs) \in Nat \ {0}
  PROVE  \E f : /\ f[1] = seqs[1]
                /\ \A i \in 1..Len(seqs)-1 : f[i+1] = f[i] \o seqs[i+1]
                /\ FlattenSeq(seqs) = f[Len(seqs)]
<1>1. PICK f : /\ f = [i \in 1..Len(seqs) |-> IF i = 1 THEN seqs[i] ELSE f[i-1] \o seqs[i]]
               /\ FlattenSeq(seqs) = f[Len(seqs)]
  BY FlattenUnfold, Zenon
<1>2. \A i \in 1..Len(seqs) : f[i] = IF i = 1 THEN seqs[i] ELSE f[i-1] \o seqs[i]
  BY <1>1, Zenon
<1>3. f[1] = seqs[1]
  BY <1>2
<1>4. ASSUME NEW i \in 1..Len(seqs)-1 PROVE f[i+1] = f[i] \o seqs[i+1]
  <2>1. i+1 \in 1..Len(seqs) /\ i+1 # 1 /\ (i+1)-1 = i
    OBVIOUS
  <2> QED
    BY <2>1, <1>2, Zenon
<1> QED
  BY <1>1, <1>3, <1>4, Zenon

\* To append no parts at all yields nothing.
LEMMA FlattenEmpty == FlattenSeq(<<>>) = <<>>
BY DEF FlattenSeq

\* FlattenSeq yields a sequence over the same set as its parts.
LEMMA FlattenType ==
  ASSUME NEW S, NEW s \in Seq(Seq(S))
  PROVE  FlattenSeq(s) \in Seq(S)
<1>1. CASE s = <<>>
  <2>1. FlattenSeq(s) = <<>>
    BY <1>1, FlattenEmpty
  <2> QED
    BY <2>1, EmptySeq
<1>2. CASE s # <<>>
  <2>1. Len(s) \in Nat \ {0}
    BY <1>2
  <2>2. PICK f : /\ f[1] = s[1]
                 /\ \A i \in 1..Len(s)-1 : f[i+1] = f[i] \o s[i+1]
                 /\ FlattenSeq(s) = f[Len(s)]
    BY <2>1, FlattenSteps, Zenon
  <2> DEFINE T == {i \in Nat : f[i+1] \in Seq(S)}
  <2>3. 0 \in T
    BY <2>1, <2>2
  <2>4. ASSUME NEW n \in 0..(Len(s)-1)-1, n \in T PROVE n+1 \in T
    <3>1. n+1 \in 1..Len(s)-1 /\ (n+1)+1 \in 1..Len(s)
      BY <2>1
    <3>2. f[(n+1)+1] = f[n+1] \o s[(n+1)+1]
      BY <3>1, <2>2, Zenon
    <3>3. f[n+1] \in Seq(S) /\ s[(n+1)+1] \in Seq(S)
      BY <2>4, <3>1
    <3>4. f[(n+1)+1] \in Seq(S)
      BY <3>2, <3>3, ConcatProperties
    <3> QED
      BY <3>4
  <2>5. Len(s)-1 \in T
    <3>1. Len(s)-1 \in Nat /\ Len(s)-1 \in 0..Len(s)-1
      BY <2>1
    <3> HIDE DEF T
    <3> QED
      BY <3>1, <2>3, <2>4, InductUpto, Zenon
  <2> QED
    BY <2>1, <2>2, <2>5
<1> QED
  BY <1>1, <1>2

\* FlattenSeq with one more part at the end.
LEMMA FlattenAppend ==
  ASSUME NEW S, NEW s \in Seq(Seq(S)), NEW x \in Seq(S)
  PROVE  FlattenSeq(Append(s, x)) = FlattenSeq(s) \o x
<1> DEFINE t == Append(s, x)
<1>1. /\ t \in Seq(Seq(S)) /\ Len(t) = Len(s) + 1 /\ Len(s) \in Nat
      /\ \A i \in 1..Len(s) : t[i] = s[i]
      /\ t[Len(s)+1] = x
  BY AppendProperties
<1> HIDE DEF t
<1>2. PICK g : /\ g[1] = t[1]
               /\ \A i \in 1..Len(t)-1 : g[i+1] = g[i] \o t[i+1]
               /\ FlattenSeq(t) = g[Len(t)]
  <2>1. Len(t) \in Nat \ {0}
    BY <1>1
  <2> QED
    BY <2>1, FlattenSteps, Zenon
<1>3. CASE Len(s) = 0
  <2>1. FlattenSeq(t) = x
    BY <1>1, <1>2, <1>3
  <2>2. s = <<>>
    BY <1>3
  <2>3. FlattenSeq(s) \o x = x
    BY <2>2, FlattenEmpty
  <2> QED
    BY <2>1, <2>3 DEF t
<1>4. CASE Len(s) # 0
  <2>1. PICK f : /\ f[1] = s[1]
                 /\ \A i \in 1..Len(s)-1 : f[i+1] = f[i] \o s[i+1]
                 /\ FlattenSeq(s) = f[Len(s)]
    BY <1>1, <1>4, FlattenSteps, Zenon
  <2> DEFINE T == {i \in Nat : f[i+1] = g[i+1]}
  <2>2. 0 \in T
    BY <1>1, <1>2, <1>4, <2>1
  <2>3. ASSUME NEW n \in 0..(Len(s)-1)-1, n \in T PROVE n+1 \in T
    <3>1. n+1 \in 1..Len(s)-1 /\ n+1 \in 1..Len(t)-1 /\ (n+1)+1 \in 1..Len(s)
      BY <1>1
    <3>2. f[(n+1)+1] = f[n+1] \o s[(n+1)+1]
      BY <3>1, <2>1, Zenon
    <3>3. g[(n+1)+1] = g[n+1] \o t[(n+1)+1]
      BY <3>1, <1>2, Zenon
    <3>4. f[(n+1)+1] = g[(n+1)+1]
      BY <3>1, <3>2, <3>3, <2>3, <1>1, Zenon
    <3> QED
      BY <3>4
  <2>4. Len(s)-1 \in T
    <3>1. Len(s)-1 \in Nat /\ Len(s)-1 \in 0..Len(s)-1
      BY <1>1, <1>4
    <3> HIDE DEF T
    <3> QED
      BY <3>1, <2>2, <2>3, InductUpto, Zenon
  <2>5. f[Len(s)] = g[Len(s)]
    BY <2>4, <1>1
  <2>6. g[Len(s)+1] = g[Len(s)] \o t[Len(s)+1]
    <3>1. Len(s) \in 1..Len(t)-1
      BY <1>1, <1>4
    <3> QED
      BY <3>1, <1>2, Zenon
  <2>7. FlattenSeq(t) = FlattenSeq(s) \o x
    BY <2>1, <2>5, <2>6, <1>1, <1>2, Zenon
  <2> QED
    BY <2>7 DEF t
<1> QED
  BY <1>1, <1>3, <1>4

\* Induction over sequences, from the front to the back.
LEMMA SeqInduct ==
  ASSUME NEW S, NEW P, <<>> \in P,
         \A s \in Seq(S), x \in S : s \in P => Append(s, x) \in P
  PROVE  \A s \in Seq(S) : s \in P
<1> DEFINE T == {n \in Nat : \A s \in Seq(S) : Len(s) = n => s \in P}
<1>1. 0 \in T
  OBVIOUS
<1>2. ASSUME NEW n \in Nat, n \in T PROVE n + 1 \in T
  <2>1. ASSUME NEW s \in Seq(S), Len(s) = n + 1 PROVE s \in P
    <3>1. s # <<>>
      BY <2>1
    <3>2. PICK r \in Seq(S), x \in S : s = Append(r, x)
      BY <3>1, SequenceEmptyOrAppend
    <3>3. Len(r) = n
      BY <3>2, <2>1, AppendProperties
    <3>4. r \in P
      BY <3>3, <1>2
    <3> QED
      BY <3>2, <3>4
  <2> QED
    BY <2>1
<1>3. \A n \in Nat : n \in T
  <2> HIDE DEF T
  <2> QED
    BY <1>1, <1>2, Induct
<1>4. ASSUME NEW s \in Seq(S) PROVE s \in P
  <2>1. Len(s) \in Nat
    OBVIOUS
  <2>2. Len(s) \in T
    BY <2>1, <1>3
  <2> QED
    BY <2>2
<1> QED
  BY <1>4

\* A string appended to two concatenated sequences is appended to the second of them.
LEMMA FlattenAssociative ==
  ASSUME NEW S, NEW s \in Seq(Seq(S)), NEW u \in Seq(Seq(S)), NEW x \in Seq(S)
  PROVE  (FlattenSeq(s) \o FlattenSeq(u)) \o x = FlattenSeq(s) \o (FlattenSeq(u) \o x)
<1>1. FlattenSeq(s) \in Seq(S) /\ FlattenSeq(u) \in Seq(S)
  BY FlattenType
<1>2. \A a, c \in Seq(S) : (a \o c) \o x = a \o (c \o x)
  OBVIOUS
<1> QED
  BY <1>1, <1>2, Zenon

\* FlattenSeq goes through a concatenation.
LEMMA FlattenConcat ==
  ASSUME NEW S, NEW s \in Seq(Seq(S)), NEW t \in Seq(Seq(S))
  PROVE  FlattenSeq(s \o t) = FlattenSeq(s) \o FlattenSeq(t)
<1> DEFINE P == {u \in Seq(Seq(S)) : FlattenSeq(s \o u) = FlattenSeq(s) \o FlattenSeq(u)}
<1>1. <<>> \in P
  <2>1. FlattenSeq(s) \in Seq(S)
    BY FlattenType
  <2>2. s \o <<>> = s /\ FlattenSeq(s) \o <<>> = FlattenSeq(s)
    BY <2>1, ConcatEmptySeq
  <2> QED
    BY <2>2, FlattenEmpty, EmptySeq, Zenon
<1>2. ASSUME NEW u \in Seq(Seq(S)), NEW x \in Seq(S), u \in P PROVE Append(u, x) \in P
  <2> HIDE DEF P
  <2>1. s \o Append(u, x) = Append(s \o u, x)
    OBVIOUS
  <2>2. s \o u \in Seq(Seq(S)) /\ Append(u, x) \in Seq(Seq(S))
    BY ConcatProperties, AppendProperties
  <2>3. FlattenSeq(Append(s \o u, x)) = FlattenSeq(s \o u) \o x
    BY <2>2, FlattenAppend, Zenon
  <2>4. FlattenSeq(Append(u, x)) = FlattenSeq(u) \o x
    BY FlattenAppend
  <2>5. (FlattenSeq(s) \o FlattenSeq(u)) \o x = FlattenSeq(s) \o (FlattenSeq(u) \o x)
    BY FlattenAssociative, SMTT(30)
  <2>6. FlattenSeq(s \o u) = FlattenSeq(s) \o FlattenSeq(u)
    BY <1>2 DEF P
  <2>7. FlattenSeq(s \o Append(u, x)) = FlattenSeq(s) \o FlattenSeq(Append(u, x))
    BY <2>1, <2>3, <2>4, <2>5, <2>6, Zenon
  <2> QED
    BY <2>2, <2>7 DEF P
<1>3. t \in P
  <2> HIDE DEF P
  <2> QED
    BY <1>1, <1>2, SeqInduct
<1> QED
  BY <1>3

\* FlattenSeq of a single part.
LEMMA FlattenOne ==
  ASSUME NEW S, NEW x \in Seq(S)
  PROVE  FlattenSeq(<<x>>) = x
<1>1. <<x>> = Append(<<>>, x) /\ <<>> \in Seq(Seq(S))
  OBVIOUS
<1>2. FlattenSeq(<<x>>) = FlattenSeq(<<>>) \o x
  BY <1>1, FlattenAppend, Zenon
<1> QED
  BY <1>2, FlattenEmpty, ConcatEmptySeq

\* A sequence that is another one with an element added.
LEMMA IsAppend ==
  ASSUME NEW S, NEW s \in Seq(S), NEW u \in Seq(S), NEW z \in S, Len(u) = Len(s) + 1,
         \A i \in 1..Len(s) : u[i] = s[i], u[Len(s)+1] = z
  PROVE  u = Append(s, z)
<1>1. /\ Append(s, z) \in Seq(S) /\ Len(Append(s, z)) = Len(s)+1
      /\ \A i \in 1..Len(s) : Append(s, z)[i] = s[i]
      /\ Append(s, z)[Len(s)+1] = z
  BY AppendProperties
<1>2. ASSUME NEW i \in 1..Len(u) PROVE u[i] = Append(s, z)[i]
  <2>1. Len(s) \in Nat /\ (i \in 1..Len(s) \/ i = Len(s) + 1)
    OBVIOUS
  <2> QED
    BY <1>1, <2>1
<1> QED
  BY <1>1, <1>2, SeqEqual

\* Two ways to cut a sequence at the same place.
LEMMA SameCut ==
  ASSUME NEW S, NEW a1 \in Seq(S), NEW a2 \in Seq(S), NEW d1 \in Seq(S), NEW d2 \in Seq(S),
         a1 \o d1 = a2 \o d2, Len(a1) = Len(a2)
  PROVE  a1 = a2 /\ d1 = d2
<1> DEFINE s == a1 \o d1
<1>1. /\ Len(a1) \in Nat /\ Len(d1) \in Nat /\ Len(d2) \in Nat
      /\ Len(s) = Len(a1) + Len(d1) /\ Len(s) = Len(a1) + Len(d2)
      /\ \A i \in 1..Len(a1)+Len(d1) : s[i] = IF i <= Len(a1) THEN a1[i] ELSE d1[i - Len(a1)]
      /\ \A i \in 1..Len(a1)+Len(d2) : s[i] = IF i <= Len(a1) THEN a2[i] ELSE d2[i - Len(a1)]
  <2>1. /\ Len(a2 \o d2) = Len(a2) + Len(d2)
        /\ \A i \in 1..Len(a2)+Len(d2) : (a2 \o d2)[i] = IF i <= Len(a2) THEN a2[i] ELSE d2[i - Len(a2)]
    BY ConcatProperties
  <2>2. /\ Len(a1 \o d1) = Len(a1) + Len(d1)
        /\ \A i \in 1..Len(a1)+Len(d1) : (a1 \o d1)[i] = IF i <= Len(a1) THEN a1[i] ELSE d1[i - Len(a1)]
    BY ConcatProperties, Zenon
  <2>3. Len(a1) \in Nat /\ Len(d1) \in Nat /\ Len(d2) \in Nat
    OBVIOUS
  <2> QED
    BY <2>1, <2>2, <2>3
<1> HIDE DEF s
<1>2. Len(d1) = Len(d2)
  BY <1>1
<1>3. a1 = a2
  <2>1. ASSUME NEW i \in 1..Len(a1) PROVE a1[i] = a2[i]
    <3>1. i \in 1..Len(a1)+Len(d1) /\ i \in 1..Len(a1)+Len(d2) /\ i <= Len(a1)
      BY <1>1
    <3> QED
      BY <3>1, <1>1
  <2> QED
    BY <2>1, SeqEqual
<1>4. d1 = d2
  <2>1. ASSUME NEW i \in 1..Len(d1) PROVE d1[i] = d2[i]
    <3> DEFINE j == i + Len(a1)
    <3>1. /\ j \in 1..Len(a1)+Len(d1) /\ j \in 1..Len(a1)+Len(d2) /\ ~(j <= Len(a1))
          /\ j - Len(a1) = i
      BY <1>1, <1>2
    <3> HIDE DEF j
    <3> QED
      BY <3>1, <1>1, Zenon
  <2> QED
    BY <2>1, <1>2, SeqEqual
<1> QED
  BY <1>3, <1>4
=============================================================================
