--------------------------- MODULE SequenceLemmas ---------------------------
(***************************************************************************)
(* Facts about numbers and sequences that the proofs of several parts      *)
(* need.                                                                   *)
(***************************************************************************)
EXTENDS Integers, Sequences, SequenceTheorems, WellFoundedInduction, TLAPS

\* A set of numbers has a least member.
LEMMA LeastNumber ==
  ASSUME NEW T, T \subseteq Nat, T # {}
  PROVE  \E n \in T : \A m \in T : n <= m
<1>1. PICK n \in T : \A m \in T : ~(<<m, n>> \in OpToRel(<, Nat))
  <2> HIDE DEF OpToRel
  <2> QED
    BY NatLessThanWellFounded, WFMin
<1>2. \A m \in T : ~(m < n)
  BY <1>1 DEF OpToRel
<1>3. QED
  BY <1>2

\* A bounded one has a greatest.
LEMMA GreatestNumber ==
  ASSUME NEW N \in Nat, NEW T, T \subseteq 0..N, T # {}
  PROVE  \E n \in T : \A m \in T : m <= n
<1> DEFINE U == {N - n : n \in T}
<1>1. U \subseteq Nat /\ U # {}
  <2>1. \A n \in T : n \in 0..N /\ N - n \in Nat
    OBVIOUS
  <2>2. QED
    BY <2>1
<1>2. PICK u \in U : \A v \in U : u <= v
  <2> HIDE DEF U
  <2> QED
    BY <1>1, LeastNumber
<1>3. PICK n \in T : u = N - n
  OBVIOUS
<1>4. ASSUME NEW m \in T PROVE m <= n
  <2>1. N - m \in U
    OBVIOUS
  <2>2. N - n <= N - m /\ m \in 0..N /\ n \in 0..N
    BY <1>2, <1>3, <2>1
  <2>3. QED
    BY <2>2
<1>5. QED
  BY <1>4

\* A sequence without its element at i.
LEMMA RemoveAtProperties ==
  ASSUME NEW S, NEW s \in Seq(S), NEW i \in 1..Len(s)
  PROVE  LET r == SubSeq(s, 1, i - 1) \o SubSeq(s, i + 1, Len(s)) IN
         /\ r \in Seq(S) /\ Len(r) = Len(s) - 1
         /\ \A j \in 1..(Len(s) - 1) : r[j] = IF j < i THEN s[j] ELSE s[j + 1]
<1> DEFINE u == SubSeq(s, 1, i - 1)
           v == SubSeq(s, i + 1, Len(s))
<1>1. Len(s) \in Nat /\ \A j \in 1..Len(s) : s[j] \in S
  BY LenProperties, ElementOfSeq
<1>2. u \in Seq(S) /\ Len(u) = i - 1 /\ \A j \in 1..(i - 1) : u[j] = s[j]
  <2>1. \A j \in 1..(i - 1) : s[j] \in S
    BY <1>1
  <2>2. /\ u \in Seq(S) /\ Len(u) = IF 1 <= i - 1 THEN i - 1 - 1 + 1 ELSE 0
        /\ \A j \in 1..(i - 1 - 1 + 1) : u[j] = s[1 + j - 1]
    BY <1>1, <2>1, SubSeqProperties
  <2> HIDE DEF u
  <2>3. QED
    BY <1>1, <2>2
<1>3. v \in Seq(S) /\ Len(v) = Len(s) - i /\ \A j \in 1..(Len(s) - i) : v[j] = s[i + j]
  <2>1. \A j \in (i + 1)..Len(s) : s[j] \in S
    BY <1>1
  <2>2. /\ v \in Seq(S) /\ Len(v) = IF i + 1 <= Len(s) THEN Len(s) - (i + 1) + 1 ELSE 0
        /\ \A j \in 1..(Len(s) - (i + 1) + 1) : v[j] = s[i + 1 + j - 1]
    BY <1>1, <2>1, SubSeqProperties
  <2> HIDE DEF v
  <2>3. QED
    BY <1>1, <2>2
<1> HIDE DEF u, v
<1>4. /\ u \o v \in Seq(S) /\ Len(u \o v) = Len(s) - 1
      /\ \A j \in 1..(Len(s) - 1) :
         (u \o v)[j] = IF j <= i - 1 THEN u[j] ELSE v[j - (i - 1)]
  <2>1. /\ u \o v \in Seq(S) /\ Len(u \o v) = Len(u) + Len(v)
        /\ \A j \in 1..(Len(u) + Len(v)) :
             (u \o v)[j] = IF j <= Len(u) THEN u[j] ELSE v[j - Len(u)]
    BY <1>2, <1>3, ConcatProperties
  <2>2. Len(u) + Len(v) = Len(s) - 1 /\ Len(u) = i - 1
    BY <1>1, <1>2, <1>3
  <2>3. QED
    BY <2>1, <2>2
<1>5. \A j \in 1..(Len(s) - 1) : (u \o v)[j] = IF j < i THEN s[j] ELSE s[j + 1]
  BY <1>1, <1>2, <1>3, <1>4
<1>6. QED
  BY <1>4, <1>5 DEF u, v

\* A sequence without its first element.
LEMMA RestOfSequence ==
  ASSUME NEW S, NEW s \in Seq(S), s # <<>>
  PROVE  /\ Head(s) \in S /\ Head(s) = s[1] /\ 1 \in 1..Len(s) /\ Tail(s) \in Seq(S)
         /\ Len(Tail(s)) = Len(s) - 1
         /\ \A i \in 1..Len(Tail(s)) : i + 1 \in 1..Len(s) /\ Tail(s)[i] = s[i + 1]
<1>1. Len(s) \in Nat /\ Len(s) > 0
  BY EmptySeq, LenProperties
<1>2. Tail(s) \in Seq(S) /\ Len(Tail(s)) = Len(s) - 1
  BY HeadTailProperties
<1>3. \A i \in 1..Len(Tail(s)) : Tail(s)[i] = s[i + 1]
  BY <1>1, <1>2, HeadTailProperties
<1>4. QED
  BY <1>1, <1>2, <1>3, HeadTailProperties

\* A sequence with one more element.
LEMMA AppendedIs ==
  ASSUME NEW S, NEW s \in Seq(S), NEW e \in S, NEW t \in {Append(s, e), s \o <<e>>}
  PROVE  /\ t \in Seq(S) /\ Len(t) = Len(s) + 1 /\ Len(s) \in Nat
         /\ \A k \in 1..Len(t) : t[k] = IF k \in 1..Len(s) THEN s[k] ELSE e
<1>1. <<e>> \in Seq(S) /\ Len(<<e>>) = 1 /\ <<e>>[1] = e
  OBVIOUS
<1>2. Len(s) \in Nat
  BY LenProperties
<1>3. CASE t = Append(s, e)
  BY <1>2, <1>3, AppendProperties
<1>4. CASE t = s \o <<e>>
  <2>1. /\ t \in Seq(S) /\ Len(t) = Len(s) + 1
        /\ \A k \in 1..Len(s) + 1 :
             t[k] = IF k <= Len(s) THEN s[k] ELSE <<e>>[k - Len(s)]
    BY <1>1, <1>4, ConcatProperties
  <2>2. QED
    BY <1>1, <1>2, <2>1
<1>5. QED
  BY <1>3, <1>4

\* A sequence with e put before its element at i, or at its end.
Inserted(s, i, e) == SubSeq(s, 1, i - 1) \o <<e>> \o SubSeq(s, i, Len(s))

LEMMA InsertedIs ==
  ASSUME NEW S, NEW s \in Seq(S), NEW e \in S, NEW i \in 1..(Len(s) + 1)
  PROVE  /\ Inserted(s, i, e) \in Seq(S) /\ Len(Inserted(s, i, e)) = Len(s) + 1
         /\ Len(s) \in Nat
         /\ \A k \in 1..Len(Inserted(s, i, e)) :
              Inserted(s, i, e)[k] = IF k < i THEN s[k] ELSE IF k = i THEN e ELSE s[k - 1]
<1> DEFINE u == SubSeq(s, 1, i - 1)
           v == SubSeq(s, i, Len(s))
           t == u \o <<e>> \o v
<1>1. Len(s) \in Nat /\ \A j \in 1..Len(s) : s[j] \in S
  BY LenProperties, ElementOfSeq
<1>2. u \in Seq(S) /\ Len(u) = i - 1 /\ \A j \in 1..(i - 1) : u[j] = s[j]
  <2>1. \A j \in 1..(i - 1) : s[j] \in S
    BY <1>1
  <2>2. /\ u \in Seq(S) /\ Len(u) = IF 1 <= i - 1 THEN i - 1 - 1 + 1 ELSE 0
        /\ \A j \in 1..(i - 1 - 1 + 1) : u[j] = s[1 + j - 1]
    BY <1>1, <2>1, SubSeqProperties
  <2> HIDE DEF u
  <2>3. QED
    BY <1>1, <2>2
<1>3. v \in Seq(S) /\ Len(v) = Len(s) - i + 1
      /\ \A j \in 1..(Len(s) - i + 1) : v[j] = s[i + j - 1]
  <2>1. \A j \in i..Len(s) : s[j] \in S
    BY <1>1
  <2>2. /\ v \in Seq(S) /\ Len(v) = IF i <= Len(s) THEN Len(s) - i + 1 ELSE 0
        /\ \A j \in 1..(Len(s) - i + 1) : v[j] = s[i + j - 1]
    BY <1>1, <2>1, SubSeqProperties
  <2> HIDE DEF v
  <2>3. QED
    BY <1>1, <2>2
<1> HIDE DEF u, v
<1>4. /\ u \o <<e>> \in Seq(S) /\ Len(u \o <<e>>) = i
      /\ \A k \in 1..i : (u \o <<e>>)[k] = IF k <= i - 1 THEN u[k] ELSE e
  BY <1>1, <1>2, AppendedIs
<1>5. /\ t \in Seq(S) /\ Len(t) = i + Len(v)
      /\ \A k \in 1..(i + Len(v)) :
           t[k] = IF k <= i THEN (u \o <<e>>)[k] ELSE v[k - i]
  <2> DEFINE a == u \o <<e>>
  <2>1. a \in Seq(S) /\ v \in Seq(S) /\ Len(a) = i
    BY <1>3, <1>4
  <2> HIDE DEF a
  <2>2. /\ a \o v \in Seq(S) /\ Len(a \o v) = Len(a) + Len(v)
        /\ \A k \in 1..Len(a) + Len(v) :
             (a \o v)[k] = IF k <= Len(a) THEN a[k] ELSE v[k - Len(a)]
    BY ONLY <2>1, ConcatProperties
  <2>3. /\ a \o v \in Seq(S) /\ Len(a \o v) = i + Len(v)
        /\ \A k \in 1..i + Len(v) : (a \o v)[k] = IF k <= i THEN a[k] ELSE v[k - i]
    BY ONLY <2>1, <2>2
  <2>4. QED
    BY <2>3 DEF t, a
<1> HIDE DEF t
<1>6. Len(t) = Len(s) + 1
  BY <1>1, <1>3, <1>5
<1>7. ASSUME NEW k \in 1..Len(t)
      PROVE  t[k] = IF k < i THEN s[k] ELSE IF k = i THEN e ELSE s[k - 1]
  <2>1. CASE k <= i
    <3>1. k \in 1..i /\ t[k] = (u \o <<e>>)[k]
      <4>1. k \in 1..(i + Len(v)) /\ i \in Nat /\ Len(v) \in Nat
        BY <1>1, <1>3, <1>5
      <4>2. t[k] = IF k <= i THEN (u \o <<e>>)[k] ELSE v[k - i]
        BY <1>5, <4>1
      <4>3. k \in Nat /\ 1 <= k
        BY <4>1
      <4>4. t[k] = (u \o <<e>>)[k]
        BY <2>1, <4>2
      <4>5. QED
        BY <2>1, <4>1, <4>3, <4>4
    <3>2. t[k] = IF k <= i - 1 THEN u[k] ELSE e
      BY <1>4, <3>1
    <3>3. k <= i - 1 => k \in 1..(i - 1)
      BY <3>1
    <3>4. k \in Nat /\ i \in Nat /\ (k <= i - 1 <=> k < i) /\ (~(k < i) => k = i)
      BY <1>1, <3>1
    <3>5. QED
      BY <1>2, <3>2, <3>3, <3>4
  <2>2. CASE k > i
    <3>1. k - i \in 1..(Len(s) - i + 1) /\ i + (k - i) - 1 = k - 1
      BY <1>1, <1>6, <2>2
    <3>2. QED
      BY <1>1, <1>3, <1>5, <1>6, <2>2, <3>1
  <2>3. QED
    BY <1>1, <2>1, <2>2
<1>8. t = Inserted(s, i, e)
  BY DEF t, u, v, Inserted
<1>9. QED
  BY <1>1, <1>5, <1>6, <1>7, <1>8

\* A sequence without its elements between a and b.
LEMMA CutOutIs ==
  ASSUME NEW S, NEW s \in Seq(S), NEW a \in 0..Len(s), NEW b \in (a + 1)..(Len(s) + 1)
  PROVE  LET t == SubSeq(s, 1, a) \o SubSeq(s, b, Len(s)) IN
         /\ t \in Seq(S) /\ Len(t) = Len(s) - (b - a - 1) /\ Len(s) \in Nat
         /\ \A k \in 1..Len(t) : t[k] = IF k <= a THEN s[k] ELSE s[k + (b - a - 1)]
<1> DEFINE u == SubSeq(s, 1, a)
           v == SubSeq(s, b, Len(s))
           t == u \o v
<1>1. Len(s) \in Nat /\ \A j \in 1..Len(s) : s[j] \in S
  BY LenProperties, ElementOfSeq
<1>2. u \in Seq(S) /\ Len(u) = a /\ \A j \in 1..a : u[j] = s[j]
  <2>1. \A j \in 1..a : s[j] \in S
    BY <1>1
  <2>2. /\ u \in Seq(S) /\ Len(u) = IF 1 <= a THEN a - 1 + 1 ELSE 0
        /\ \A j \in 1..(a - 1 + 1) : u[j] = s[1 + j - 1]
    BY <1>1, <2>1, SubSeqProperties
  <2> HIDE DEF u
  <2>3. QED
    BY <1>1, <2>2
<1>3. v \in Seq(S) /\ Len(v) = Len(s) - b + 1
      /\ \A j \in 1..(Len(s) - b + 1) : v[j] = s[b + j - 1]
  <2>1. \A j \in b..Len(s) : s[j] \in S
    BY <1>1
  <2>2. /\ v \in Seq(S) /\ Len(v) = IF b <= Len(s) THEN Len(s) - b + 1 ELSE 0
        /\ \A j \in 1..(Len(s) - b + 1) : v[j] = s[b + j - 1]
    BY <1>1, <2>1, SubSeqProperties
  <2> HIDE DEF v
  <2>3. QED
    BY <1>1, <2>2
<1> HIDE DEF u, v
<1>4. /\ t \in Seq(S) /\ Len(t) = a + Len(v)
      /\ \A k \in 1..(a + Len(v)) : t[k] = IF k <= a THEN u[k] ELSE v[k - a]
  BY <1>2, <1>3, ConcatProperties
<1> HIDE DEF t
<1>5. Len(t) = Len(s) - (b - a - 1)
  BY <1>1, <1>3, <1>4
<1>6. ASSUME NEW k \in 1..Len(t)
      PROVE  t[k] = IF k <= a THEN s[k] ELSE s[k + (b - a - 1)]
  <2>1. CASE k <= a
    BY <1>1, <1>2, <1>4, <1>5, <2>1
  <2>2. CASE k > a
    <3>1. k - a \in 1..(Len(s) - b + 1) /\ b + (k - a) - 1 = k + (b - a - 1)
      BY <1>1, <1>5, <2>2
    <3>2. QED
      BY <1>1, <1>3, <1>4, <1>5, <2>2, <3>1
  <2>3. QED
    BY <1>1, <2>1, <2>2
<1>7. QED
  BY <1>1, <1>4, <1>5, <1>6 DEF t, u, v
=============================================================================
