----------------------- MODULE ActivityBindingProofs ------------------------
(***************************************************************************)
(* Whatever the numbers of activities, binds and services, the static      *)
(* fields, the list of the service and the screen agree at rest.           *)
(*                                                                         *)
(* What makes it so is the order of the messages of the main thread, so    *)
(* that most of the invariant is about the place of one message after      *)
(* another.                                                                *)
(***************************************************************************)
EXTENDS ActivityBinding, SequenceLemmas, FiniteSetTheorems, TLAPS

Bounds == MaxActivities \in Nat /\ MaxBinds \in Nat /\ MaxServices \in Nat

-----------------------------------------------------------------------------
(* Messages of a queue.                                                    *)

Messages == ({"bind"} \X Objects) \cup ({"connected"} \X Numbers \X Objects)
              \cup ({"register", "unregister"} \X Objects \X Numbers)

\* m is among the messages of q between those at k and at i; after that at k.
Between(q, k, i, m) == \E j \in (k + 1)..(i - 1) : q[j] = m
After(q, k, m) == Between(q, k, Len(q) + 1, m)

IsZero(m) == m[1] = "connected" /\ m[3] = 0

\* No service has ended by the messages of q after that at k.
NoZero(q, k) == \A j \in (k + 1)..Len(q) : ~IsZero(q[j])

\* The queue r is q without its first d messages and with those of T behind them.
Moved(q, d, T, r) ==
  /\ d \in 0..Len(q) /\ Len(r) \in Nat /\ Len(r) >= Len(q) - d
  /\ \A i \in 1..(Len(q) - d) : r[i] = q[i + d]
  /\ \A i \in (Len(q) - d + 1)..Len(r) : r[i] \in T
  /\ \A m \in T : \E i \in (Len(q) - d + 1)..Len(r) : r[i] = m

\* Messages are posted.
LEMMA Posted ==
  ASSUME NEW M, NEW q \in Seq(M), NEW s \in Seq(M), NEW T,
         \A j \in 1..Len(s) : s[j] \in T, \A m \in T : \E j \in 1..Len(s) : s[j] = m
  PROVE  q \o s \in Seq(M) /\ Moved(q, 0, T, q \o s)
<1>1. /\ q \o s \in Seq(M) /\ Len(q \o s) = Len(q) + Len(s)
      /\ \A i \in 1..(Len(q) + Len(s)) :
           (q \o s)[i] = IF i <= Len(q) THEN q[i] ELSE s[i - Len(q)]
  BY ConcatProperties
<1>2. Len(q) \in Nat /\ Len(s) \in Nat
  BY LenProperties
<1> DEFINE r == q \o s
<1> HIDE DEF r
<1>3. \A i \in (Len(q) + 1)..Len(r) : i - Len(q) \in 1..Len(s) /\ r[i] = s[i - Len(q)]
  BY <1>1, <1>2 DEF r
<1>4. \A j \in 1..Len(s) :
        Len(q) + j \in (Len(q) + 1)..Len(r) /\ r[Len(q) + j] = s[j]
  BY <1>1, <1>2, <1>3 DEF r
<1>5. \A m \in T : \E i \in (Len(q) + 1)..Len(r) : r[i] = m
  BY <1>4
<1>6. QED
  BY <1>1, <1>2, <1>3, <1>5 DEF Moved, r

\* The first message is taken.
LEMMA Taken ==
  ASSUME NEW M, NEW q \in Seq(M), q # <<>>
  PROVE  /\ Head(q) = q[1] /\ q[1] \in M /\ 1 \in 1..Len(q)
         /\ Tail(q) \in Seq(M) /\ Moved(q, 1, {}, Tail(q))
<1>1. /\ Head(q) \in M /\ Head(q) = q[1] /\ 1 \in 1..Len(q) /\ Tail(q) \in Seq(M)
      /\ Len(Tail(q)) = Len(q) - 1
      /\ \A i \in 1..Len(Tail(q)) : i + 1 \in 1..Len(q) /\ Tail(q)[i] = q[i + 1]
  BY RestOfSequence
<1>2. Len(q) \in Nat
  BY LenProperties
<1>3. QED
  BY <1>1, <1>2 DEF Moved

\* Messages are posted twice, or after the first one was taken.
LEMMA Then ==
  ASSUME NEW M, NEW q \in Seq(M), NEW r \in Seq(M), NEW w \in Seq(M),
         NEW d \in {0, 1}, NEW T, NEW U, Moved(q, d, T, r), Moved(r, 0, U, w)
  PROVE  Moved(q, d, T \cup U, w)
<1> DEFINE e == Len(q) - d
<1>1. Len(q) \in Nat /\ Len(r) \in Nat /\ Len(w) \in Nat
  BY LenProperties
<1>2. e \in Nat /\ Len(r) >= e /\ Len(w) >= Len(r)
  BY <1>1 DEF Moved
<1>3. \A i \in 1..Len(r) : w[i] = r[i]
  BY <1>1 DEF Moved
<1>4. \A i \in 1..e : w[i] = q[i + d]
  BY <1>1, <1>2, <1>3 DEF Moved
<1>5. ASSUME NEW i \in (e + 1)..Len(w) PROVE w[i] \in T \cup U
  <2>1. CASE i <= Len(r)
    BY <1>1, <1>2, <1>3, <2>1 DEF Moved
  <2>2. CASE i > Len(r)
    BY <1>1, <1>2, <2>2 DEF Moved
  <2>3. QED
    BY <1>1, <1>2, <2>1, <2>2
<1>6. ASSUME NEW m \in T \cup U PROVE \E i \in (e + 1)..Len(w) : w[i] = m
  <2>1. CASE m \in T
    <3>1. PICK i \in (e + 1)..Len(r) : r[i] = m
      BY <2>1 DEF Moved
    <3>2. i \in 1..Len(r) /\ i \in (e + 1)..Len(w)
      BY <1>1, <1>2
    <3>3. QED
      BY <1>3, <3>1, <3>2
  <2>2. CASE m \in U
    <3>1. PICK i \in (Len(r) + 1)..Len(w) : w[i] = m
      BY <1>1, <2>2 DEF Moved
    <3>2. i \in (e + 1)..Len(w)
      BY <1>1, <1>2
    <3>3. QED
      BY <3>1, <3>2
  <2>3. QED
    BY <2>1, <2>2
<1>7. QED
  BY <1>1, <1>2, <1>4, <1>5, <1>6 DEF Moved

\* Where a message of the new queue comes from.
LEMMA Place ==
  ASSUME NEW M, NEW q \in Seq(M), NEW r \in Seq(M), NEW T, NEW d \in {0, 1},
         Moved(q, d, T, r), NEW i \in 1..Len(r)
  PROVE  \/ /\ i + d \in 1..Len(q) /\ i \in 1..(Len(q) - d) /\ r[i] = q[i + d]
         \/ /\ i \in (Len(q) - d + 1)..Len(r) /\ r[i] \in T
<1>1. Len(q) \in Nat
  BY LenProperties
<1>2. CASE i <= Len(q) - d
  BY <1>1, <1>2 DEF Moved
<1>3. CASE i > Len(q) - d
  BY <1>1, <1>3 DEF Moved
<1>4. QED
  BY <1>1, <1>2, <1>3

\* What is between or after two messages is so when both have moved.
LEMMA Order ==
  ASSUME NEW M, NEW q \in Seq(M), NEW r \in Seq(M), NEW T, NEW d \in {0, 1},
         Moved(q, d, T, r)
  PROVE  /\ \A k \in 0..(Len(q) - d), i \in 1..(Len(q) - d) : \A m :
              Between(q, k + d, i + d, m) => Between(r, k, i, m)
         /\ \A k \in 0..(Len(q) - d), i \in (Len(q) - d + 1)..Len(r) : \A m :
              After(q, k + d, m) => Between(r, k, i, m)
         /\ \A k \in 0..(Len(q) - d) : \A m :
              After(q, k + d, m) \/ m \in T => After(r, k, m)
         /\ \A k \in 0..(Len(q) - d) : \A m : After(r, k, m) => After(q, k + d, m) \/ m \in T
         /\ \A k \in 0..(Len(q) - d) :
              NoZero(q, k + d) /\ (\A m \in T : ~IsZero(m)) => NoZero(r, k)
         /\ \A k \in (Len(q) - d)..Len(r) : \A m : After(r, k, m) => m \in T
         /\ \A k \in (Len(q) - d)..Len(r) : (\A m \in T : ~IsZero(m)) => NoZero(r, k)
<1>1. Len(q) \in Nat /\ Len(r) \in Nat /\ d \in 0..Len(q) /\ Len(r) >= Len(q) - d
  BY LenProperties DEF Moved
<1>2. ASSUME NEW k \in 0..(Len(q) - d), NEW i \in 1..(Len(q) - d), NEW m,
             Between(q, k + d, i + d, m)
      PROVE  Between(r, k, i, m)
  <2>2. PICK j \in (k + d + 1)..(i + d - 1) : q[j] = m
    BY <1>2 DEF Between
  <2>3. j - d \in (k + 1)..(i - 1) /\ j - d \in 1..(Len(q) - d) /\ j - d + d = j
    BY <1>1
  <2>4. r[j - d] = m
    BY <2>2, <2>3 DEF Moved
  <2>5. QED
    BY <2>3, <2>4 DEF Between
<1>3. ASSUME NEW k \in 0..(Len(q) - d), NEW m, After(q, k + d, m)
      PROVE  \A i \in (Len(q) - d + 1)..(Len(r) + 1) : Between(r, k, i, m)
  <2>2. PICK j \in (k + d + 1)..Len(q) : q[j] = m
    BY <1>1, <1>3 DEF Between, After
  <2>3. j - d \in (k + 1)..(Len(q) - d) /\ j - d \in 1..(Len(q) - d) /\ j - d + d = j
    BY <1>1
  <2>4. r[j - d] = m
    BY <2>2, <2>3 DEF Moved
  <2>5. \A i \in (Len(q) - d + 1)..(Len(r) + 1) : j - d \in (k + 1)..(i - 1)
    BY <1>1, <2>3
  <2>6. QED
    BY <2>5, <2>4 DEF Between
<1>4. ASSUME NEW k \in 0..(Len(q) - d), NEW m, After(q, k + d, m) \/ m \in T
      PROVE  After(r, k, m)
  <2>1. CASE After(q, k + d, m)
    BY <1>1, <1>3, <2>1 DEF After
  <2>2. CASE m \in T
    <3>1. PICK i \in (Len(q) - d + 1)..Len(r) : r[i] = m
      BY <2>2 DEF Moved
    <3>2. i \in (k + 1)..(Len(r) + 1 - 1)
      BY <1>1
    <3>3. QED
      BY <3>1, <3>2 DEF Between, After
  <2>3. QED
    BY <1>4, <2>1, <2>2
<1>5. ASSUME NEW k \in 0..(Len(q) - d), NEW m, After(r, k, m), m \notin T
      PROVE  After(q, k + d, m)
  <2>1. PICK i \in (k + 1)..Len(r) : r[i] = m
    BY <1>1, <1>5 DEF Between, After
  <2>2. i \in 1..Len(r)
    BY <1>1
  <2>3. i + d \in 1..Len(q) /\ r[i] = q[i + d]
    BY <2>1, <2>2, <1>5, Place
  <2>4. i + d \in (k + d + 1)..(Len(q) + 1 - 1)
    BY <1>1, <2>3
  <2>5. QED
    BY <2>1, <2>3, <2>4 DEF Between, After
<1>6. ASSUME NEW k \in 0..(Len(q) - d), NoZero(q, k + d), \A m \in T : ~IsZero(m)
      PROVE  NoZero(r, k)
  <2>1. SUFFICES ASSUME NEW i \in (k + 1)..Len(r) PROVE ~IsZero(r[i])
    BY DEF NoZero
  <2>2. i \in 1..Len(r)
    BY <1>1
  <2>3. CASE i + d \in 1..Len(q) /\ r[i] = q[i + d]
    <3>1. i + d \in (k + d + 1)..Len(q)
      BY <1>1, <2>3
    <3>2. QED
      BY <3>1, <2>3, <1>6 DEF NoZero
  <2>4. CASE r[i] \in T
    BY <2>4, <1>6
  <2>5. QED
    BY <2>2, <2>3, <2>4, Place
<1>7. \A k \in 0..(Len(q) - d), i \in (Len(q) - d + 1)..Len(r) : \A m :
              After(q, k + d, m) => Between(r, k, i, m)
  BY <1>1, <1>3
<1>8. \A k \in (Len(q) - d)..Len(r) : \A j \in (k + 1)..Len(r) : r[j] \in T
  BY <1>1 DEF Moved
<1>9. \A k \in (Len(q) - d)..Len(r) : \A m : After(r, k, m) => m \in T
  BY <1>1, <1>8 DEF After, Between
<1>10. \A k \in (Len(q) - d)..Len(r) : (\A m \in T : ~IsZero(m)) => NoZero(r, k)
  BY <1>8 DEF NoZero
<1>11. QED
  BY <1>2, <1>4, <1>5, <1>6, <1>7, <1>9, <1>10

\* When messages are only posted, the others keep their places.
Kept(q, T, r) ==
  /\ Len(q) \in Nat /\ Len(r) \in Nat /\ Len(r) >= Len(q)
  /\ \A i \in 1..Len(q) : r[i] = q[i]
  /\ \A i \in 1..Len(r) : \/ i \in 1..Len(q) /\ r[i] = q[i]
                          \/ i \in (Len(q) + 1)..Len(r) /\ r[i] \in T
  /\ \A k \in 0..Len(q), i \in 1..Len(q) : \A m : Between(q, k, i, m) => Between(r, k, i, m)
  /\ \A k \in 0..Len(q) : \A m : After(q, k, m) \/ m \in T => After(r, k, m)
  /\ \A k \in 0..Len(q) : \A m : After(r, k, m) => After(q, k, m) \/ m \in T
  /\ \A k \in 0..Len(q) :
       NoZero(q, k) /\ (\A m \in T : ~IsZero(m)) => NoZero(r, k)
  /\ \A k \in Len(q)..Len(r) : (\A m \in T : ~IsZero(m)) => NoZero(r, k)

LEMMA Behind ==
  ASSUME NEW M, NEW q \in Seq(M), NEW r \in Seq(M), NEW T, Moved(q, 0, T, r)
  PROVE  Kept(q, T, r)
<1>1. Len(q) \in Nat /\ Len(r) \in Nat /\ Len(r) >= Len(q) - 0
  BY LenProperties DEF Moved
<1>2. \A k \in Nat : k + 0 = k /\ k - 0 = k
  OBVIOUS
<1>3. \A i \in 1..Len(r) : \/ i \in 1..Len(q) /\ r[i] = q[i]
                           \/ i \in (Len(q) + 1)..Len(r) /\ r[i] \in T
  <2>1. ASSUME NEW i \in 1..Len(r)
        PROVE  \/ i + 0 \in 1..Len(q) /\ r[i] = q[i + 0]
               \/ i \in (Len(q) - 0 + 1)..Len(r) /\ r[i] \in T
    BY Place, SMTT(30)
  <2>2. QED
    BY <1>1, <1>2, <2>1
<1>4. /\ \A k \in 0..(Len(q) - 0), i \in 1..(Len(q) - 0) : \A m :
              Between(q, k + 0, i + 0, m) => Between(r, k, i, m)
      /\ \A k \in 0..(Len(q) - 0) : \A m : After(q, k + 0, m) \/ m \in T => After(r, k, m)
      /\ \A k \in 0..(Len(q) - 0) : \A m : After(r, k, m) => After(q, k + 0, m) \/ m \in T
      /\ \A k \in 0..(Len(q) - 0) :
              NoZero(q, k + 0) /\ (\A m \in T : ~IsZero(m)) => NoZero(r, k)
      /\ \A k \in (Len(q) - 0)..Len(r) : (\A m \in T : ~IsZero(m)) => NoZero(r, k)
  BY Order, SMTT(30)
<1>5. \A i \in 1..Len(q) : r[i] = q[i]
  BY <1>1 DEF Moved
<1>6. \A k \in 0..Len(q) : k + 0 = k /\ k \in 0..(Len(q) - 0)
  BY <1>1
<1>7. Len(q) - 0 = Len(q)
  BY <1>1
<1>8. \A i \in 1..Len(q) : i + 0 = i
  BY <1>1
<1>9. QED
  BY <1>1, <1>3, <1>4, <1>5, <1>6, <1>7, <1>8 DEF Kept

\* What came after the beginning, and was not taken, comes after what was.
LEMMA NotTheFirst ==
  ASSUME NEW M, NEW q \in Seq(M), q # <<>>
  PROVE  /\ \A m : After(q, 0, m) => q[1] = m \/ After(q, 1, m)
         /\ NoZero(q, 0) => NoZero(q, 1) /\ ~IsZero(q[1])
<1>1. Len(q) \in Nat /\ Len(q) > 0
  BY EmptySeq, LenProperties
<1>2. ASSUME NEW m, After(q, 0, m) PROVE q[1] = m \/ After(q, 1, m)
  BY <1>1, <1>2 DEF After, Between
<1>3. NoZero(q, 0) => NoZero(q, 1) /\ ~IsZero(q[1])
  BY <1>1 DEF NoZero
<1>4. QED
  BY <1>2, <1>3

\* What that means when the first one is taken: the others are one place further.
Shifted(q, T, r) ==
  /\ Len(q) \in Nat /\ Len(q) > 0 /\ Len(r) \in Nat /\ Len(r) >= Len(q) - 1
  /\ \A i \in 1..Len(r) :
       \/ i \in 1..(Len(q) - 1) /\ i + 1 \in 1..Len(q) /\ r[i] = q[i + 1]
       \/ i \in Len(q)..Len(r) /\ r[i] \in T
  /\ \A i \in 1..(Len(q) - 1) : i \in 1..Len(r) /\ r[i] = q[i + 1]
  /\ \A k \in 0..(Len(q) - 1), i \in 1..(Len(q) - 1) : \A m :
       Between(q, k + 1, i + 1, m) => Between(r, k, i, m)
  /\ \A k \in 0..(Len(q) - 1), i \in Len(q)..Len(r) : \A m :
       After(q, k + 1, m) => Between(r, k, i, m)
  /\ \A k \in 0..(Len(q) - 1) : \A m : After(q, k + 1, m) \/ m \in T => After(r, k, m)
  /\ \A k \in 0..(Len(q) - 1) : \A m : After(r, k, m) => After(q, k + 1, m) \/ m \in T
  /\ \A k \in Len(q)..Len(r) : \A m : After(r, k, m) => m \in T
  /\ \A m : After(q, 0, m) => q[1] = m \/ After(r, 0, m)
  /\ \A m : After(r, 0, m) => After(q, 1, m) \/ m \in T
  /\ \A m : After(q, 1, m) => After(q, 0, m) /\ After(r, 0, m)
  /\ \A m \in T : After(r, 0, m)
  /\ After(q, 0, q[1])
  /\ (\A m \in T : ~IsZero(m)) =>
       /\ \A k \in 0..(Len(q) - 1) : NoZero(q, k + 1) => NoZero(r, k)
       /\ \A k \in Len(q)..Len(r) : NoZero(r, k)
       /\ NoZero(q, 0) => NoZero(r, 0)
       /\ NoZero(q, 1) => NoZero(r, 0)
  /\ NoZero(q, 0) => ~IsZero(q[1])

LEMMA Ahead ==
  ASSUME NEW M, NEW q \in Seq(M), q # <<>>, NEW r \in Seq(M), NEW T, Moved(q, 1, T, r)
  PROVE  Shifted(q, T, r)
<1>1. Len(q) \in Nat /\ Len(q) > 0 /\ Len(r) \in Nat /\ Len(r) >= Len(q) - 1
  BY EmptySeq, LenProperties DEF Moved
<1>2. Len(q) - 1 + 1 = Len(q)
  BY <1>1
<1>3. \A i \in 1..Len(r) :
        \/ i \in 1..(Len(q) - 1) /\ i + 1 \in 1..Len(q) /\ r[i] = q[i + 1]
        \/ i \in Len(q)..Len(r) /\ r[i] \in T
  <2>1. ASSUME NEW i \in 1..Len(r)
        PROVE  \/ i + 1 \in 1..Len(q) /\ i \in 1..(Len(q) - 1) /\ r[i] = q[i + 1]
               \/ i \in (Len(q) - 1 + 1)..Len(r) /\ r[i] \in T
    BY Place, SMTT(30)
  <2>2. QED
    BY <1>2, <2>1
<1>4. /\ \A k \in 0..(Len(q) - 1), i \in 1..(Len(q) - 1) : \A m :
              Between(q, k + 1, i + 1, m) => Between(r, k, i, m)
      /\ \A k \in 0..(Len(q) - 1), i \in (Len(q) - 1 + 1)..Len(r) : \A m :
              After(q, k + 1, m) => Between(r, k, i, m)
      /\ \A k \in 0..(Len(q) - 1) : \A m : After(q, k + 1, m) \/ m \in T => After(r, k, m)
      /\ \A k \in 0..(Len(q) - 1) : \A m : After(r, k, m) => After(q, k + 1, m) \/ m \in T
      /\ \A k \in 0..(Len(q) - 1) :
              NoZero(q, k + 1) /\ (\A m \in T : ~IsZero(m)) => NoZero(r, k)
      /\ \A k \in (Len(q) - 1)..Len(r) : \A m : After(r, k, m) => m \in T
      /\ \A k \in (Len(q) - 1)..Len(r) : (\A m \in T : ~IsZero(m)) => NoZero(r, k)
  BY Order, SMTT(30)
<1>5. \A i \in 1..(Len(q) - 1) : i \in 1..Len(r) /\ r[i] = q[i + 1]
  BY <1>1 DEF Moved
<1>6. /\ \A m : After(q, 0, m) => q[1] = m \/ After(q, 1, m)
      /\ NoZero(q, 0) => NoZero(q, 1) /\ ~IsZero(q[1])
  BY NotTheFirst
<1>7. 0 \in 0..(Len(q) - 1) /\ 0 + 1 = 1
  BY <1>1
<1>8. \A k \in Len(q)..Len(r) : k \in (Len(q) - 1)..Len(r)
  BY <1>1
<1>9. /\ \A m : After(r, 0, m) => After(q, 1, m) \/ m \in T
      /\ \A m : After(q, 1, m) \/ m \in T => After(r, 0, m)
      /\ NoZero(q, 1) /\ (\A m \in T : ~IsZero(m)) => NoZero(r, 0)
  BY <1>4, <1>7
<1>10. After(q, 0, q[1]) /\ \A m : After(q, 1, m) => After(q, 0, m)
  BY <1>1 DEF After, Between
<1>11. \A k \in 0..(Len(q) - 1), i \in Len(q)..Len(r) : \A m :
              After(q, k + 1, m) => Between(r, k, i, m)
  BY <1>2, <1>4
<1>12. (\A m \in T : ~IsZero(m)) =>
              /\ \A k \in 0..(Len(q) - 1) : NoZero(q, k + 1) => NoZero(r, k)
              /\ \A k \in Len(q)..Len(r) : NoZero(r, k)
  BY <1>4, <1>8
<1>13. \A k \in Len(q)..Len(r) : \A m : After(r, k, m) => m \in T
  BY <1>4, <1>8
<1>14. QED
  BY <1>1, <1>3, <1>4, <1>5, <1>6, <1>9, <1>10, <1>11, <1>12, <1>13 DEF Shifted

\* The answers of the activity manager: one for every connection of S.
LEMMA TellIs ==
  ASSUME Bounds, NEW S \in SUBSET (Numbers \X Objects), NEW n \in Objects,
         NEW told \in Tell(S, n)
  PROVE  /\ told \in Seq(Messages)
         /\ \A j \in 1..Len(told) : \E c \in S : told[j] = <<"connected", c[1], n>>
         /\ \A c \in S : \E j \in 1..Len(told) : told[j] = <<"connected", c[1], n>>
<1> DEFINE T == {c[1] : c \in S}
           k == Cardinality(T)
<1>1. T \in SUBSET Numbers
  OBVIOUS
<1>2. IsFiniteSet(T) /\ k \in Nat
  <2>1. IsFiniteSet(Numbers)
    BY FS_Interval DEF Bounds, Numbers
  <2> HIDE DEF T
  <2>2. QED
    BY <1>1, <2>1, FS_Subset, FS_CardinalityType
<1>3. PICK f \in SetToSeqs(T) : told = [i \in DOMAIN f |-> <<"connected", f[i], n>>]
  BY DEF Tell
<1> HIDE DEF T
<1>4. f \in [1..k -> T] /\ \A i, j \in 1..k : i # j => f[i] # f[j]
  BY <1>3 DEF SetToSeqs
<1> HIDE DEF k
<1>5. told = [i \in 1..k |-> <<"connected", f[i], n>>]
  BY <1>3, <1>4
<1>6. \A i \in 1..k : f[i] \in T /\ f[i] \in Numbers
  BY <1>1, <1>4
<1>7. \A i \in 1..k : <<"connected", f[i], n>> \in Messages
  BY <1>6 DEF Messages
<1>8. told \in Seq(Messages) /\ Len(told) = k
  BY <1>2, <1>5, <1>7
<1>9. ASSUME NEW j \in 1..Len(told)
      PROVE  \E c \in S : told[j] = <<"connected", c[1], n>>
  <2>1. told[j] = <<"connected", f[j], n>> /\ f[j] \in T
    BY <1>5, <1>6, <1>8, <1>9
  <2>2. QED
    BY <2>1 DEF T
<1>10. ASSUME NEW c \in S
       PROVE  \E j \in 1..Len(told) : told[j] = <<"connected", c[1], n>>
  <2>1. c[1] \in T
    BY DEF T
  <2>2. ASSUME \A j \in 1..k : f[j] # c[1]
        PROVE  FALSE
    <3>1. f \in [1..k -> T \ {c[1]}]
      BY <1>4, <2>2
    <3>2. IsFiniteSet(T \ {c[1]}) /\ Cardinality(T \ {c[1]}) = k - 1
      <4>1. IsFiniteSet(T)
        BY <1>2
      <4>2. /\ IsFiniteSet(T \ {c[1]})
            /\ Cardinality(T \ {c[1]}) = IF c[1] \in T THEN Cardinality(T) - 1 ELSE Cardinality(T)
        BY ONLY <4>1, FS_RemoveElement
      <4>3. QED
        BY <2>1, <4>2 DEF k
    <3>3. IsFiniteSet(1..k) /\ Cardinality(1..k) = k
      BY <1>2, FS_Interval
    <3>4. Cardinality(T \ {c[1]}) < Cardinality(1..k)
      BY <1>2, <3>2, <3>3
    <3>5. \E x, y \in 1..k : x # y /\ f[x] = f[y]
      <4> DEFINE D == 1..k
                 U == T \ {c[1]}
      <4>1. /\ IsFiniteSet(D) /\ IsFiniteSet(U) /\ Cardinality(U) < Cardinality(D)
            /\ f \in [D -> U]
        BY <3>1, <3>2, <3>3, <3>4
      <4> HIDE DEF D, U
      <4>2. \E x, y \in D : x # y /\ f[x] = f[y]
        BY <4>1, FS_PigeonHole
      <4>3. QED
        BY <4>2 DEF D
    <3>6. QED
      BY <1>4, <3>5
  <2>3. QED
    BY <1>5, <1>8, <2>2
<1>11. QED
  BY <1>8, <1>9, <1>10

\* The list of the service without one of its clients.
LEMMA UnregisteredIs ==
  ASSUME NEW M, NEW s \in Seq(M), NEW e
  PROVE  /\ RemoveFirst(s, e) \in Seq(M)
         /\ Len(RemoveFirst(s, e)) <= Len(s)
         /\ Range(RemoveFirst(s, e)) \subseteq Range(s)
         /\ Range(s) \ {e} \subseteq Range(RemoveFirst(s, e))
         /\ Len(s) <= 1 => e \notin Range(RemoveFirst(s, e))
<1> DEFINE I == {i \in 1..Len(s) : s[i] = e}
           r == RemoveFirst(s, e)
<1>1. Len(s) \in Nat /\ \A i \in 1..Len(s) : s[i] \in M
  BY LenProperties, ElementOfSeq
<1>2. CASE I = {}
  <2>1. r = s
    BY <1>2 DEF RemoveFirst
  <2> HIDE DEF r
  <2>2. Range(s) = {s[i] : i \in 1..Len(s)}
    BY RangeEquality
  <2>3. e \notin Range(s)
    BY <1>2, <2>2
  <2>4. QED
    BY <1>1, <2>1, <2>3 DEF r
<1>3. CASE I # {}
  <2>1. \E i \in I : \A j \in I : i <= j
    <3>1. I \subseteq Nat
      OBVIOUS
    <3> HIDE DEF I
    <3>2. QED
      BY <1>3, <3>1, LeastNumber
  <2>2. Min(I) \in I
    BY <2>1 DEF Min
  <2>3. SelectInSeq(s, LAMBDA v : v = e) = Min(I)
    BY <1>3 DEF SelectInSeq
  <2> DEFINE p == Min(I)
  <2>4. r = SubSeq(s, 1, p - 1) \o SubSeq(s, p + 1, Len(s))
    BY <1>3, <2>3 DEF RemoveFirst, RemoveAt
  <2> HIDE DEF r, p
  <2>5. p \in 1..Len(s) /\ s[p] = e
    BY <2>2 DEF p
  <2>6. /\ r \in Seq(M) /\ Len(r) = Len(s) - 1
        /\ \A j \in 1..(Len(s) - 1) : r[j] = IF j < p THEN s[j] ELSE s[j + 1]
    BY <2>4, <2>5, RemoveAtProperties
  <2>7. Range(s) = {s[i] : i \in 1..Len(s)} /\ Range(r) = {r[i] : i \in 1..Len(r)}
    BY <2>6, RangeEquality
  <2>8. Range(r) \subseteq Range(s)
    <3>1. \A j \in 1..Len(r) : r[j] = s[j] \/ r[j] = s[j + 1]
      BY <2>6
    <3>2. \A j \in 1..Len(r) : j \in 1..Len(s) /\ j + 1 \in 1..Len(s)
      BY <1>1, <2>6
    <3>3. QED
      BY <2>7, <3>1, <3>2
  <2>9. ASSUME NEW i \in 1..Len(s), s[i] # e
        PROVE  s[i] \in Range(r)
    <3>1. CASE i < p
      BY <1>1, <2>5, <2>6, <2>7, <3>1
    <3>2. CASE i > p
      <4>1. i - 1 \in 1..Len(r) /\ ~(i - 1 < p) /\ (i - 1) + 1 = i
        BY <1>1, <2>5, <2>6, <3>2
      <4>2. r[i - 1] = s[i]
        BY <2>6, <4>1
      <4>3. QED
        BY <2>7, <4>1, <4>2
    <3>3. i # p
      BY <2>5, <2>9
    <3>4. QED
      BY <1>1, <2>5, <3>1, <3>2, <3>3
  <2>10. Range(s) \ {e} \subseteq Range(r)
    BY <2>7, <2>9
  <2>11. Len(s) <= 1 => e \notin Range(r)
    BY <1>1, <2>6, <2>7
  <2>12. QED
    BY <1>1, <2>6, <2>8, <2>10, <2>11 DEF r
<1>4. QED
  BY <1>2, <1>3
-----------------------------------------------------------------------------
(* The invariant.                                                          *)

\* Instances, binds and services get the next number; a dispatcher is that of
\* one instance.
Numbered ==
  /\ \A a \in Activities : /\ dispatcher[a].id <= messenger /\ dispatcher[a].has <= objects
                           /\ dispatcher[a].id = 0 => dispatcher[a].has = 0
                           /\ a > opened => dispatcher[a].id = 0
  /\ \A a, c \in Activities :
       dispatcher[a].id = dispatcher[c].id /\ dispatcher[a].id # 0 => a = c
  /\ service <= objects
  /\ \A i \in 1..Len(delayed) : delayed[i][2] <= opened

\* Messages are about what there was.
OfSome(m) == IF m[1] = "connected" THEN m[2] \in 1..messenger /\ m[3] \in 0..objects
                                   ELSE m[2] \in 1..objects

QueueNumbered == \A i \in 1..Len(inbox) : OfSome(inbox[i])

\* A connection record is one of a dispatcher that was not dropped, to the
\* service that runs.
ConnsLive ==
  \A c \in conns : /\ record # 0 /\ c[2] = record /\ c[1] # 0
                   /\ \E a \in Activities : dispatcher[a].id = c[1]

Up(a, n) == <<"connected", dispatcher[a].id, n>>
Down(a) == Up(a, 0)

\* A dispatcher that has a service is connected, or will be told of its end.
HeardIsTold ==
  \A a \in Activities : dispatcher[a].has # 0 =>
    \/ <<dispatcher[a].id, dispatcher[a].has>> \in conns
    \/ After(inbox, 0, Down(a))

\* So is one that is about to be told of it.
ToldIsTrue ==
  \A a \in Activities, i \in 1..Len(inbox) : \A n \in Objects \ {0} : inbox[i] = Up(a, n) =>
    \/ <<dispatcher[a].id, n>> \in conns
    \/ After(inbox, i, Down(a))

\* isBound is of a service that a dispatcher has.
BoundHeard == isBound => service # 0 /\ \E a \in Activities : dispatcher[a].has = service

Register(m) == <<"register", record, m>>
Unregister(m) == <<"unregister", record, m>>

\* The static messenger is registered where isBound says so, or will be.
BoundRegisters ==
  isBound /\ service = record =>
    \/ messenger \in Range(clients) /\ ~After(inbox, 0, Unregister(messenger))
    \/ \E i \in 1..Len(inbox) :
         inbox[i] = Register(messenger) /\ ~After(inbox, i, Unregister(messenger))

\* The end of a service is told before its successor is.
ZeroFirst ==
  /\ record # 0 /\ (\E a \in Activities : dispatcher[a].has = record) => NoZero(inbox, 0)
  /\ \A i \in 1..Len(inbox) :
       record # 0 /\ inbox[i][1] = "connected" /\ inbox[i][3] = record => NoZero(inbox, i)

\* A connection to the service is told, or will be.
Pending ==
  \A a \in Activities : record # 0 /\ <<dispatcher[a].id, record>> \in conns =>
    \/ dispatcher[a].has = record
    \/ After(inbox, 0, <<"bind", record>>)
    \/ After(inbox, 0, Up(a, record))

NoClients == record = 0 => clients = <<>>

Core == /\ Numbered /\ QueueNumbered /\ ConnsLive /\ HeardIsTold /\ ToldIsTrue /\ BoundHeard
        /\ BoundRegisters /\ ZeroFirst /\ Pending /\ NoClients

\* The rest holds while no instance was left early.  Then what is posted with a
\* delay is for the instance on screen,
OwnDelayed == \A i \in 1..Len(delayed) : delayed[i][2] = screen

\* no other one waits to be told of a service,
OneHearer ==
  \A a \in Activities :
    a # screen /\ <<dispatcher[a].id, record>> \in conns => dispatcher[a].has = record

\* and nothing is registered by whoever waits.
HearerUnbound ==
  \A a \in Activities :
    <<dispatcher[a].id, record>> \in conns /\ dispatcher[a].has # record
      => ~(isBound /\ service = record)

\* The next client registers after the last one was unregistered.
Alternate ==
  record # 0 =>
    /\ Len(clients) <= 1
    /\ \A i \in 1..Len(inbox) : \A m : inbox[i] = Register(m) =>
         /\ \A c \in Range(clients) : Between(inbox, 0, i, Unregister(c))
         /\ \A k \in 1..(i - 1) : \A l :
              inbox[k] = Register(l) => Between(inbox, k, i, Unregister(l))

\* Every client is unregistered, but the one that the statics stand for.
Held(m) == isBound /\ service = record /\ m = messenger

AllGivenUp ==
  record # 0 =>
    /\ \A c \in Range(clients) : Held(c) \/ After(inbox, 0, Unregister(c))
    /\ \A k \in 1..Len(inbox) : \A m :
         inbox[k] = Register(m) => Held(m) \/ After(inbox, k, Unregister(m))

\* The last messenger is that of the instance on screen, if it has bound.
Owned == screen # 0 /\ dispatcher[screen].id # 0 => messenger # 0 /\ owner[messenger] = screen

Timely == OwnDelayed /\ OneHearer /\ HearerUnbound /\ Alternate /\ AllGivenUp /\ Owned

\* While none was opened before onDestroy of another, isBound knows of the
\* service that the instance on screen has.
Fed ==
  /\ screen # 0 => finishing = {}
  /\ ~late /\ screen # 0 /\ record # 0 /\ dispatcher[screen].has = record
       => isBound /\ service = record

IInv == TypeOK /\ Core /\ (~late => Timely) /\ (~overlapped => Fed)
-----------------------------------------------------------------------------
(* What holds however early the user leaves.                               *)

\* The message that gives up the registration, if there is one.
GivenUp == IF isBound /\ service # 0 THEN {<<"unregister", service, messenger>>} ELSE {}

LEMMA GivenUpPosted ==
  ASSUME TypeOK
  PROVE  /\ inbox \o Unregistering \in Seq(Messages) /\ inbox \in Seq(Messages)
         /\ Moved(inbox, 0, GivenUp, inbox \o Unregistering)
<1> DEFINE m == <<"unregister", service, messenger>>
<1>1. inbox \in Seq(Messages) /\ m \in Messages
  BY DEF TypeOK, Messages
<1>2. Unregistering \in Seq(Messages)
  BY <1>1 DEF Unregistering
<1>3. /\ \A j \in 1..Len(Unregistering) : Unregistering[j] \in GivenUp
      /\ \A x \in GivenUp : \E j \in 1..Len(Unregistering) : Unregistering[j] = x
  BY DEF Unregistering, GivenUp
<1>4. QED
  BY <1>1, <1>2, <1>3, Posted

\* A connection is given up.
LEMMA DropKeeps ==
  ASSUME Bounds, TypeOK, TypeOK', Core, NEW a \in Activities, OnDestroy(a),
         UNCHANGED services, opened' >= opened,
         \A i \in 1..Len(delayed') : delayed'[i][2] <= opened'
  PROVE  Core'
<1>1. /\ inbox' \in Seq(Messages) /\ inbox \in Seq(Messages)
      /\ Moved(inbox, 0, GivenUp, inbox')
  BY GivenUpPosted DEF OnDestroy
<1>0. Kept(inbox, GivenUp, inbox')
  BY <1>1, Behind
<1>2. /\ ~isBound' /\ dispatcher' \in [Activities -> [id : Numbers, has : Objects]]
      /\ dispatcher'[a] = Unbound /\ \A c \in Activities \ {a} : dispatcher'[c] = dispatcher[c]
      /\ conns' = {c \in conns : c[1] # dispatcher[a].id}
      /\ service' = service /\ messenger' = messenger /\ record' = record
      /\ objects' = objects /\ clients' = clients
  BY DEF OnDestroy, TypeOK, services, Dropped, Without
<1>3. \A m \in GivenUp : /\ m = <<"unregister", service, messenger>> /\ service # 0
                         /\ m[1] = "unregister" /\ m[2] = service /\ ~IsZero(m)
  BY DEF GivenUp, IsZero
<1>4. \A i \in 1..Len(inbox') :
         \/ i \in 1..Len(inbox) /\ inbox'[i] = inbox[i]
         \/ i \in (Len(inbox) + 1)..Len(inbox') /\ inbox'[i] \in GivenUp
  BY <1>0 DEF Kept
<1>5. /\ \A k \in 0..Len(inbox) : \A m : After(inbox, k, m) => After(inbox', k, m)
      /\ \A k \in 0..Len(inbox) : NoZero(inbox, k) => NoZero(inbox', k)
  BY <1>3, <1>0 DEF Kept
<1>6. /\ opened \in Nat /\ opened' \in Nat /\ messenger \in Nat /\ service \in Nat
      /\ objects \in Nat /\ Len(inbox) \in Nat
  BY <1>1, LenProperties DEF Bounds, TypeOK, Objects, Numbers
<1>10. Numbered'
  <2>1. ASSUME NEW c \in Activities
        PROVE  /\ dispatcher'[c].id <= messenger' /\ dispatcher'[c].has <= objects'
               /\ dispatcher'[c].id = 0 => dispatcher'[c].has = 0
               /\ c > opened' => dispatcher'[c].id = 0
    BY <1>2, <1>6 DEF Core, Numbered, Unbound, Activities
  <2>2. ASSUME NEW c \in Activities, NEW e \in Activities,
               dispatcher'[c].id = dispatcher'[e].id, dispatcher'[c].id # 0
        PROVE  c = e
    BY <1>2, <2>2 DEF Core, Numbered, Unbound
  <2>3. QED
    BY <1>2, <2>1, <2>2 DEF Core, Numbered
<1>11. QueueNumbered'
  <2>1. \A m \in GivenUp : OfSome(m)'
    BY <1>2, <1>3, <1>6 DEF Core, Numbered, OfSome
  <2>2. \A m : OfSome(m) => OfSome(m)'
    BY <1>2 DEF OfSome
  <2>3. QED
    BY <1>4, <2>1, <2>2 DEF Core, QueueNumbered
<1>12. ConnsLive'
  BY <1>2 DEF Core, ConnsLive
<1>13. HeardIsTold'
  <2>1. SUFFICES ASSUME NEW c \in Activities, dispatcher'[c].has # 0
                 PROVE  \/ <<dispatcher'[c].id, dispatcher'[c].has>> \in conns'
                        \/ After(inbox', 0, <<"connected", dispatcher'[c].id, 0>>)
    BY DEF HeardIsTold, Up, Down
  <2>2. c # a /\ dispatcher'[c] = dispatcher[c] /\ dispatcher[c].id # dispatcher[a].id
    BY <1>2, <2>1 DEF Core, Numbered, Unbound
  <2>3. \/ <<dispatcher[c].id, dispatcher[c].has>> \in conns
        \/ After(inbox, 0, <<"connected", dispatcher[c].id, 0>>)
    BY <2>1, <2>2 DEF Core, HeardIsTold, Up, Down
  <2>4. QED
    BY <1>2, <1>5, <1>6, <2>2, <2>3
<1>14. ToldIsTrue'
  <2>1. SUFFICES ASSUME NEW c \in Activities, NEW i \in 1..Len(inbox'), NEW n \in Objects \ {0},
                        inbox'[i] = <<"connected", dispatcher'[c].id, n>>
                 PROVE  \/ <<dispatcher'[c].id, n>> \in conns'
                        \/ After(inbox', i, <<"connected", dispatcher'[c].id, 0>>)
    BY DEF ToldIsTrue, Up, Down
  <2>2. i \in 1..Len(inbox) /\ inbox[i] = <<"connected", dispatcher'[c].id, n>>
    BY <1>3, <1>4, <2>1
  <2>3. dispatcher'[c].id # 0
    BY <2>2 DEF Core, QueueNumbered, OfSome
  <2>4. c # a /\ dispatcher'[c] = dispatcher[c] /\ dispatcher[c].id # dispatcher[a].id
    BY <1>2, <2>3 DEF Core, Numbered, Unbound
  <2>5. \/ <<dispatcher[c].id, n>> \in conns
        \/ After(inbox, i, <<"connected", dispatcher[c].id, 0>>)
    BY <2>2, <2>4 DEF Core, ToldIsTrue, Up, Down
  <2>6. QED
    BY <1>2, <1>5, <1>6, <2>2, <2>4, <2>5
<1>15. BoundHeard' /\ BoundRegisters'
  BY <1>2 DEF BoundHeard, BoundRegisters
<1>16. ZeroFirst'
  <2>1. ASSUME NEW c \in Activities, record # 0, dispatcher'[c].has = record
        PROVE  NoZero(inbox', 0)
    <3>1. dispatcher[c].has = record
      BY <1>2, <2>1 DEF Unbound
    <3>2. QED
      BY <1>5, <1>6, <2>1, <3>1 DEF Core, ZeroFirst
  <2>2. ASSUME NEW i \in 1..Len(inbox'), record # 0,
               inbox'[i][1] = "connected", inbox'[i][3] = record
        PROVE  NoZero(inbox', i)
    <3>1. i \in 1..Len(inbox) /\ inbox'[i] = inbox[i]
      BY <1>3, <1>4, <2>2
    <3>2. NoZero(inbox, i)
      BY <2>2, <3>1 DEF Core, ZeroFirst
    <3>3. QED
      BY <1>5, <1>6, <3>1, <3>2
  <2>3. QED
    BY <1>2, <2>1, <2>2 DEF ZeroFirst
<1>17. Pending'
  <2>1. SUFFICES ASSUME NEW c \in Activities, record # 0,
                        <<dispatcher'[c].id, record>> \in conns'
                 PROVE  \/ dispatcher'[c].has = record
                        \/ After(inbox', 0, <<"bind", record>>)
                        \/ After(inbox', 0, <<"connected", dispatcher'[c].id, record>>)
    BY <1>2 DEF Pending, Up
  <2>2. c # a /\ dispatcher'[c] = dispatcher[c] /\ <<dispatcher[c].id, record>> \in conns
    BY <1>2, <2>1 DEF Core, ConnsLive, Unbound
  <2>3. \/ dispatcher[c].has = record
        \/ After(inbox, 0, <<"bind", record>>)
        \/ After(inbox, 0, <<"connected", dispatcher[c].id, record>>)
    BY <2>1, <2>2 DEF Core, Pending, Up
  <2>4. QED
    BY <1>5, <1>6, <2>2, <2>3
<1>18. NoClients'
  BY <1>2 DEF Core, NoClients
<1>19. QED
  BY <1>10, <1>11, <1>12, <1>13, <1>14, <1>15, <1>16, <1>17, <1>18 DEF Core

LEMMA BindPosted ==
  ASSUME TypeOK, NEW n \in Objects
  PROVE  LET r == inbox \o Unregistering \o <<<<"bind", n>>>> IN
         r \in Seq(Messages) /\ Moved(inbox, 0, GivenUp \cup {<<"bind", n>>}, r)
<1> DEFINE q == inbox \o Unregistering
           m == <<"bind", n>>
<1>1. q \in Seq(Messages) /\ inbox \in Seq(Messages) /\ Moved(inbox, 0, GivenUp, q)
  BY GivenUpPosted
<1>2. m \in Messages
  BY DEF Messages
<1> HIDE DEF q, m
<1>3. <<m>> \in Seq(Messages)
  BY <1>2
<1>4. q \o <<m>> \in Seq(Messages) /\ Moved(q, 0, {m}, q \o <<m>>)
  <2>1. /\ \A j \in 1..Len(<<m>>) : <<m>>[j] \in {m}
        /\ \A x \in {m} : \E j \in 1..Len(<<m>>) : <<m>>[j] = x
    OBVIOUS
  <2>2. QED
    BY <1>1, <1>3, <2>1, Posted
<1>5. Moved(inbox, 0, GivenUp \cup {m}, q \o <<m>>)
  BY <1>1, <1>4, Then
<1>6. QED
  BY <1>4, <1>5 DEF q, m

\* bindService, to the service that runs or to a new one.
LEMMA BindKeeps ==
  ASSUME Bounds, TypeOK, TypeOK', Core, NEW a \in Activities, NEW n \in Objects \ {0},
         a <= opened, BindService(a, n),
         \/ n = record /\ UNCHANGED services
         \/ record = 0 /\ n = objects + 1 /\ objects' = n /\ record' = n /\ clients' = <<>>,
         opened' = opened, \A i \in 1..Len(delayed') : delayed'[i][2] <= opened
  PROVE  Core'
<1> DEFINE new == isBound \/ dispatcher[a].id = 0
           d == IF new THEN messenger + 1 ELSE dispatcher[a].id
           T == GivenUp \cup {<<"bind", n>>}
<1>1. /\ inbox' \in Seq(Messages) /\ inbox \in Seq(Messages) /\ Moved(inbox, 0, T, inbox')
  <2>1. inbox \in Seq(Messages)
    BY DEF TypeOK, Messages
  <2>2. QED
    BY <2>1, BindPosted DEF BindService
<1>0. Kept(inbox, T, inbox')
  <2> HIDE DEF T
  <2>1. QED
    BY <1>1, Behind
<1>2. /\ ~isBound' /\ service' = service /\ messenger' = messenger + 1 /\ record' = n
      /\ dispatcher' \in [Activities -> [id : Numbers, has : Objects]]
      /\ dispatcher \in [Activities -> [id : Numbers, has : Objects]]
      /\ dispatcher'[a].id = d /\ dispatcher'[a].has = IF new THEN 0 ELSE dispatcher[a].has
      /\ \A c \in Activities \ {a} : dispatcher'[c] = dispatcher[c]
  BY DEF BindService, TypeOK, services
<1>3. /\ \A c \in conns' :
           \/ c = <<d, n>>
           \/ c \in conns /\ ~(isBound /\ c[1] = dispatcher[a].id)
      /\ <<d, n>> \in conns'
      /\ \A c \in conns : ~isBound \/ c[1] # dispatcher[a].id => c \in conns'
  BY DEF BindService, Without
<1>4. /\ opened \in Nat /\ messenger \in Nat /\ service \in Nat
      /\ objects \in Nat /\ objects' \in Nat /\ Len(inbox) \in Nat /\ n \in Nat
      /\ objects <= objects' /\ n <= objects'
  <2>1. /\ opened \in Nat /\ messenger \in Nat /\ service \in Nat
        /\ objects \in Nat /\ record \in {0, objects} /\ n \in Nat
    BY DEF Bounds, TypeOK, Objects, Numbers
  <2>2. Len(inbox) \in Nat
    BY <1>1, LenProperties
  <2>3. CASE n = record /\ UNCHANGED services
    BY <2>1, <2>2, <2>3 DEF services
  <2>4. CASE n = objects + 1 /\ objects' = n
    BY <2>1, <2>2, <2>4
  <2>5. QED
    BY <2>3, <2>4
<1>5. \A m \in T : \/ m = <<"bind", n>> /\ m[1] = "bind" /\ m[2] = n
                   \/ m[1] = "unregister" /\ m[2] = service /\ service # 0
  BY DEF GivenUp
<1> HIDE DEF T
<1>6. \A m \in T : m[1] # "connected" /\ ~IsZero(m)
  BY <1>5 DEF IsZero
<1>7. /\ \A i \in 1..Len(inbox') :
         \/ i \in 1..Len(inbox) /\ inbox'[i] = inbox[i]
         \/ i \in (Len(inbox) + 1)..Len(inbox') /\ inbox'[i] \in T
      /\ \A k \in 0..Len(inbox) : \A m : After(inbox, k, m) \/ m \in T => After(inbox', k, m)
      /\ \A k \in 0..Len(inbox) : NoZero(inbox, k) => NoZero(inbox', k)
      /\ \A k \in Len(inbox)..Len(inbox') : NoZero(inbox', k)
  BY <1>6, <1>0 DEF Kept
<1>8. /\ \A c \in Activities \ {a} : dispatcher[c].id # d
      /\ d # 0 /\ d \in Nat /\ d <= messenger + 1
      /\ ~new => d = dispatcher[a].id /\ dispatcher'[a].has = dispatcher[a].has /\ ~isBound
      /\ new => d = messenger + 1 /\ dispatcher'[a].has = 0
  BY <1>2, <1>4 DEF Core, Numbered, Numbers, Bounds
<1> HIDE DEF new, d
<1>9. \A c \in Activities \ {a} : dispatcher[c].id # 0 => dispatcher[c].id # dispatcher[a].id
  BY DEF Core, Numbered
<1>10. Numbered'
  <2>1. ASSUME NEW c \in Activities
        PROVE  /\ dispatcher'[c].id <= messenger' /\ dispatcher'[c].has <= objects'
               /\ dispatcher'[c].id = 0 => dispatcher'[c].has = 0
               /\ c > opened' => dispatcher'[c].id = 0
    <3>1. dispatcher[c].id \in Nat /\ dispatcher[c].has \in Nat
      BY <1>2, Bounds DEF Bounds, Numbers, Objects
    <3>2. CASE c = a
      BY <1>2, <1>4, <1>8, <3>1, <3>2 DEF Core, Numbered, Activities
    <3>3. CASE c # a
      BY <1>2, <1>4, <3>1, <3>3 DEF Core, Numbered, Activities
    <3>4. QED
      BY <3>2, <3>3
  <2>2. ASSUME NEW c \in Activities, NEW e \in Activities,
               dispatcher'[c].id = dispatcher'[e].id, dispatcher'[c].id # 0
        PROVE  c = e
    BY <1>2, <1>8, <2>2 DEF Core, Numbered
  <2>3. service' <= objects'
    BY <1>2, <1>4 DEF Core, Numbered
  <2>4. QED
    BY <2>1, <2>2, <2>3 DEF Numbered
<1>11. QueueNumbered'
  <2>1. \A m \in T : OfSome(m)'
    BY <1>2, <1>4, <1>5 DEF Core, Numbered, OfSome
  <2>2. ASSUME NEW m, OfSome(m) PROVE OfSome(m)'
    <3>1. /\ messenger \in Nat /\ messenger' = messenger + 1
          /\ objects \in Nat /\ objects' \in Nat /\ objects <= objects'
      BY <1>2, <1>4
    <3>2. /\ \A x \in 1..messenger : x \in 1..messenger'
          /\ \A x \in 0..objects : x \in 0..objects'
          /\ \A x \in 1..objects : x \in 1..objects'
      BY ONLY <3>1
    <3>3. QED
      BY <2>2, <3>2 DEF OfSome
  <2>3. QED
    BY <1>7, <2>1, <2>2 DEF Core, QueueNumbered
<1>12. ConnsLive'
  <2>1. SUFFICES ASSUME NEW c \in conns'
                 PROVE  /\ c[2] = n /\ c[1] # 0
                        /\ \E e \in Activities : dispatcher'[e].id = c[1]
    BY <1>2 DEF ConnsLive
  <2>2. CASE c = <<d, n>>
    BY <1>2, <1>8, <2>2
  <2>3. CASE c \in conns /\ ~(isBound /\ c[1] = dispatcher[a].id)
    <3>1. record = n /\ c[2] = n /\ c[1] # 0
      BY <2>3 DEF Core, ConnsLive
    <3>2. PICK e \in Activities : dispatcher[e].id = c[1]
      BY <2>3 DEF Core, ConnsLive
    <3>3. dispatcher'[e].id = c[1]
      BY <1>2, <1>8, <2>3, <3>1, <3>2 DEF new
    <3>4. QED
      BY <3>1, <3>3
  <2>4. QED
    BY <1>3, <2>2, <2>3
<1>13. HeardIsTold'
  <2>1. SUFFICES ASSUME NEW c \in Activities, dispatcher'[c].has # 0
                 PROVE  \/ <<dispatcher'[c].id, dispatcher'[c].has>> \in conns'
                        \/ After(inbox', 0, <<"connected", dispatcher'[c].id, 0>>)
    BY DEF HeardIsTold, Up, Down
  <2>2. /\ dispatcher'[c].id = dispatcher[c].id /\ dispatcher'[c].has = dispatcher[c].has
        /\ ~isBound \/ dispatcher[c].id # dispatcher[a].id
    BY <1>2, <1>8, <1>9, <2>1 DEF Core, Numbered
  <2>3. \/ <<dispatcher[c].id, dispatcher[c].has>> \in conns
        \/ After(inbox, 0, <<"connected", dispatcher[c].id, 0>>)
    BY <2>1, <2>2 DEF Core, HeardIsTold, Up, Down
  <2>4. QED
    BY <1>3, <1>4, <1>7, <2>2, <2>3
<1>14. ToldIsTrue'
  <2>1. SUFFICES ASSUME NEW c \in Activities, NEW i \in 1..Len(inbox'), NEW k \in Objects \ {0},
                        inbox'[i] = <<"connected", dispatcher'[c].id, k>>
                 PROVE  \/ <<dispatcher'[c].id, k>> \in conns'
                        \/ After(inbox', i, <<"connected", dispatcher'[c].id, 0>>)
    BY DEF ToldIsTrue, Up, Down
  <2>2. i \in 1..Len(inbox) /\ inbox[i] = <<"connected", dispatcher'[c].id, k>>
    BY <1>6, <1>7, <2>1
  <2>3. dispatcher'[c].id \in 1..messenger
    BY <2>2 DEF Core, QueueNumbered, OfSome
  <2>4. dispatcher'[c].id = dispatcher[c].id /\ (~isBound \/ dispatcher[c].id # dispatcher[a].id)
    BY <1>2, <1>4, <1>8, <1>9, <2>3
  <2>5. \/ <<dispatcher[c].id, k>> \in conns
        \/ After(inbox, i, <<"connected", dispatcher[c].id, 0>>)
    BY <2>2, <2>4 DEF Core, ToldIsTrue, Up, Down
  <2>6. QED
    BY <1>3, <1>4, <1>7, <2>2, <2>4, <2>5
<1>15. BoundHeard' /\ BoundRegisters'
  BY <1>2 DEF BoundHeard, BoundRegisters
<1>16. ZeroFirst'
  <2>1. ASSUME NEW c \in Activities, dispatcher'[c].has = n
        PROVE  NoZero(inbox', 0)
    <3>1. dispatcher[c].has = n
      BY <1>2, <1>8, <2>1
    <3>2. n = record
      BY <1>4, <3>1 DEF Core, Numbered
    <3>3. NoZero(inbox, 0)
      BY <3>1, <3>2 DEF Core, ZeroFirst
    <3>4. QED
      BY <1>4, <1>7, <3>3
  <2>2. ASSUME NEW i \in 1..Len(inbox'), inbox'[i][1] = "connected", inbox'[i][3] = n
        PROVE  NoZero(inbox', i)
    <3>1. i \in 1..Len(inbox) /\ inbox'[i] = inbox[i]
      BY <1>6, <1>7, <2>2
    <3>2. OfSome(inbox[i])
      BY <3>1 DEF Core, QueueNumbered
    <3>3. n = record
      BY <1>4, <2>2, <3>1, <3>2 DEF OfSome
    <3>4. NoZero(inbox, i)
      BY <2>2, <3>1, <3>3 DEF Core, ZeroFirst
    <3>5. QED
      BY <1>4, <1>7, <3>1, <3>4
  <2>3. QED
    BY <1>2, <2>1, <2>2 DEF ZeroFirst
<1>17. Pending'
  <2>1. After(inbox', 0, <<"bind", n>>)
    BY <1>4, <1>7 DEF T
  <2>2. QED
    BY <1>2, <2>1 DEF Pending
<1>18. NoClients'
  BY <1>2 DEF NoClients
<1>19. QED
  BY <1>10, <1>11, <1>12, <1>13, <1>14, <1>15, <1>16, <1>17, <1>18 DEF Core

\* What the connections K are told of the end of the service.
Ends(K) == {<<"connected", c[1], 0>> : c \in K}

\* The service stops, from the toggle after the connection of instance a was
\* given up, or otherwise.
LEMMA StopKeeps ==
  ASSUME Bounds, TypeOK, TypeOK', Core, NEW K \in SUBSET conns,
         \/ \E a \in Activities :
              /\ dispatcher' = Dropped(a) /\ ~isBound'
              /\ \A c \in conns : c[1] # dispatcher[a].id => c \in K
         \/ dispatcher' = dispatcher /\ isBound' = isBound /\ K = conns,
         Moved(inbox, 0, GivenUp \cup Ends(K), inbox') \/ Moved(inbox, 0, Ends(K), inbox'),
         conns' = {}, record' = 0, clients' = <<>>,
         UNCHANGED <<opened, delayed, service, messenger, objects>>
  PROVE  Core'
<1>1. /\ inbox' \in Seq(Messages) /\ inbox \in Seq(Messages)
  BY DEF TypeOK, Messages
<1>2. PICK T : /\ Moved(inbox, 0, T, inbox') /\ Ends(K) \subseteq T
               /\ T \subseteq GivenUp \cup Ends(K)
  OBVIOUS
<1>0. Kept(inbox, T, inbox')
  BY <1>1, <1>2, Behind
<1>3. /\ opened \in Nat /\ messenger \in Nat /\ service \in Nat /\ objects \in Nat
      /\ Len(inbox) \in Nat
      /\ dispatcher \in [Activities -> [id : Numbers, has : Objects]]
      /\ dispatcher' \in [Activities -> [id : Numbers, has : Objects]]
  <2>1. Len(inbox) \in Nat
    BY <1>1, LenProperties
  <2>2. QED
    <3>1. opened \in Nat /\ messenger \in Nat /\ service \in Nat /\ objects \in Nat
      BY ONLY Bounds, TypeOK DEF Bounds, TypeOK, Objects, Numbers
    <3>2. /\ dispatcher \in [Activities -> [id : Numbers, has : Objects]]
          /\ dispatcher' \in [Activities -> [id : Numbers, has : Objects]]
      BY ONLY TypeOK, TypeOK' DEF TypeOK
    <3>3. QED
      BY ONLY <2>1, <3>1, <3>2
<1>9. PICK a : \/ /\ a \in Activities /\ dispatcher' = Dropped(a) /\ ~isBound'
                  /\ \A c \in conns : c[1] # dispatcher[a].id => c \in K
               \/ dispatcher' = dispatcher /\ isBound' = isBound /\ K = conns
  OBVIOUS
<1>4. /\ \A c \in Activities : \/ dispatcher'[c] = dispatcher[c] /\ (c # a \/ K = conns)
                               \/ c = a /\ dispatcher'[c] = Unbound
      /\ isBound' => isBound /\ dispatcher' = dispatcher
  BY <1>3, <1>9 DEF Dropped
<1>5. \A m \in GivenUp : m[1] = "unregister" /\ m[2] = service /\ service # 0
  BY DEF GivenUp
<1>6. \A m \in Ends(K) : \E c \in conns : m[1] = "connected" /\ m[2] = c[1] /\ m[3] = 0
  BY DEF Ends
<1>7. /\ \A i \in 1..Len(inbox') :
           \/ i \in 1..Len(inbox) /\ inbox'[i] = inbox[i]
           \/ i \in (Len(inbox) + 1)..Len(inbox') /\ inbox'[i] \in T
      /\ \A k \in 0..Len(inbox) : \A m : After(inbox, k, m) \/ m \in T => After(inbox', k, m)
  BY <1>0 DEF Kept
<1>8. \A c \in Activities : \A n : <<dispatcher[c].id, n>> \in conns /\ (c # a \/ K = conns)
        => <<"connected", dispatcher[c].id, 0>> \in T
  <2>1. SUFFICES ASSUME NEW c \in Activities, NEW n, <<dispatcher[c].id, n>> \in conns,
                        c # a \/ K = conns
                 PROVE  <<"connected", dispatcher[c].id, 0>> \in T
    OBVIOUS
  <2>2. dispatcher[c].id # 0
    BY <2>1 DEF Core, ConnsLive
  <2>3. c # a /\ a \in Activities => dispatcher[c].id # dispatcher[a].id
    BY <2>2 DEF Core, Numbered
  <2>4. <<dispatcher[c].id, n>> \in K
    BY <1>9, <2>1, <2>3
  <2>5. QED
    BY <1>2, <2>4 DEF Ends
<1>10. Numbered'
  <2>1. ASSUME NEW c \in Activities
        PROVE  /\ dispatcher'[c].id <= messenger' /\ dispatcher'[c].has <= objects'
               /\ dispatcher'[c].id = 0 => dispatcher'[c].has = 0
               /\ c > opened' => dispatcher'[c].id = 0
    BY <1>3, <1>4 DEF Core, Numbered, Unbound
  <2>2. ASSUME NEW c \in Activities, NEW e \in Activities,
               dispatcher'[c].id = dispatcher'[e].id, dispatcher'[c].id # 0
        PROVE  c = e
    BY <1>4, <2>2 DEF Core, Numbered, Unbound
  <2>3. QED
    BY <2>1, <2>2 DEF Core, Numbered
<1>11. QueueNumbered'
  <2>1. \A m \in GivenUp : OfSome(m)'
    BY <1>3, <1>5 DEF Core, Numbered, OfSome
  <2>2. \A m \in Ends(K) : OfSome(m)'
    <3>1. \A c \in conns : c[1] \in 1..messenger
      BY <1>3 DEF Core, ConnsLive, Numbered, Numbers
    <3>2. QED
      BY <1>3, <1>6, <3>1 DEF OfSome
  <2>3. \A m : OfSome(m) => OfSome(m)'
    BY DEF OfSome
  <2>4. QED
    BY <1>2, <1>7, <2>1, <2>2, <2>3 DEF Core, QueueNumbered
<1>12. ConnsLive'
  BY DEF ConnsLive
<1>13. HeardIsTold'
  <2>1. SUFFICES ASSUME NEW c \in Activities, dispatcher'[c].has # 0
                 PROVE  After(inbox', 0, <<"connected", dispatcher'[c].id, 0>>)
    BY DEF HeardIsTold, Up, Down
  <2>2. dispatcher'[c] = dispatcher[c] /\ (c # a \/ K = conns)
    BY <1>4, <2>1 DEF Unbound
  <2>3. \/ <<dispatcher[c].id, dispatcher[c].has>> \in conns
        \/ After(inbox, 0, <<"connected", dispatcher[c].id, 0>>)
    BY <2>1, <2>2 DEF Core, HeardIsTold, Up, Down
  <2>4. QED
    BY <1>3, <1>7, <1>8, <2>2, <2>3
<1>14. ToldIsTrue'
  <2>1. SUFFICES ASSUME NEW c \in Activities, NEW i \in 1..Len(inbox'), NEW n \in Objects \ {0},
                        inbox'[i] = <<"connected", dispatcher'[c].id, n>>
                 PROVE  After(inbox', i, <<"connected", dispatcher'[c].id, 0>>)
    BY DEF ToldIsTrue, Up, Down
  <2>2. i \in 1..Len(inbox) /\ inbox[i] = <<"connected", dispatcher'[c].id, n>>
    <3>1. inbox'[i][1] = "connected" /\ inbox'[i][3] # 0
      BY <2>1
    <3>2. inbox'[i] \notin T
      BY <1>2, <1>5, <1>6, <3>1
    <3>3. QED
      BY <1>7, <2>1, <3>2
  <2>3. dispatcher'[c].id # 0
    BY <2>2 DEF Core, QueueNumbered, OfSome
  <2>4. dispatcher'[c] = dispatcher[c] /\ (c # a \/ K = conns)
    BY <1>4, <2>3 DEF Unbound
  <2>5. \/ <<dispatcher[c].id, n>> \in conns
        \/ After(inbox, i, <<"connected", dispatcher[c].id, 0>>)
    BY <2>2, <2>4 DEF Core, ToldIsTrue, Up, Down
  <2>6. QED
    BY <1>3, <1>7, <1>8, <2>2, <2>4, <2>5
<1>15. BoundHeard' /\ BoundRegisters'
  BY <1>4 DEF Core, BoundHeard, BoundRegisters
<1>16. ZeroFirst' /\ Pending' /\ NoClients'
  BY DEF ZeroFirst, Pending, NoClients
<1>17. QED
  BY <1>10, <1>11, <1>12, <1>13, <1>14, <1>15, <1>16 DEF Core

\* What the message at the head is.
LEMMA HeadIs ==
  ASSUME Bounds, TypeOK, Core, inbox # <<>>
  PROVE  /\ inbox \in Seq(Messages) /\ Head(inbox) = inbox[1] /\ 1 \in 1..Len(inbox)
         /\ Tail(inbox) \in Seq(Messages) /\ Moved(inbox, 1, {}, Tail(inbox))
         /\ OfSome(inbox[1])
         /\ inbox[1][1] \in {"bind", "connected", "register", "unregister"}
         /\ inbox[1][1] = "bind" =>
              inbox[1] = <<"bind", inbox[1][2]>> /\ inbox[1][2] \in Objects \ {0}
         /\ inbox[1][1] # "bind" =>
              /\ inbox[1] = <<inbox[1][1], inbox[1][2], inbox[1][3]>>
              /\ inbox[1][1] = "connected" => inbox[1][2] \in Numbers /\ inbox[1][3] \in Objects
<1>1. inbox \in Seq(Messages)
  BY DEF TypeOK, Messages
<1>2. /\ Head(inbox) = inbox[1] /\ 1 \in 1..Len(inbox) /\ inbox[1] \in Messages
      /\ Tail(inbox) \in Seq(Messages) /\ Moved(inbox, 1, {}, Tail(inbox))
  BY <1>1, Taken
<1>3. OfSome(inbox[1])
  BY <1>2 DEF Core, QueueNumbered
<1>4. \/ \E n \in Objects : inbox[1] = <<"bind", n>>
      \/ \E d \in Numbers, n \in Objects : inbox[1] = <<"connected", d, n>>
      \/ \E n \in Objects, m \in Numbers :
           inbox[1] = <<"register", n, m>> \/ inbox[1] = <<"unregister", n, m>>
  BY <1>2 DEF Messages
<1>5. QED
  BY <1>1, <1>2, <1>3, <1>4 DEF OfSome

\* A zero is one.
LEMMA ZeroIsZero ==
  ASSUME NEW q, NEW k, NEW d, NoZero(q, k), Len(q) \in Nat, k \in Nat
  PROVE  ~After(q, k, <<"connected", d, 0>>)
BY DEF NoZero, After, Between, IsZero

\* A message is taken that tells nothing new.
LEMMA TakenKeeps ==
  ASSUME Bounds, TypeOK, TypeOK', Core, inbox # <<>>, inbox' = Tail(inbox),
         inbox[1][1] # "bind",
         \A a \in Activities : inbox[1] = Down(a) => dispatcher[a].has = 0,
         \A a \in Activities : inbox[1] = Up(a, record) => dispatcher[a].has = record,
         UNCHANGED <<opened, delayed, service, messenger, isBound, dispatcher, conns, record,
                     objects>>
  PROVE  /\ Numbered' /\ QueueNumbered' /\ ConnsLive' /\ HeardIsTold' /\ ToldIsTrue'
         /\ BoundHeard' /\ ZeroFirst' /\ Pending'
<1>1. /\ inbox' \in Seq(Messages) /\ inbox \in Seq(Messages)
      /\ Moved(inbox, 1, {}, inbox')
  BY HeadIs
<1>0. Shifted(inbox, {}, inbox')
  BY <1>1, Ahead
<1>2. /\ Len(inbox) \in Nat /\ Len(inbox) > 0
      /\ \A i \in 1..Len(inbox') :
           i \in 1..(Len(inbox) - 1) /\ i + 1 \in 1..Len(inbox) /\ inbox'[i] = inbox[i + 1]
      /\ \A k \in 0..(Len(inbox) - 1) : \A m : After(inbox, k + 1, m) => After(inbox', k, m)
      /\ \A m : After(inbox, 0, m) => inbox[1] = m \/ After(inbox', 0, m)
      /\ \A k \in 0..(Len(inbox) - 1) : NoZero(inbox, k + 1) => NoZero(inbox', k)
      /\ NoZero(inbox, 0) => NoZero(inbox', 0)
  BY <1>1, <1>0 DEF Shifted
<1>3. Numbered'
  BY DEF Core, Numbered
<1>4. QueueNumbered'
  <2>1. \A m : OfSome(m) => OfSome(m)'
    BY DEF OfSome
  <2>2. QED
    BY <1>2, <2>1 DEF Core, QueueNumbered
<1>5. ConnsLive'
  BY DEF Core, ConnsLive
<1>6. HeardIsTold'
  <2>1. SUFFICES ASSUME NEW c \in Activities, dispatcher[c].has # 0
                 PROVE  \/ <<dispatcher[c].id, dispatcher[c].has>> \in conns
                        \/ After(inbox', 0, <<"connected", dispatcher[c].id, 0>>)
    BY DEF HeardIsTold, Up, Down
  <2>2. \/ <<dispatcher[c].id, dispatcher[c].has>> \in conns
        \/ After(inbox, 0, <<"connected", dispatcher[c].id, 0>>)
    BY <2>1 DEF Core, HeardIsTold, Up, Down
  <2>3. inbox[1] # <<"connected", dispatcher[c].id, 0>>
    BY <2>1 DEF Up, Down
  <2>4. QED
    BY <1>2, <2>2, <2>3
<1>7. ToldIsTrue'
  <2>1. SUFFICES ASSUME NEW c \in Activities, NEW i \in 1..Len(inbox'), NEW n \in Objects \ {0},
                        inbox'[i] = <<"connected", dispatcher[c].id, n>>
                 PROVE  \/ <<dispatcher[c].id, n>> \in conns
                        \/ After(inbox', i, <<"connected", dispatcher[c].id, 0>>)
    BY DEF ToldIsTrue, Up, Down
  <2>2. /\ i \in 1..(Len(inbox) - 1) /\ i + 1 \in 1..Len(inbox)
        /\ inbox[i + 1] = <<"connected", dispatcher[c].id, n>>
    BY <1>2, <2>1
  <2>3. \/ <<dispatcher[c].id, n>> \in conns
        \/ After(inbox, i + 1, <<"connected", dispatcher[c].id, 0>>)
    BY <2>2 DEF Core, ToldIsTrue, Up, Down
  <2>4. QED
    BY <1>2, <2>2, <2>3
<1>8. BoundHeard'
  BY DEF Core, BoundHeard
<1>9. ZeroFirst'
  <2>1. ASSUME NEW i \in 1..Len(inbox'), record # 0, inbox'[i][1] = "connected",
               inbox'[i][3] = record
        PROVE  NoZero(inbox', i)
    <3>1. NoZero(inbox, i + 1)
      BY <1>2, <2>1 DEF Core, ZeroFirst
    <3>2. QED
      BY <1>2, <3>1
  <2>2. record # 0 /\ (\E a \in Activities : dispatcher[a].has = record) => NoZero(inbox', 0)
    BY <1>2 DEF Core, ZeroFirst
  <2>3. QED
    BY <2>1, <2>2 DEF ZeroFirst
<1>10. Pending'
  <2>1. SUFFICES ASSUME NEW c \in Activities, record # 0,
                        <<dispatcher[c].id, record>> \in conns, dispatcher[c].has # record
                 PROVE  \/ After(inbox', 0, <<"bind", record>>)
                        \/ After(inbox', 0, <<"connected", dispatcher[c].id, record>>)
    BY DEF Pending, Up
  <2>2. \/ After(inbox, 0, <<"bind", record>>)
        \/ After(inbox, 0, <<"connected", dispatcher[c].id, record>>)
    BY <2>1 DEF Core, Pending, Up
  <2>3. inbox[1] # <<"bind", record>> /\ inbox[1] # <<"connected", dispatcher[c].id, record>>
    BY <2>1 DEF Up
  <2>4. QED
    BY <1>2, <2>2, <2>3
<1>11. QED
  BY <1>3, <1>4, <1>5, <1>6, <1>7, <1>8, <1>9, <1>10

\* The registration of the static messenger stays, or stays on its way, when
\* another message is taken.
LEMMA RegistersKeeps ==
  ASSUME BoundRegisters, NEW T, Shifted(inbox, T, inbox'),
         \A m \in T : m[1] # "unregister",
         messenger \in Range(clients) /\ inbox[1] # Unregister(messenger)
           => messenger \in Range(clients'),
         inbox[1] = Register(messenger) /\ service = record => messenger \in Range(clients'),
         UNCHANGED <<service, isBound, messenger, record>>
  PROVE  BoundRegisters'
<1> DEFINE U == <<"unregister", record, messenger>>
           R == <<"register", record, messenger>>
<1>1. SUFFICES ASSUME isBound, service = record
               PROVE  \/ messenger \in Range(clients') /\ ~After(inbox', 0, U)
                      \/ \E i \in 1..Len(inbox') : inbox'[i] = R /\ ~After(inbox', i, U)
  BY DEF BoundRegisters, Register, Unregister
<1>2. \/ messenger \in Range(clients) /\ ~After(inbox, 0, U)
      \/ \E i \in 1..Len(inbox) : inbox[i] = R /\ ~After(inbox, i, U)
  BY <1>1 DEF BoundRegisters, Register, Unregister
<1>3. U \notin T
  OBVIOUS
<1>4. /\ messenger \in Range(clients) /\ inbox[1] # U => messenger \in Range(clients')
      /\ inbox[1] = R => messenger \in Range(clients')
  BY <1>1 DEF Register, Unregister
<1> HIDE DEF U, R
<1>5. CASE messenger \in Range(clients) /\ ~After(inbox, 0, U)
  <2>1. inbox[1] # U
    BY <1>5 DEF Shifted
  <2>2. ~After(inbox', 0, U)
    BY <1>3, <1>5 DEF Shifted
  <2>3. QED
    BY <1>4, <1>5, <2>1, <2>2
<1>6. ASSUME NEW i \in 1..Len(inbox), inbox[i] = R, ~After(inbox, i, U)
      PROVE  \/ messenger \in Range(clients') /\ ~After(inbox', 0, U)
             \/ \E j \in 1..Len(inbox') : inbox'[j] = R /\ ~After(inbox', j, U)
  <2>1. CASE i = 1
    BY <1>3, <1>4, <1>6, <2>1 DEF Shifted
  <2>2. CASE i # 1
    <3>1. Len(inbox) \in Nat
      BY DEF Shifted
    <3>2. i - 1 \in 1..(Len(inbox) - 1) /\ i - 1 + 1 = i /\ i - 1 \in 0..(Len(inbox) - 1)
      BY <2>2, <3>1
    <3>3. i - 1 \in 1..Len(inbox') /\ inbox'[i - 1] = inbox[i] /\ ~After(inbox', i - 1, U)
      BY <1>3, <1>6, <3>2 DEF Shifted
    <3>4. QED
      BY <1>6, <3>3
  <2>3. QED
    BY <2>1, <2>2
<1>7. QED
  BY <1>2, <1>5, <1>6

LEMMA NotHeardKeeps ==
  ASSUME Bounds, TypeOK, TypeOK', Core, NotHeard
  PROVE  Core'
<1>1. /\ inbox # <<>> /\ inbox' = Tail(inbox) /\ inbox[1][1] = "connected" /\ Listeners = {}
      /\ Head(inbox) = inbox[1]
      /\ inbox \in Seq(Messages) /\ inbox' \in Seq(Messages) /\ Moved(inbox, 1, {}, inbox')
  BY HeadIs DEF NotHeard, Handles
<1>2. UNCHANGED <<opened, delayed, service, messenger, isBound, dispatcher, conns, record,
                  objects, clients>>
  BY DEF NotHeard, screens, statics, bindings, services
<1>3. \A a \in Activities : \A n : inbox[1] = <<"connected", dispatcher[a].id, n>> =>
        dispatcher[a].has = n
  BY <1>1 DEF Listeners
<1>4. /\ Numbered' /\ QueueNumbered' /\ ConnsLive' /\ HeardIsTold' /\ ToldIsTrue'
      /\ BoundHeard' /\ ZeroFirst' /\ Pending'
  <2>1. inbox[1][1] # "bind"
    BY <1>1
  <2>2. /\ \A a \in Activities : inbox[1] = Down(a) => dispatcher[a].has = 0
        /\ \A a \in Activities : inbox[1] = Up(a, record) => dispatcher[a].has = record
    BY <1>3 DEF Up, Down
  <2>3. QED
    BY <1>1, <1>2, <2>1, <2>2, TakenKeeps
<1>8. Shifted(inbox, {}, inbox')
  BY <1>1, Ahead
<1>5. BoundRegisters'
  <2>1. inbox[1] # Register(messenger)
    BY <1>1 DEF Register
  <2>2. QED
    BY <1>2, <1>8, <2>1, RegistersKeeps DEF Core
<1>6. NoClients'
  BY <1>2 DEF Core, NoClients
<1>7. QED
  BY <1>4, <1>5, <1>6 DEF Core

LEMMA RegisterKeeps ==
  ASSUME Bounds, TypeOK, TypeOK', Core, HandleRegister
  PROVE  Core'
<1>1. /\ inbox # <<>> /\ inbox' = Tail(inbox) /\ inbox[1][1] = "register"
      /\ Head(inbox) = inbox[1]
      /\ inbox \in Seq(Messages) /\ inbox' \in Seq(Messages) /\ Moved(inbox, 1, {}, inbox')
      /\ inbox[1][2] # 0
  BY HeadIs DEF HandleRegister, Handles, OfSome
<1>2. UNCHANGED <<opened, delayed, service, messenger, isBound, dispatcher, conns, record,
                  objects>>
  BY DEF HandleRegister, screens, statics, bindings
<1>3. clients' = IF inbox[1][2] = record THEN Append(clients, inbox[1][3]) ELSE clients
  BY <1>1 DEF HandleRegister, Registered
<1>4. clients \in Seq(Numbers)
  BY DEF TypeOK
<1>5. /\ Range(clients) \subseteq Range(clients')
      /\ inbox[1][2] = record => inbox[1][3] \in Range(clients')
  <2>1. CASE inbox[1][2] # record
    BY <1>3, <2>1
  <2>2. CASE inbox[1][2] = record
    <3>1. clients' = Append(clients, inbox[1][3]) /\ clients' \in Seq(Numbers)
      BY <1>3, <2>2 DEF TypeOK
    <3>2. /\ Len(clients') = Len(clients) + 1 /\ Len(clients) \in Nat
          /\ \A i \in 1..Len(clients) : clients'[i] = clients[i]
          /\ clients'[Len(clients) + 1] = inbox[1][3]
      BY <1>4, <3>1
    <3>3. Range(clients) = {clients[i] : i \in 1..Len(clients)}
      BY <1>4, RangeEquality
    <3>4. Range(clients') = {clients'[i] : i \in 1..Len(clients')}
      <4>1. clients' \in Seq(Numbers)
        BY <3>1
      <4>2. QED
        BY ONLY <4>1, RangeEquality
    <3>5. QED
      BY <3>2, <3>3, <3>4
  <2>3. QED
    BY <2>1, <2>2
<1>6. Shifted(inbox, {}, inbox')
  BY <1>1, Ahead
<1>7. /\ Numbered' /\ QueueNumbered' /\ ConnsLive' /\ HeardIsTold' /\ ToldIsTrue'
      /\ BoundHeard' /\ ZeroFirst' /\ Pending'
  <2>1. inbox[1][1] # "bind"
    BY <1>1
  <2>2. /\ \A a \in Activities : inbox[1] = Down(a) => dispatcher[a].has = 0
        /\ \A a \in Activities : inbox[1] = Up(a, record) => dispatcher[a].has = record
    BY <1>1 DEF Up, Down
  <2>3. QED
    BY <1>1, <1>2, <2>1, <2>2, TakenKeeps
<1>8. BoundRegisters'
  <2>1. inbox[1] = Register(messenger) => inbox[1][2] = record /\ inbox[1][3] = messenger
    BY DEF Register
  <2>2. QED
    BY <1>2, <1>5, <1>6, <2>1, RegistersKeeps DEF Core
<1>9. NoClients'
  BY <1>1, <1>2, <1>3 DEF Core, NoClients
<1>10. QED
  BY <1>7, <1>8, <1>9 DEF Core

LEMMA UnregisterKeeps ==
  ASSUME Bounds, TypeOK, TypeOK', Core, HandleUnregister
  PROVE  Core'
<1>1. /\ inbox # <<>> /\ inbox' = Tail(inbox) /\ inbox[1][1] = "unregister"
      /\ Head(inbox) = inbox[1] /\ inbox[1] = <<"unregister", inbox[1][2], inbox[1][3]>>
      /\ inbox \in Seq(Messages) /\ inbox' \in Seq(Messages) /\ Moved(inbox, 1, {}, inbox')
      /\ inbox[1][2] # 0
  BY HeadIs DEF HandleUnregister, Handles, OfSome
<1>2. UNCHANGED <<opened, delayed, service, messenger, isBound, dispatcher, conns, record,
                  objects>>
  BY DEF HandleUnregister, screens, statics, bindings
<1>3. clients' = IF inbox[1][2] = record THEN RemoveFirst(clients, inbox[1][3]) ELSE clients
  BY <1>1 DEF HandleUnregister, Unregistered
<1>4. clients \in Seq(Numbers)
  BY DEF TypeOK
<1>5. /\ Range(clients) \ {inbox[1][3]} \subseteq Range(clients')
      /\ inbox[1][2] # record => clients' = clients
  BY <1>3, <1>4, UnregisteredIs
<1>6. Shifted(inbox, {}, inbox')
  BY <1>1, Ahead
<1>7. /\ Numbered' /\ QueueNumbered' /\ ConnsLive' /\ HeardIsTold' /\ ToldIsTrue'
      /\ BoundHeard' /\ ZeroFirst' /\ Pending'
  <2>1. inbox[1][1] # "bind"
    BY <1>1
  <2>2. /\ \A a \in Activities : inbox[1] = Down(a) => dispatcher[a].has = 0
        /\ \A a \in Activities : inbox[1] = Up(a, record) => dispatcher[a].has = record
    BY <1>1 DEF Up, Down
  <2>3. QED
    BY <1>1, <1>2, <2>1, <2>2, TakenKeeps
<1>8. BoundRegisters'
  <2>1. inbox[1] # Unregister(messenger) =>
          inbox[1][2] # record \/ inbox[1][3] # messenger
    BY <1>1 DEF Unregister
  <2>2. inbox[1] # Register(messenger)
    BY <1>1 DEF Register
  <2>3. messenger \in Range(clients) /\ inbox[1] # Unregister(messenger)
          => messenger \in Range(clients')
    BY <1>5, <2>1
  <2>4. QED
    BY <1>2, <1>6, <2>2, <2>3, RegistersKeeps DEF Core
<1>9. NoClients'
  BY <1>1, <1>2, <1>3 DEF Core, NoClients
<1>10. QED
  BY <1>7, <1>8, <1>9 DEF Core

\* The bind is answered to every connection of the service.
LEMMA HandleBindPosted ==
  ASSUME Bounds, TypeOK, TypeOK', Core, HandleBind
  PROVE  LET n == inbox[1][2]
             S == {c \in conns : c[2] = n}
         IN Moved(inbox, 1, {<<"connected", c[1], n>> : c \in S}, inbox')
<1> DEFINE n == inbox[1][2]
           S == {c \in conns : c[2] = n}
           T == {<<"connected", c[1], n>> : c \in S}
<1>0. /\ inbox # <<>> /\ Head(inbox) = inbox[1] /\ n \in Objects
      /\ inbox \in Seq(Messages) /\ inbox' \in Seq(Messages)
      /\ Tail(inbox) \in Seq(Messages) /\ Moved(inbox, 1, {}, Tail(inbox))
  <2>1. inbox' \in Seq(Messages)
    BY DEF TypeOK, Messages
  <2>2. QED
    BY <2>1, HeadIs DEF HandleBind, Handles
<1>1. PICK told \in Tell(S, n) : inbox' = Tail(inbox) \o told
  BY <1>0 DEF HandleBind
<1>2. S \in SUBSET (Numbers \X Objects) /\ n \in Objects
  BY <1>0 DEF TypeOK
<1> HIDE DEF n, S
<1>3. /\ told \in Seq(Messages)
      /\ \A j \in 1..Len(told) : \E c \in S : told[j] = <<"connected", c[1], n>>
      /\ \A c \in S : \E j \in 1..Len(told) : told[j] = <<"connected", c[1], n>>
  BY <1>1, <1>2, TellIs
<1>4. /\ \A j \in 1..Len(told) : told[j] \in T
      /\ \A m \in T : \E j \in 1..Len(told) : told[j] = m
  BY <1>3
<1> HIDE DEF T
<1>5. Moved(Tail(inbox), 0, T, inbox')
  BY <1>0, <1>1, <1>3, <1>4, Posted
<1>6. Moved(inbox, 1, {} \cup T, inbox')
  BY <1>0, <1>5, Then
<1>7. {} \cup T = T
  OBVIOUS
<1>8. QED
  BY <1>6, <1>7 DEF T, S, n

\* onBind, and what all connections are told.
LEMMA HandleBindKeeps ==
  ASSUME Bounds, TypeOK, TypeOK', Core, HandleBind
  PROVE  Core'
<1> DEFINE n == inbox[1][2]
           S == {c \in conns : c[2] = n}
           T == {<<"connected", c[1], n>> : c \in S}
<1>1. /\ inbox # <<>> /\ inbox[1] = <<"bind", n>> /\ inbox[1][1] = "bind"
      /\ Head(inbox) = inbox[1] /\ n \in Objects \ {0} /\ n \in 1..objects
      /\ inbox \in Seq(Messages) /\ inbox' \in Seq(Messages)
      /\ Tail(inbox) \in Seq(Messages) /\ Moved(inbox, 1, {}, Tail(inbox))
  <2>1. inbox' \in Seq(Messages)
    BY DEF TypeOK, Messages
  <2>2. QED
    BY <2>1, HeadIs DEF HandleBind, Handles, OfSome
<1>2. UNCHANGED <<opened, delayed, service, messenger, isBound, dispatcher, conns, record,
                  objects, clients>>
  BY DEF HandleBind, screens, statics, bindings, services
<1>3. /\ opened \in Nat /\ messenger \in Nat /\ service \in Nat /\ objects \in Nat
      /\ conns \subseteq Numbers \X Objects
      /\ dispatcher \in [Activities -> [id : Numbers, has : Objects]]
  <2>1. opened \in Nat /\ messenger \in Nat /\ service \in Nat /\ objects \in Nat
    BY ONLY Bounds, TypeOK DEF Bounds, TypeOK, Objects, Numbers
  <2>2. /\ conns \subseteq Numbers \X Objects
        /\ dispatcher \in [Activities -> [id : Numbers, has : Objects]]
    BY ONLY TypeOK DEF TypeOK
  <2>3. QED
    BY ONLY <2>1, <2>2
<1>4. \A c \in conns : c = <<c[1], c[2]>> /\ c[1] \in 1..messenger
  <2>1. \A c \in conns : c = <<c[1], c[2]>>
    BY <1>3
  <2>2. QED
    BY <1>3, <2>1 DEF Core, ConnsLive, Numbered, Numbers
<1>5. Moved(inbox, 1, T, inbox')
  BY HandleBindPosted
<1>6. \A m \in T : m[1] = "connected" /\ m[2] \in 1..messenger /\ m[3] = n /\ m # Unregister(messenger)
  BY <1>4 DEF Unregister
<1>7. \A a \in Activities : <<dispatcher[a].id, n>> \in conns => Up(a, n) \in T
  BY DEF Up
<1>8. \A m \in T : \A a \in Activities : \A k :
        m = <<"connected", dispatcher[a].id, k>> => k = n /\ <<dispatcher[a].id, n>> \in conns
  BY <1>4
<1> HIDE DEF S, T
<1>9. Shifted(inbox, T, inbox')
  BY <1>1, <1>5, Ahead
<1>10. /\ \A m \in T : ~IsZero(m)
       /\ \A m : After(inbox, 0, m) /\ inbox[1] # m => After(inbox', 0, m)
  BY <1>1, <1>6, <1>9 DEF Shifted, IsZero
<1>11. Numbered' /\ ConnsLive' /\ BoundHeard' /\ NoClients'
  BY <1>2 DEF Core, Numbered, ConnsLive, BoundHeard, NoClients
<1>12. QueueNumbered'
  <2>1. \A m \in T : OfSome(m)'
    BY <1>1, <1>2, <1>3, <1>6 DEF OfSome
  <2>2. \A m : OfSome(m) => OfSome(m)'
    BY <1>2 DEF OfSome
  <2>3. QED
    BY <1>9, <2>1, <2>2 DEF Core, QueueNumbered, Shifted
<1>13. HeardIsTold'
  <2>1. SUFFICES ASSUME NEW c \in Activities, dispatcher[c].has # 0
                 PROVE  \/ <<dispatcher[c].id, dispatcher[c].has>> \in conns
                        \/ After(inbox', 0, <<"connected", dispatcher[c].id, 0>>)
    BY <1>2 DEF HeardIsTold, Up, Down
  <2>2. \/ <<dispatcher[c].id, dispatcher[c].has>> \in conns
        \/ After(inbox, 0, <<"connected", dispatcher[c].id, 0>>)
    BY <2>1 DEF Core, HeardIsTold, Up, Down
  <2>3. inbox[1] # <<"connected", dispatcher[c].id, 0>>
    BY <1>1
  <2>4. QED
    BY <1>10, <2>2, <2>3
<1>14. ToldIsTrue'
  <2>1. SUFFICES ASSUME NEW c \in Activities, NEW i \in 1..Len(inbox'), NEW k \in Objects \ {0},
                        inbox'[i] = <<"connected", dispatcher[c].id, k>>
                 PROVE  \/ <<dispatcher[c].id, k>> \in conns
                        \/ After(inbox', i, <<"connected", dispatcher[c].id, 0>>)
    BY <1>2 DEF ToldIsTrue, Up, Down
  <2>2. CASE inbox'[i] \in T
    <3>1. k = n /\ <<dispatcher[c].id, n>> \in conns
      BY ONLY <1>8, <2>1, <2>2
    <3>2. QED
      BY <3>1
  <2>3. CASE /\ i \in 1..(Len(inbox) - 1) /\ i + 1 \in 1..Len(inbox)
             /\ inbox'[i] = inbox[i + 1]
    <3>1. \/ <<dispatcher[c].id, k>> \in conns
          \/ After(inbox, i + 1, <<"connected", dispatcher[c].id, 0>>)
      BY <2>1, <2>3 DEF Core, ToldIsTrue, Up, Down
    <3>2. i \in 0..(Len(inbox) - 1)
      BY <2>3, <1>9 DEF Shifted
    <3>3. QED
      BY <1>9, <3>1, <3>2 DEF Shifted
  <2>4. QED
    BY <1>9, <2>2, <2>3 DEF Shifted
<1>15. BoundRegisters'
  <2>1. \A m \in T : m[1] # "unregister"
    BY <1>6
  <2>2. inbox[1] # Register(messenger)
    BY <1>1 DEF Register
  <2>3. QED
    BY <1>2, <1>9, <2>1, <2>2, RegistersKeeps DEF Core
<1>16. ZeroFirst'
  <2>1. ASSUME NEW i \in 1..Len(inbox'), record # 0, inbox'[i][1] = "connected",
               inbox'[i][3] = record
        PROVE  NoZero(inbox', i)
    <3>1. CASE i \in Len(inbox)..Len(inbox')
      BY <1>9, <1>10, <3>1 DEF Shifted
    <3>2. CASE /\ i \in 1..(Len(inbox) - 1) /\ i + 1 \in 1..Len(inbox)
               /\ inbox'[i] = inbox[i + 1]
      <4>1. NoZero(inbox, i + 1)
        BY <2>1, <3>2 DEF Core, ZeroFirst
      <4>2. i \in 0..(Len(inbox) - 1)
        BY <3>2, <1>9 DEF Shifted
      <4>3. QED
        BY <1>9, <1>10, <4>1, <4>2 DEF Shifted
    <3>3. QED
      BY <1>9, <3>1, <3>2 DEF Shifted
  <2>2. record # 0 /\ (\E a \in Activities : dispatcher[a].has = record) => NoZero(inbox', 0)
    BY <1>9, <1>10 DEF Core, ZeroFirst, Shifted
  <2>3. QED
    BY <1>2, <2>1, <2>2 DEF ZeroFirst
<1>17. Pending'
  <2>1. SUFFICES ASSUME NEW c \in Activities, record # 0,
                        <<dispatcher[c].id, record>> \in conns, dispatcher[c].has # record
                 PROVE  \/ After(inbox', 0, <<"bind", record>>)
                        \/ After(inbox', 0, Up(c, record))
    BY <1>2 DEF Pending, Up
  <2>2. After(inbox, 0, <<"bind", record>>) \/ After(inbox, 0, Up(c, record))
    BY <2>1 DEF Core, Pending
  <2>3. CASE n = record
    BY <1>7, <1>9, <2>1, <2>3 DEF Shifted
  <2>4. CASE n # record
    <3>1. inbox[1] # <<"bind", record>> /\ inbox[1] # Up(c, record)
      BY <1>1, <2>4 DEF Up
    <3>2. QED
      BY <1>10, <2>2, <3>1
  <2>5. QED
    BY <2>3, <2>4
<1>18. QED
  BY <1>11, <1>12, <1>13, <1>14, <1>15, <1>16, <1>17 DEF Core

\* What onServiceConnected and onServiceDisconnected have in common.
LEMMA ListenerIs ==
  ASSUME Bounds, TypeOK, Core, Handles("connected"), NEW a \in Listeners
  PROVE  /\ inbox # <<>> /\ Head(inbox) = inbox[1] /\ inbox \in Seq(Messages)
         /\ inbox[1] = Up(a, inbox[1][3]) /\ inbox[1][3] \in Objects
         /\ inbox[1][3] \in 0..objects /\ a \in Activities
         /\ dispatcher[a].id # 0 /\ dispatcher[a].has # inbox[1][3]
         /\ Tail(inbox) \in Seq(Messages) /\ Moved(inbox, 1, {}, Tail(inbox))
         /\ \A c \in Activities : c # a => dispatcher[c].id # dispatcher[a].id
         /\ inbox[1][3] # 0 =>
              <<dispatcher[a].id, inbox[1][3]>> \in conns \/ After(inbox, 1, Down(a))
<1>1. /\ inbox # <<>> /\ inbox[1][1] = "connected"
      /\ inbox \in Seq(Messages) /\ Head(inbox) = inbox[1] /\ 1 \in 1..Len(inbox)
      /\ Tail(inbox) \in Seq(Messages) /\ Moved(inbox, 1, {}, Tail(inbox))
      /\ inbox[1] = <<"connected", inbox[1][2], inbox[1][3]>>
      /\ inbox[1][3] \in Objects /\ inbox[1][2] \in 1..messenger /\ inbox[1][3] \in 0..objects
  BY HeadIs DEF Handles, OfSome
<1>2. /\ a \in Activities /\ dispatcher[a].id = inbox[1][2] /\ dispatcher[a].has # inbox[1][3]
  BY <1>1 DEF Listeners
<1>3. dispatcher[a].id # 0
  BY <1>1, <1>2
<1>4. \A c \in Activities : c # a => dispatcher[c].id # dispatcher[a].id
  BY <1>2, <1>3 DEF Core, Numbered
<1>5. inbox[1] = Up(a, inbox[1][3])
  BY <1>1, <1>2 DEF Up
<1>6. inbox[1][3] # 0 =>
        <<dispatcher[a].id, inbox[1][3]>> \in conns \/ After(inbox, 1, Down(a))
  BY <1>1, <1>2, <1>5 DEF Core, ToldIsTrue
<1>7. QED
  BY <1>1, <1>2, <1>3, <1>4, <1>5, <1>6

\* The messenger is sent to the service.
LEMMA ConnectedPosted ==
  ASSUME Bounds, TypeOK, TypeOK', Core, OnServiceConnected
  PROVE  /\ Moved(inbox, 1, {<<"register", inbox[1][3], messenger>>}, inbox')
         /\ Len(inbox') = Len(inbox)
<1> DEFINE m == <<"register", inbox[1][3], messenger>>
<1>1. /\ inbox # <<>> /\ Head(inbox) = inbox[1] /\ inbox[1][3] \in Objects
      /\ inbox \in Seq(Messages) /\ Tail(inbox) \in Seq(Messages)
      /\ Moved(inbox, 1, {}, Tail(inbox))
  BY HeadIs DEF OnServiceConnected, Handles
<1>2. inbox' = Append(Tail(inbox), m)
  BY <1>1 DEF OnServiceConnected
<1>3. m \in Messages
  BY <1>1 DEF TypeOK, Messages
<1> HIDE DEF m
<1>4. /\ <<m>> \in Seq(Messages) /\ \A j \in 1..Len(<<m>>) : <<m>>[j] \in {m}
      /\ \A x \in {m} : \E j \in 1..Len(<<m>>) : <<m>>[j] = x
  BY <1>3
<1>5. inbox' = Tail(inbox) \o <<m>>
  BY <1>1, <1>2, <1>3
<1>6. inbox' \in Seq(Messages) /\ Moved(Tail(inbox), 0, {m}, inbox')
  <2> DEFINE s == <<m>>
             T == {m}
  <2>1. /\ s \in Seq(Messages) /\ \A j \in 1..Len(s) : s[j] \in T
        /\ \A x \in T : \E j \in 1..Len(s) : s[j] = x
    BY <1>4
  <2>2. inbox' = Tail(inbox) \o s
    BY <1>5
  <2> HIDE DEF s, T
  <2>3. inbox' \in Seq(Messages) /\ Moved(Tail(inbox), 0, T, inbox')
    BY <1>1, <2>1, <2>2, Posted
  <2>4. QED
    BY <2>3 DEF T
<1>7. Moved(inbox, 1, {} \cup {m}, inbox')
  BY <1>1, <1>6, Then
<1>8. {} \cup {m} = {m}
  OBVIOUS
<1>9. Len(inbox') = Len(inbox)
  <2>1. Len(Tail(inbox)) = Len(inbox) - 1 /\ Len(inbox) \in Nat
    BY <1>1, RestOfSequence, LenProperties
  <2>2. Len(inbox') = Len(Tail(inbox)) + 1
    BY <1>1, <1>2, <1>3, AppendProperties
  <2>3. QED
    BY <2>1, <2>2
<1>10. QED
  BY <1>7, <1>8, <1>9 DEF m

LEMMA ConnectedKeeps ==
  ASSUME Bounds, TypeOK, TypeOK', Core, OnServiceConnected
  PROVE  Core'
<1> DEFINE n == inbox[1][3]
           m == <<"register", n, messenger>>
<1>1. /\ Handles("connected") /\ inbox # <<>> /\ Head(inbox) = inbox[1]
      /\ inbox \in Seq(Messages) /\ inbox' \in Seq(Messages)
      /\ Tail(inbox) \in Seq(Messages) /\ Moved(inbox, 1, {}, Tail(inbox))
  <2>1. inbox' \in Seq(Messages)
    BY DEF TypeOK, Messages
  <2>2. QED
    BY <2>1, HeadIs DEF OnServiceConnected, Handles
<1>2. PICK a \in Listeners :
        /\ n # 0 /\ service' = n /\ isBound' = TRUE
        /\ dispatcher' = [dispatcher EXCEPT ![a].has = n]
        /\ inbox' = Append(Tail(inbox), m)
  BY <1>1 DEF OnServiceConnected
<1>3. UNCHANGED <<opened, delayed, messenger, conns, record, objects, clients>>
  BY DEF OnServiceConnected, screens, services
<1>4. /\ inbox[1] = Up(a, n) /\ n \in Objects /\ n \in 1..objects /\ a \in Activities
      /\ dispatcher[a].id # 0 /\ dispatcher[a].has # n
      /\ \A c \in Activities : c # a => dispatcher[c].id # dispatcher[a].id
      /\ <<dispatcher[a].id, n>> \in conns \/ After(inbox, 1, Down(a))
  <2>1. /\ inbox[1] = Up(a, n) /\ n \in Objects /\ n \in 0..objects /\ a \in Activities
        /\ dispatcher[a].id # 0 /\ dispatcher[a].has # n
        /\ \A c \in Activities : c # a => dispatcher[c].id # dispatcher[a].id
        /\ n # 0 => <<dispatcher[a].id, n>> \in conns \/ After(inbox, 1, Down(a))
    BY <1>1, ListenerIs
  <2>2. objects \in Nat
    BY DEF TypeOK, Objects, Bounds
  <2> HIDE DEF n
  <2>3. n \in 1..objects
    BY <1>2, <2>1, <2>2
  <2>4. QED
    BY <1>2, <2>1, <2>3
<1>5. /\ opened \in Nat /\ messenger \in Nat /\ objects \in Nat
      /\ dispatcher \in [Activities -> [id : Numbers, has : Objects]]
  BY DEF Bounds, TypeOK, Objects, Numbers
<1>6. /\ \A c \in Activities : dispatcher'[c].id = dispatcher[c].id
      /\ \A c \in Activities : c # a => dispatcher'[c].has = dispatcher[c].has
      /\ dispatcher'[a].has = n
  BY <1>2, <1>4, <1>5
<1>7. Moved(inbox, 1, {m}, inbox')
  BY ConnectedPosted
<1>8. /\ m[1] = "register" /\ m[2] = n /\ ~IsZero(m) /\ \A U : m # Unregister(U)
  BY DEF IsZero, Unregister
<1>9. /\ inbox[1][1] = "connected" /\ inbox[1][3] = n
      /\ \A c \in Activities, k \in Objects : inbox[1] = <<"connected", dispatcher[c].id, k>> =>
           c = a /\ k = n
  BY <1>4 DEF Up
<1> HIDE DEF n, m
<1>10. Shifted(inbox, {m}, inbox')
  BY <1>1, <1>7, Ahead
<1>11. \A x : After(inbox, 0, x) /\ inbox[1] # x => After(inbox', 0, x)
  BY <1>10 DEF Shifted
<1>12. Numbered'
  <2>1. ASSUME NEW c \in Activities
        PROVE  /\ dispatcher'[c].id <= messenger' /\ dispatcher'[c].has <= objects'
               /\ dispatcher'[c].id = 0 => dispatcher'[c].has = 0
               /\ c > opened' => dispatcher'[c].id = 0
    BY <1>3, <1>4, <1>5, <1>6 DEF Core, Numbered
  <2>2. ASSUME NEW c \in Activities, NEW e \in Activities,
               dispatcher'[c].id = dispatcher'[e].id, dispatcher'[c].id # 0
        PROVE  c = e
    BY <1>6, <2>2 DEF Core, Numbered
  <2>3. service' <= objects'
    BY <1>2, <1>3, <1>4, <1>5
  <2>4. QED
    BY <1>3, <2>1, <2>2, <2>3 DEF Core, Numbered
<1>13. QueueNumbered'
  <2>1. \A x \in {m} : OfSome(x)'
    BY <1>3, <1>4, <1>8 DEF OfSome
  <2>2. \A x : OfSome(x) => OfSome(x)'
    BY <1>3 DEF OfSome
  <2>3. QED
    BY <1>10, <2>1, <2>2 DEF Core, QueueNumbered, Shifted
<1>14. ConnsLive'
  BY <1>3, <1>6 DEF Core, ConnsLive
<1>15. HeardIsTold'
  <2>1. SUFFICES ASSUME NEW c \in Activities, dispatcher'[c].has # 0
                 PROVE  \/ <<dispatcher[c].id, dispatcher'[c].has>> \in conns
                        \/ After(inbox', 0, <<"connected", dispatcher[c].id, 0>>)
    BY <1>3, <1>6 DEF HeardIsTold, Up, Down
  <2>2. CASE c = a
    BY <1>4, <1>6, <1>10, <2>2 DEF Up, Down, Shifted
  <2>3. CASE c # a
    <3>1. \/ <<dispatcher[c].id, dispatcher[c].has>> \in conns
          \/ After(inbox, 0, <<"connected", dispatcher[c].id, 0>>)
      BY <1>6, <2>1, <2>3 DEF Core, HeardIsTold, Up, Down
    <3>2. 0 \in Objects
      BY DEF Objects, Bounds
    <3>3. QED
      BY <1>6, <1>9, <1>11, <2>3, <3>1, <3>2
  <2>4. QED
    BY <2>2, <2>3
<1>16. ToldIsTrue'
  <2>1. SUFFICES ASSUME NEW c \in Activities, NEW i \in 1..Len(inbox'), NEW k \in Objects \ {0},
                        inbox'[i] = <<"connected", dispatcher[c].id, k>>
                 PROVE  \/ <<dispatcher[c].id, k>> \in conns
                        \/ After(inbox', i, <<"connected", dispatcher[c].id, 0>>)
    BY <1>3, <1>6 DEF ToldIsTrue, Up, Down
  <2>2. inbox'[i] # m
    BY <1>8, <2>1
  <2>3. /\ i \in 1..(Len(inbox) - 1) /\ i + 1 \in 1..Len(inbox) /\ i \in 0..(Len(inbox) - 1)
        /\ inbox'[i] = inbox[i + 1]
    BY <1>10, <2>2 DEF Shifted
  <2>4. \/ <<dispatcher[c].id, k>> \in conns
        \/ After(inbox, i + 1, <<"connected", dispatcher[c].id, 0>>)
    BY <2>1, <2>3 DEF Core, ToldIsTrue, Up, Down
  <2>5. QED
    BY <1>10, <2>3, <2>4 DEF Shifted
<1>17. BoundHeard'
  BY <1>2, <1>4, <1>6 DEF BoundHeard
<1>18. BoundRegisters'
  <2>1. SUFFICES ASSUME n = record
                 PROVE  \E i \in 1..Len(inbox') :
                          /\ inbox'[i] = m
                          /\ ~After(inbox', i, <<"unregister", record, messenger>>)
    BY <1>2, <1>3 DEF BoundRegisters, Register, Unregister, m
  <2>2. PICK i \in Len(inbox)..Len(inbox') : inbox'[i] = m
    <3>1. Len(inbox) \in Nat
      BY <1>10 DEF Shifted
    <3>2. Len(inbox) - 1 + 1 = Len(inbox)
      BY <3>1
    <3>3. QED
      BY <1>7, <3>2 DEF Moved
  <2>3. ~After(inbox', i, <<"unregister", record, messenger>>)
    BY <1>8, <1>10, <2>2 DEF Shifted, Unregister
  <2>4. i \in 1..Len(inbox')
    BY <1>10, <2>2 DEF Shifted
  <2>5. QED
    BY <2>2, <2>3, <2>4
<1>19. ZeroFirst'
  <2>1. ASSUME NEW i \in 1..Len(inbox'), record # 0, inbox'[i][1] = "connected",
               inbox'[i][3] = record
        PROVE  NoZero(inbox', i)
    <3>1. inbox'[i] # m
      BY <1>8, <2>1
    <3>2. /\ i + 1 \in 1..Len(inbox) /\ i \in 0..(Len(inbox) - 1)
          /\ inbox'[i] = inbox[i + 1]
      BY <1>10, <3>1 DEF Shifted
    <3>3. NoZero(inbox, i + 1)
      BY <2>1, <3>2 DEF Core, ZeroFirst
    <3>4. QED
      BY <1>8, <1>10, <3>2, <3>3 DEF Shifted
  <2>2. ASSUME NEW c \in Activities, record # 0, dispatcher'[c].has = record
        PROVE  NoZero(inbox', 0)
    <3>1. CASE c = a
      <4>1. n = record /\ 1 \in 1..Len(inbox)
        BY <1>6, <1>10, <2>2, <3>1 DEF Shifted
      <4>2. NoZero(inbox, 1)
        BY <1>9, <2>2, <4>1 DEF Core, ZeroFirst
      <4>3. QED
        BY <1>8, <1>10, <4>2 DEF Shifted
    <3>2. CASE c # a
      <4>1. NoZero(inbox, 0)
        BY <1>6, <2>2, <3>2 DEF Core, ZeroFirst
      <4>2. QED
        BY <1>8, <1>10, <4>1 DEF Shifted
    <3>3. QED
      BY <3>1, <3>2
  <2>3. QED
    BY <1>3, <2>1, <2>2 DEF ZeroFirst
<1>20. Pending'
  <2>1. SUFFICES ASSUME NEW c \in Activities, record # 0,
                        <<dispatcher[c].id, record>> \in conns, dispatcher'[c].has # record
                 PROVE  \/ After(inbox', 0, <<"bind", record>>)
                        \/ After(inbox', 0, Up(c, record))
    BY <1>3, <1>6 DEF Pending, Up
  <2>2. CASE dispatcher[c].has = record
    <3>1. c = a /\ n # record
      BY <1>6, <2>1, <2>2
    <3>2. <<dispatcher[a].id, n>> \notin conns
      BY <3>1 DEF Core, ConnsLive
    <3>3. After(inbox, 0, <<"connected", dispatcher[a].id, 0>>)
      BY <1>4, <1>10, <3>2 DEF Shifted, Up, Down
    <3>4. NoZero(inbox, 0) /\ Len(inbox) \in Nat
      BY <1>10, <2>1, <2>2 DEF Core, ZeroFirst, Shifted
    <3>5. QED
      BY <3>3, <3>4, ZeroIsZero
  <2>3. CASE dispatcher[c].has # record
    <3>1. After(inbox, 0, <<"bind", record>>) \/ After(inbox, 0, Up(c, record))
      BY <2>1, <2>3 DEF Core, Pending
    <3>2. inbox[1] # <<"bind", record>>
      BY <1>9
    <3>3. record \in Objects
      BY DEF TypeOK, Objects, Bounds
    <3>4. inbox[1] # Up(c, record)
      BY <1>6, <1>9, <2>1, <3>3 DEF Up
    <3>5. QED
      BY <1>11, <3>1, <3>2, <3>4
  <2>4. QED
    BY <2>2, <2>3
<1>21. NoClients'
  BY <1>3 DEF Core, NoClients
<1>22. QED
  BY <1>12, <1>13, <1>14, <1>15, <1>16, <1>17, <1>18, <1>19, <1>20, <1>21 DEF Core

LEMMA DisconnectedKeeps ==
  ASSUME Bounds, TypeOK, TypeOK', Core, OnServiceDisconnected
  PROVE  Core'
<1>1. /\ Handles("connected") /\ inbox # <<>> /\ Head(inbox) = inbox[1] /\ inbox[1][3] = 0
      /\ inbox \in Seq(Messages) /\ inbox' \in Seq(Messages) /\ Moved(inbox, 1, {}, inbox')
      /\ service' = 0 /\ ~isBound'
  BY HeadIs DEF OnServiceDisconnected, Handles
<1>2. PICK a \in Listeners : dispatcher' = [dispatcher EXCEPT ![a].has = 0]
  BY DEF OnServiceDisconnected
<1>3. UNCHANGED <<opened, delayed, messenger, conns, record, objects, clients>>
  BY DEF OnServiceDisconnected, screens, services
<1>4. /\ inbox[1] = <<"connected", dispatcher[a].id, 0>> /\ a \in Activities
      /\ dispatcher[a].has # 0 /\ dispatcher[a].id # 0
      /\ \A c \in Activities : c # a => dispatcher[c].id # dispatcher[a].id
  BY <1>1, ListenerIs DEF Up
<1>5. /\ opened \in Nat /\ messenger \in Nat /\ objects \in Nat
      /\ dispatcher \in [Activities -> [id : Numbers, has : Objects]]
  BY DEF Bounds, TypeOK, Objects, Numbers
<1>6. /\ \A c \in Activities : dispatcher'[c].id = dispatcher[c].id
      /\ \A c \in Activities : c # a => dispatcher'[c].has = dispatcher[c].has
      /\ dispatcher'[a].has = 0
  BY <1>2, <1>4, <1>5
<1>7. \A c \in Activities : \A k : inbox[1] = <<"connected", dispatcher[c].id, k>> =>
        c = a /\ k = 0
  BY <1>4
<1>8. Shifted(inbox, {}, inbox')
  BY <1>1, Ahead
<1>9. \A x : After(inbox, 0, x) /\ inbox[1] # x => After(inbox', 0, x)
  BY <1>8 DEF Shifted
<1>10. Numbered'
  <2>1. ASSUME NEW c \in Activities
        PROVE  /\ dispatcher'[c].id <= messenger' /\ dispatcher'[c].has <= objects'
               /\ dispatcher'[c].id = 0 => dispatcher'[c].has = 0
               /\ c > opened' => dispatcher'[c].id = 0
    BY <1>3, <1>4, <1>5, <1>6 DEF Core, Numbered
  <2>2. ASSUME NEW c \in Activities, NEW e \in Activities,
               dispatcher'[c].id = dispatcher'[e].id, dispatcher'[c].id # 0
        PROVE  c = e
    BY <1>6, <2>2 DEF Core, Numbered
  <2>3. service' <= objects'
    BY <1>1, <1>3, <1>5
  <2>4. QED
    BY <1>3, <2>1, <2>2, <2>3 DEF Core, Numbered
<1>11. QueueNumbered'
  <2>1. \A x : OfSome(x) => OfSome(x)'
    BY <1>3 DEF OfSome
  <2>2. QED
    BY <1>8, <2>1 DEF Core, QueueNumbered, Shifted
<1>12. ConnsLive'
  BY <1>3, <1>6 DEF Core, ConnsLive
<1>13. HeardIsTold'
  <2>1. SUFFICES ASSUME NEW c \in Activities, dispatcher'[c].has # 0
                 PROVE  \/ <<dispatcher[c].id, dispatcher'[c].has>> \in conns
                        \/ After(inbox', 0, <<"connected", dispatcher[c].id, 0>>)
    BY <1>3, <1>6 DEF HeardIsTold, Up, Down
  <2>2. c # a /\ dispatcher'[c].has = dispatcher[c].has
    BY <1>6, <2>1
  <2>3. \/ <<dispatcher[c].id, dispatcher[c].has>> \in conns
        \/ After(inbox, 0, <<"connected", dispatcher[c].id, 0>>)
    BY <2>1, <2>2 DEF Core, HeardIsTold, Up, Down
  <2>4. QED
    BY <1>7, <1>9, <2>2, <2>3
<1>14. ToldIsTrue'
  <2>1. SUFFICES ASSUME NEW c \in Activities, NEW i \in 1..Len(inbox'), NEW k \in Objects \ {0},
                        inbox'[i] = <<"connected", dispatcher[c].id, k>>
                 PROVE  \/ <<dispatcher[c].id, k>> \in conns
                        \/ After(inbox', i, <<"connected", dispatcher[c].id, 0>>)
    BY <1>3, <1>6 DEF ToldIsTrue, Up, Down
  <2>2. /\ i + 1 \in 1..Len(inbox) /\ i \in 0..(Len(inbox) - 1) /\ inbox'[i] = inbox[i + 1]
    BY <1>8 DEF Shifted
  <2>3. \/ <<dispatcher[c].id, k>> \in conns
        \/ After(inbox, i + 1, <<"connected", dispatcher[c].id, 0>>)
    BY <2>1, <2>2 DEF Core, ToldIsTrue, Up, Down
  <2>4. QED
    BY <1>8, <2>2, <2>3 DEF Shifted
<1>15. BoundHeard' /\ BoundRegisters'
  BY <1>1 DEF BoundHeard, BoundRegisters
<1>16. record # 0 => \A c \in Activities : dispatcher[c].has # record
  <2>1. IsZero(inbox[1])
    BY <1>4 DEF IsZero
  <2>2. ~NoZero(inbox, 0)
    BY <1>8, <2>1 DEF Shifted
  <2>3. QED
    BY <2>2 DEF Core, ZeroFirst
<1>17. ZeroFirst'
  <2>1. ASSUME NEW i \in 1..Len(inbox'), record # 0, inbox'[i][1] = "connected",
               inbox'[i][3] = record
        PROVE  NoZero(inbox', i)
    <3>1. /\ i + 1 \in 1..Len(inbox) /\ i \in 0..(Len(inbox) - 1)
          /\ inbox'[i] = inbox[i + 1]
      BY <1>8 DEF Shifted
    <3>2. NoZero(inbox, i + 1)
      BY <2>1, <3>1 DEF Core, ZeroFirst
    <3>3. QED
      BY <1>8, <3>1, <3>2 DEF Shifted
  <2>2. ASSUME NEW c \in Activities, record # 0, dispatcher'[c].has = record
        PROVE  FALSE
    BY <1>6, <1>16, <2>2
  <2>3. QED
    BY <1>3, <2>1, <2>2 DEF ZeroFirst
<1>18. Pending'
  <2>1. SUFFICES ASSUME NEW c \in Activities, record # 0,
                        <<dispatcher[c].id, record>> \in conns
                 PROVE  \/ After(inbox', 0, <<"bind", record>>)
                        \/ After(inbox', 0, <<"connected", dispatcher[c].id, record>>)
    BY <1>3, <1>6 DEF Pending, Up
  <2>2. \/ After(inbox, 0, <<"bind", record>>)
        \/ After(inbox, 0, <<"connected", dispatcher[c].id, record>>)
    BY <1>16, <2>1 DEF Core, Pending, Up
  <2>3. /\ inbox[1] # <<"bind", record>>
        /\ inbox[1] # <<"connected", dispatcher[c].id, record>>
    BY <1>4, <2>1
  <2>4. QED
    BY <1>9, <2>2, <2>3
<1>19. NoClients'
  BY <1>3 DEF Core, NoClients
<1>20. QED
  BY <1>10, <1>11, <1>12, <1>13, <1>14, <1>15, <1>17, <1>18, <1>19 DEF Core

-----------------------------------------------------------------------------
(* Every step keeps the types.                                             *)

\* The end of the service, after the connection of a was given up or not.
LEMMA StopPosted ==
  ASSUME Bounds, TypeOK, NEW K \in SUBSET conns, NEW told \in Tell(K, 0)
  PROVE  /\ inbox \o Unregistering \o told \in Seq(Messages)
         /\ Moved(inbox, 0, GivenUp \cup Ends(K), inbox \o Unregistering \o told)
         /\ inbox \o told \in Seq(Messages)
         /\ Moved(inbox, 0, Ends(K), inbox \o told)
<1>1. K \in SUBSET (Numbers \X Objects) /\ 0 \in Objects
  BY DEF TypeOK, Bounds, Objects
<1>2. /\ told \in Seq(Messages)
      /\ \A j \in 1..Len(told) : \E c \in K : told[j] = <<"connected", c[1], 0>>
      /\ \A c \in K : \E j \in 1..Len(told) : told[j] = <<"connected", c[1], 0>>
  BY <1>1, TellIs
<1>3. /\ \A j \in 1..Len(told) : told[j] \in Ends(K)
      /\ \A m \in Ends(K) : \E j \in 1..Len(told) : told[j] = m
  BY <1>2 DEF Ends
<1> DEFINE q == inbox \o Unregistering
<1>4. q \in Seq(Messages) /\ inbox \in Seq(Messages) /\ Moved(inbox, 0, GivenUp, q)
  BY GivenUpPosted
<1> HIDE DEF q
<1>5. q \o told \in Seq(Messages) /\ Moved(q, 0, Ends(K), q \o told)
  BY <1>2, <1>3, <1>4, Posted
<1>6. Moved(inbox, 0, GivenUp \cup Ends(K), q \o told)
  BY <1>4, <1>5, Then
<1>7. inbox \o told \in Seq(Messages) /\ Moved(inbox, 0, Ends(K), inbox \o told)
  BY <1>2, <1>3, <1>4, Posted
<1>8. QED
  BY <1>5, <1>6, <1>7 DEF q

\* What is posted with a delay.
LEMMA DelayedIs ==
  ASSUME TypeOK, delayed # <<>>
  PROVE  /\ Head(delayed) = delayed[1] /\ 1 \in 1..Len(delayed)
         /\ Head(delayed)[2] \in Activities
         /\ Tail(delayed) \in Seq({"resume", "record", "start"} \X Activities)
         /\ \A i \in 1..Len(Tail(delayed)) :
              i + 1 \in 1..Len(delayed) /\ Tail(delayed)[i] = delayed[i + 1]
<1> DEFINE M == {"resume", "record", "start"} \X Activities
<1>1. delayed \in Seq(M)
  BY DEF TypeOK
<1> HIDE DEF M
<1>2. /\ Head(delayed) \in M /\ Head(delayed) = delayed[1] /\ 1 \in 1..Len(delayed)
      /\ Tail(delayed) \in Seq(M)
      /\ \A i \in 1..Len(Tail(delayed)) :
           i + 1 \in 1..Len(delayed) /\ Tail(delayed)[i] = delayed[i + 1]
  BY <1>1, RestOfSequence
<1>3. Head(delayed)[2] \in Activities
  BY <1>2 DEF M
<1>4. QED
  BY <1>2, <1>3 DEF M

LEMMA DropTypes ==
  ASSUME TypeOK, NEW a \in Activities, Bounds
  PROVE  /\ Dropped(a) \in [Activities -> [id : Numbers, has : Objects]]
         /\ Without(a) \subseteq Numbers \X Objects
BY DEF TypeOK, Bounds, Dropped, Unbound, Without, Numbers, Objects

LEMMA BindTypes ==
  ASSUME Bounds, TypeOK, NEW a \in Activities, NEW n \in Objects, BindService(a, n)
  PROVE  /\ inbox' \in Seq(Messages) /\ messenger' \in Numbers /\ isBound' \in BOOLEAN
         /\ service' \in Objects
         /\ owner' \in [1..messenger' -> Activities]
         /\ dispatcher' \in [Activities -> [id : Numbers, has : Objects]]
         /\ conns' \subseteq Numbers \X Objects
<1>1. inbox' \in Seq(Messages)
  BY BindPosted DEF BindService
<1>2. messenger' = messenger + 1 /\ messenger' \in Numbers /\ messenger \in Nat
  BY DEF BindService, TypeOK, Bounds, Numbers
<1>3. isBound' \in BOOLEAN /\ service' \in Objects
  BY DEF BindService, TypeOK
<1>4. owner' \in [1..messenger' -> Activities]
  <2>1. owner \in Seq(Activities) /\ Len(owner) = messenger
    BY <1>2 DEF TypeOK
  <2>2. owner' = Append(owner, a)
    BY DEF BindService
  <2>3. owner' \in Seq(Activities) /\ Len(owner') = messenger + 1
    BY <2>1, <2>2
  <2>4. QED
    BY <1>2, <2>3
<1>5. dispatcher' \in [Activities -> [id : Numbers, has : Objects]]
  <2>1. 0 \in Objects
    BY DEF Objects, Bounds
  <2>2. \/ dispatcher' = dispatcher
        \/ dispatcher' = [dispatcher EXCEPT ![a] = [id |-> messenger + 1, has |-> 0]]
    BY DEF BindService
  <2>3. QED
    BY <1>2, <2>1, <2>2 DEF TypeOK
<1>6. conns' \subseteq Numbers \X Objects
  <2>1. PICK d \in {messenger + 1, dispatcher[a].id} :
          conns' = (IF isBound THEN Without(a) ELSE conns) \cup {<<d, n>>}
    BY DEF BindService
  <2>2. d \in Numbers
    BY <1>2 DEF TypeOK
  <2>3. QED
    BY <2>1, <2>2 DEF Without, TypeOK
<1>7. QED
  BY <1>1, <1>2, <1>3, <1>4, <1>5, <1>6

LEMMA StartTypes ==
  ASSUME Bounds, TypeOK, NEW a \in Activities, StartService(a)
  PROVE  /\ inbox' \in Seq(Messages) /\ messenger' \in Numbers /\ isBound' \in BOOLEAN
         /\ service' \in Objects
         /\ owner' \in [1..messenger' -> Activities]
         /\ dispatcher' \in [Activities -> [id : Numbers, has : Objects]]
         /\ conns' \subseteq Numbers \X Objects
         /\ objects' \in Objects /\ record' \in {0, objects'} /\ clients' \in Seq(Numbers)
<1>1. CASE record # 0 /\ BindService(a, record) /\ UNCHANGED services
  <2>1. record \in Objects
    BY DEF TypeOK, Bounds, Objects
  <2>2. QED
    BY <1>1, <2>1, BindTypes DEF services, TypeOK
<1>2. CASE /\ record = 0 /\ objects < MaxServices
           /\ objects' = objects + 1 /\ record' = objects + 1 /\ clients' = <<>>
           /\ BindService(a, objects + 1)
  <2>1. objects + 1 \in Objects
    BY <1>2 DEF TypeOK, Bounds, Objects
  <2>2. clients' \in Seq(Numbers)
    BY <1>2
  <2>3. QED
    BY <1>2, <2>1, <2>2, BindTypes
<1>3. QED
  BY <1>1, <1>2 DEF StartService

LEMMA TypesStep == Bounds /\ TypeOK /\ [Next]_vars => TypeOK'
<1> SUFFICES ASSUME Bounds, TypeOK, [Next]_vars PROVE TypeOK'
  OBVIOUS
<1> DEFINE Delays == {"resume", "record", "start"} \X Activities
<1>1. /\ opened \in 0..MaxActivities /\ screen \in 0..opened /\ finishing \subseteq 1..opened
      /\ delayed \in Seq(Delays) /\ inbox \in Seq(Messages)
      /\ opened \in Nat /\ MaxActivities \in Nat
      /\ \A a \in 1..opened : a \in Activities
  BY DEF TypeOK, Messages, Bounds, Activities
<1>2. ASSUME /\ opened' \in 0..MaxActivities /\ screen' \in 0..opened'
             /\ finishing' \subseteq 1..opened'
             /\ delayed' \in Seq(Delays) /\ inbox' \in Seq(Messages)
             /\ service' \in Objects /\ messenger' \in Numbers /\ isBound' \in BOOLEAN
             /\ owner' \in [1..messenger' -> Activities]
             /\ dispatcher' \in [Activities -> [id : Numbers, has : Objects]]
             /\ conns' \subseteq Numbers \X Objects
             /\ objects' \in Objects /\ record' \in {0, objects'} /\ clients' \in Seq(Numbers)
             /\ late' \in BOOLEAN /\ overlapped' \in BOOLEAN
      PROVE  TypeOK'
  BY <1>2 DEF TypeOK, Messages
<1> HIDE DEF Delays
<1>3. CASE Open
  <2>1. /\ opened' = opened + 1 /\ screen' = opened + 1 /\ opened < MaxActivities
        /\ UNCHANGED <<finishing, inbox, statics, bindings, services, late>>
        /\ overlapped' \in BOOLEAN
    BY <1>3 DEF Open
  <2>2. delayed' \in Seq(Delays)
    <3>1. PICK kind \in {"resume", "record"} : delayed' = Append(delayed, <<kind, opened + 1>>)
      BY <1>3 DEF Open
    <3>2. <<kind, opened + 1>> \in Delays
      BY <1>1, <2>1 DEF Delays, Activities
    <3>3. QED
      BY <1>1, <3>1, <3>2
  <2>3. QED
    BY <1>1, <1>2, <2>1, <2>2 DEF TypeOK, statics, bindings, services
<1>4. CASE Finish
  BY <1>1, <1>2, <1>4 DEF Finish, LeftEarly, TypeOK, statics, bindings, services
<1>5. ASSUME NEW a \in Activities, OnDestroy(a)
      PROVE  /\ inbox' \in Seq(Messages) /\ isBound' \in BOOLEAN
             /\ dispatcher' \in [Activities -> [id : Numbers, has : Objects]]
             /\ conns' \subseteq Numbers \X Objects
             /\ UNCHANGED <<service, messenger, owner>>
  BY <1>5, GivenUpPosted, DropTypes DEF OnDestroy
<1>6. CASE Rotate
  <2>1. /\ opened' = opened + 1 /\ screen' = opened + 1 /\ opened < MaxActivities
        /\ UNCHANGED <<finishing, services>> /\ late' \in BOOLEAN /\ overlapped' = overlapped
        /\ OnDestroy(screen) /\ screen \in Activities
    BY <1>1, <1>6 DEF Rotate, LeftEarly, TypeOK
  <2>2. delayed' \in Seq(Delays)
    <3>1. delayed' = Append(delayed, <<"resume", opened + 1>>)
      BY <1>6 DEF Rotate
    <3>2. <<"resume", opened + 1>> \in Delays
      BY <1>1, <2>1 DEF Delays, Activities
    <3>3. QED
      BY <1>1, <3>1, <3>2
  <2>3. QED
    BY <1>1, <1>2, <1>5, <2>1, <2>2 DEF TypeOK, services
<1>7. CASE ToggleOn
  <2>1. delayed' \in Seq(Delays)
    <3>1. delayed' = Append(delayed, <<"start", screen>>) /\ screen # 0
      BY <1>7 DEF ToggleOn
    <3>2. <<"start", screen>> \in Delays
      BY <1>1, <3>1 DEF Delays
    <3>3. QED
      BY <1>1, <3>1, <3>2
  <2>2. QED
    BY <1>1, <1>2, <1>7, <2>1 DEF ToggleOn, screens, statics, bindings, services,
       history, TypeOK
<1>8. CASE ToggleOff
  <2>1. /\ screen \in Activities /\ record' = 0 /\ clients' = <<>> /\ conns' = {}
        /\ UNCHANGED <<screens, delayed, service, messenger, owner, objects, history>>
        /\ isBound' = FALSE
        /\ dispatcher' = IF isBound THEN Dropped(screen) ELSE dispatcher
    BY <1>1, <1>8 DEF ToggleOff
  <2>2. inbox' \in Seq(Messages)
    <3> DEFINE K == IF isBound THEN Without(screen) ELSE conns
    <3>1. PICK told \in Tell(K, 0) : inbox' = inbox \o Unregistering \o told
      BY <1>8 DEF ToggleOff
    <3>2. K \in SUBSET conns
      BY DEF Without
    <3> HIDE DEF K
    <3>3. QED
      BY <3>1, <3>2, StopPosted
  <2>3. dispatcher' \in [Activities -> [id : Numbers, has : Objects]]
    BY <2>1, DropTypes DEF TypeOK
  <2>4. clients' \in Seq(Numbers)
    BY <2>1
  <2>5. QED
    BY <1>1, <1>2, <2>1, <2>2, <2>3, <2>4 DEF TypeOK, screens, history
<1>9. CASE ServiceStops
  <2>1. inbox' \in Seq(Messages)
    <3>1. PICK told \in Tell(conns, 0) : inbox' = inbox \o told
      BY <1>9 DEF ServiceStops
    <3>2. QED
      BY <3>1, StopPosted
  <2>2. clients' \in Seq(Numbers)
    BY <1>9 DEF ServiceStops
  <2>3. QED
    BY <1>1, <1>2, <1>9, <2>1, <2>2 DEF ServiceStops, TypeOK, screens, statics, history
<1>10. ASSUME NEW a \in Activities, Destroy(a)
       PROVE  TypeOK'
  BY <1>1, <1>2, <1>5, <1>10 DEF Destroy, TypeOK, services, history
<1>11. ASSUME NEW kind, Delayed(kind)
       PROVE  Head(delayed)[2] \in Activities /\ delayed' \in Seq(Delays)
  BY <1>11, DelayedIs DEF Delayed, Delays
<1>12. CASE HandleResume
  <2>1. /\ Head(delayed)[2] \in Activities /\ delayed' \in Seq(Delays)
        /\ UNCHANGED <<screens, services, history>>
    BY <1>11, <1>12 DEF HandleResume
  <2>2. CASE record # 0 /\ BindService(Head(delayed)[2], record)
    <3>1. record \in Objects
      BY DEF TypeOK, Bounds, Objects
    <3>2. QED
      BY <1>1, <1>2, <2>1, <2>2, <3>1, BindTypes DEF TypeOK, screens, services, history
  <2>3. CASE UNCHANGED <<inbox, statics, bindings>>
    BY <1>1, <1>2, <2>1, <2>3 DEF TypeOK, screens, services, history, statics, bindings
  <2>4. QED
    BY <1>12, <2>2, <2>3 DEF HandleResume
<1>13. CASE HandleRecord
  <2>1. /\ Head(delayed)[2] \in Activities /\ delayed' \in Seq(Delays)
        /\ UNCHANGED <<screens, history>>
    BY <1>11, <1>13 DEF HandleRecord
  <2>2. CASE UnbindService(Head(delayed)[2]) /\ UNCHANGED services
    <3>1. inbox' \in Seq(Messages)
      BY <2>2, GivenUpPosted DEF UnbindService
    <3>2. /\ dispatcher' \in [Activities -> [id : Numbers, has : Objects]]
          /\ conns' \subseteq Numbers \X Objects
      BY <2>1, <2>2, DropTypes DEF UnbindService, TypeOK
    <3>3. QED
      BY <1>1, <1>2, <2>1, <2>2, <3>1, <3>2 DEF UnbindService, TypeOK, screens,
         services, history
  <2>3. CASE StartService(Head(delayed)[2])
    BY <1>1, <1>2, <2>1, <2>3, StartTypes DEF TypeOK, screens, history
  <2>4. QED
    BY <1>13, <2>2, <2>3 DEF HandleRecord
<1>14. CASE HandleStart
  <2>1. /\ Head(delayed)[2] \in Activities /\ delayed' \in Seq(Delays)
        /\ UNCHANGED <<screens, history>> /\ StartService(Head(delayed)[2])
    BY <1>11, <1>14 DEF HandleStart
  <2>2. QED
    BY <1>1, <1>2, <2>1, StartTypes DEF TypeOK, screens, history
<1>15. inbox # <<>> => /\ Head(inbox) \in Messages /\ Tail(inbox) \in Seq(Messages)
  BY <1>1, RestOfSequence
<1>16. CASE HandleBind
  <2>1. inbox # <<>> /\ Head(inbox)[2] \in Objects
    BY <1>15, <1>16 DEF HandleBind, Handles, Messages
  <2> DEFINE S == {c \in conns : c[2] = Head(inbox)[2]}
  <2>2. PICK told \in Tell(S, Head(inbox)[2]) : inbox' = Tail(inbox) \o told
    BY <1>16 DEF HandleBind
  <2>3. S \in SUBSET (Numbers \X Objects)
    BY DEF TypeOK
  <2> HIDE DEF S
  <2>4. told \in Seq(Messages)
    BY <2>1, <2>2, <2>3, TellIs
  <2>5. inbox' \in Seq(Messages)
    BY <1>15, <2>1, <2>2, <2>4, ConcatProperties
  <2>6. QED
    BY <1>1, <1>2, <1>16, <2>5 DEF HandleBind, TypeOK, screens, statics, bindings,
       services, history
<1>17. CASE NotHeard
  BY <1>1, <1>2, <1>15, <1>17 DEF NotHeard, Handles, TypeOK, screens, statics, bindings,
     services, history
<1>18. Handles("connected") => Head(inbox)[3] \in Objects
  BY <1>15 DEF Handles, Messages
<1>19. CASE OnServiceConnected
  <2>1. PICK a \in Listeners :
          /\ service' = Head(inbox)[3] /\ isBound' = TRUE
          /\ dispatcher' = [dispatcher EXCEPT ![a].has = Head(inbox)[3]]
          /\ inbox' = Append(Tail(inbox), <<"register", Head(inbox)[3], messenger>>)
    BY <1>19 DEF OnServiceConnected
  <2>2. /\ a \in Activities /\ Head(inbox)[3] \in Objects /\ inbox # <<>>
        /\ UNCHANGED <<screens, delayed, messenger, owner, conns, services, history>>
    BY <1>18, <1>19, <2>1 DEF OnServiceConnected, Listeners, Handles
  <2>3. inbox' \in Seq(Messages)
    <3>1. <<"register", Head(inbox)[3], messenger>> \in Messages
      BY <2>2 DEF Messages, TypeOK
    <3>2. QED
      BY <1>15, <2>1, <2>2, <3>1, AppendProperties
  <2>4. dispatcher' \in [Activities -> [id : Numbers, has : Objects]]
    BY <2>1, <2>2 DEF TypeOK
  <2>5. QED
    BY <1>1, <1>2, <2>1, <2>2, <2>3, <2>4 DEF TypeOK, screens, services, history
<1>20. CASE OnServiceDisconnected
  <2>1. PICK a \in Listeners : dispatcher' = [dispatcher EXCEPT ![a].has = 0]
    BY <1>20 DEF OnServiceDisconnected
  <2>2. /\ a \in Activities /\ 0 \in Objects /\ inbox # <<>>
        /\ service' = 0 /\ isBound' = FALSE /\ inbox' = Tail(inbox)
        /\ UNCHANGED <<screens, delayed, messenger, owner, conns, services, history>>
    BY <1>20, <2>1 DEF OnServiceDisconnected, Listeners, Handles, Objects, Bounds
  <2>3. dispatcher' \in [Activities -> [id : Numbers, has : Objects]]
    BY <2>1, <2>2 DEF TypeOK
  <2>4. QED
    BY <1>1, <1>2, <1>15, <2>2, <2>3 DEF TypeOK, screens, services, history
<1>21. CASE HandleRegister
  <2>1. inbox # <<>> /\ Head(inbox)[3] \in Numbers
    BY <1>15, <1>21 DEF HandleRegister, Handles, Messages
  <2>2. clients' \in Seq(Numbers)
    BY <1>21, <2>1 DEF HandleRegister, Registered, TypeOK
  <2>3. QED
    BY <1>1, <1>2, <1>15, <1>21, <2>1, <2>2 DEF HandleRegister, TypeOK, screens,
       statics, bindings, history
<1>22. CASE HandleUnregister
  <2>1. inbox # <<>>
    BY <1>22 DEF HandleUnregister, Handles
  <2>2. clients \in Seq(Numbers)
    BY DEF TypeOK
  <2>3. clients' \in Seq(Numbers)
    BY <1>22, <2>2, UnregisteredIs DEF HandleUnregister, Unregistered
  <2>4. QED
    BY <1>1, <1>2, <1>15, <1>22, <2>1, <2>3 DEF HandleUnregister, TypeOK, screens,
       statics, bindings, history
<1>23. CASE UNCHANGED vars
  BY <1>1, <1>2, <1>23 DEF vars, TypeOK, screens, statics, bindings, services, history
<1>24. QED
  BY <1>3, <1>4, <1>6, <1>7, <1>8, <1>9, <1>10, <1>12, <1>13, <1>14, <1>16, <1>17, <1>19,
     <1>20, <1>21, <1>22, <1>23 DEF Next, Handle

-----------------------------------------------------------------------------
(* Every step keeps that part of the invariant.                            *)

\* A message is posted with a delay, or taken.
LEMMA DelayedGrows ==
  ASSUME Bounds, TypeOK, Core, opened' \in Nat, opened' >= opened,
         NEW kind, NEW a \in 1..opened', delayed' = Append(delayed, <<kind, a>>)
  PROVE  \A i \in 1..Len(delayed') : delayed'[i][2] <= opened'
<1>1. /\ delayed \in Seq({"resume", "record", "start"} \X Activities)
      /\ opened \in Nat
  BY DEF TypeOK, Bounds
<1>2. /\ \A i \in 1..Len(delayed) : delayed'[i] = delayed[i]
      /\ Len(delayed') = Len(delayed) + 1 /\ delayed'[Len(delayed) + 1] = <<kind, a>>
      /\ Len(delayed) \in Nat
  BY <1>1, AppendProperties, LenProperties
<1>3. ASSUME NEW i \in 1..Len(delayed') PROVE delayed'[i][2] <= opened'
  <2>1. CASE i = Len(delayed) + 1
    BY <1>2, <2>1
  <2>2. CASE i # Len(delayed) + 1
    <3>1. i \in 1..Len(delayed)
      BY <1>2, <2>2
    <3>2. delayed'[i][2] = delayed[i][2] /\ delayed[i][2] <= opened
      BY <1>2, <3>1 DEF Core, Numbered
    <3>3. delayed[i][2] \in Nat
      BY <1>1, <3>1, ElementOfSeq DEF Activities
    <3>4. QED
      BY <1>1, <3>2, <3>3
  <2>3. QED
    BY <2>1, <2>2
<1>4. QED
  BY <1>3

LEMMA DelayedShrinks ==
  ASSUME Bounds, TypeOK, Core, NEW kind, Delayed(kind), opened' = opened
  PROVE  /\ \A i \in 1..Len(delayed') : delayed'[i][2] <= opened'
         /\ Head(delayed)[2] \in Activities /\ Head(delayed)[2] <= opened
<1>1. delayed # <<>> /\ delayed' = Tail(delayed)
  BY DEF Delayed
<1>2. QED
  BY <1>1, DelayedIs DEF Core, Numbered

\* Nothing that has to do with the binding changes.
LEMMA QuietKeeps ==
  ASSUME Bounds, TypeOK, TypeOK', Core, opened' >= opened,
         \A i \in 1..Len(delayed') : delayed'[i][2] <= opened',
         UNCHANGED <<inbox, service, messenger, isBound, bindings, services>>
  PROVE  Core'
<1>1. opened \in Nat /\ opened' \in Nat
  BY DEF TypeOK, Bounds
<1>2. Numbered'
  BY <1>1 DEF Core, Numbered, bindings, services, Activities
<1>3. QueueNumbered' /\ ConnsLive' /\ HeardIsTold' /\ ToldIsTrue' /\ BoundHeard'
  BY DEF Core, QueueNumbered, OfSome, ConnsLive, HeardIsTold, ToldIsTrue, BoundHeard,
     Up, Down,
     bindings, services
<1>4. BoundRegisters' /\ ZeroFirst' /\ Pending' /\ NoClients'
  BY DEF Core, BoundRegisters, Register, Unregister, ZeroFirst, Pending, NoClients, Up,
     bindings, services
<1>5. QED
  BY <1>2, <1>3, <1>4 DEF Core

LEMMA StartKeeps ==
  ASSUME Bounds, TypeOK, TypeOK', Core, NEW a \in Activities, a <= opened, StartService(a),
         opened' = opened, \A i \in 1..Len(delayed') : delayed'[i][2] <= opened
  PROVE  Core'
<1>1. CASE record # 0 /\ BindService(a, record) /\ UNCHANGED services
  <2>1. record \in Objects \ {0}
    BY <1>1 DEF TypeOK, Bounds, Objects
  <2>2. QED
    BY <1>1, <2>1, BindKeeps
<1>2. CASE /\ record = 0 /\ objects < MaxServices
           /\ objects' = objects + 1 /\ record' = objects + 1 /\ clients' = <<>>
           /\ BindService(a, objects + 1)
  <2>1. objects + 1 \in Objects \ {0}
    BY <1>2 DEF TypeOK, Bounds, Objects
  <2>2. QED
    BY <1>2, <2>1, BindKeeps
<1>3. QED
  BY <1>1, <1>2 DEF StartService

LEMMA CoreStep ==
  Bounds /\ TypeOK /\ Core /\ [Next]_vars => Core'
<1> SUFFICES ASSUME Bounds, TypeOK, Core, [Next]_vars PROVE Core'
  OBVIOUS
<1>1. TypeOK'
  BY TypesStep
<1>2. /\ opened \in Nat /\ MaxActivities \in Nat /\ screen \in 0..opened
      /\ opened <= MaxActivities
      /\ finishing \subseteq 1..opened /\ \A a \in 1..opened : a \in Activities
      /\ \A i \in 1..Len(delayed) : delayed[i][2] <= opened
  BY DEF TypeOK, Bounds, Activities, Core, Numbered
<1>3. CASE Open
  <2>1. /\ opened' = opened + 1
        /\ UNCHANGED <<inbox, service, messenger, isBound, bindings, services>>
    BY <1>3 DEF Open, statics
  <2>2. PICK kind \in {"resume", "record"} : delayed' = Append(delayed, <<kind, opened + 1>>)
    BY <1>3 DEF Open
  <2>3. \A i \in 1..Len(delayed') : delayed'[i][2] <= opened'
    BY <1>2, <2>1, <2>2, DelayedGrows
  <2>4. QED
    BY <1>1, <1>2, <2>1, <2>3, QuietKeeps
<1>4. CASE Finish
  <2>1. UNCHANGED <<opened, delayed, inbox, service, messenger, isBound, bindings, services>>
    BY <1>4 DEF Finish, statics
  <2>2. QED
    BY <1>1, <1>2, <2>1, QuietKeeps
<1>5. CASE Rotate
  <2>1. /\ opened' = opened + 1 /\ screen \in Activities /\ OnDestroy(screen)
        /\ UNCHANGED services /\ delayed' = Append(delayed, <<"resume", opened + 1>>)
    BY <1>2, <1>5 DEF Rotate
  <2>2. \A i \in 1..Len(delayed') : delayed'[i][2] <= opened'
    BY <1>2, <2>1, DelayedGrows
  <2>3. QED
    BY <1>1, <1>2, <2>1, <2>2, DropKeeps
<1>6. CASE ToggleOn
  <2>1. /\ screen \in 1..opened /\ delayed' = Append(delayed, <<"start", screen>>)
        /\ UNCHANGED <<opened, inbox, service, messenger, isBound, bindings, services>>
    BY <1>2, <1>6 DEF ToggleOn, screens, statics
  <2>2. \A i \in 1..Len(delayed') : delayed'[i][2] <= opened'
    BY <1>2, <2>1, DelayedGrows
  <2>3. QED
    BY <1>1, <1>2, <2>1, <2>2, QuietKeeps
<1>7. CASE ToggleOff
  <2> DEFINE K == IF isBound THEN Without(screen) ELSE conns
  <2>1. PICK told \in Tell(K, 0) : inbox' = inbox \o Unregistering \o told
    BY <1>7 DEF ToggleOff
  <2>2. /\ K \in SUBSET conns /\ screen \in Activities
        /\ \A c \in conns : c[1] # dispatcher[screen].id => c \in K
        /\ ~isBound => K = conns
    BY <1>2, <1>7 DEF Without, ToggleOff
  <2>3. /\ conns' = {} /\ record' = 0 /\ clients' = <<>> /\ ~isBound'
        /\ dispatcher' = IF isBound THEN Dropped(screen) ELSE dispatcher
        /\ UNCHANGED <<opened, delayed, service, messenger, objects>>
    BY <1>7 DEF ToggleOff, screens
  <2> HIDE DEF K
  <2>4. Moved(inbox, 0, GivenUp \cup Ends(K), inbox')
    BY <2>1, <2>2, StopPosted
  <2>5. \/ \E a \in Activities :
             /\ dispatcher' = Dropped(a) /\ ~isBound'
             /\ \A c \in conns : c[1] # dispatcher[a].id => c \in K
        \/ dispatcher' = dispatcher /\ isBound' = isBound /\ K = conns
    <3>1. isBound \in BOOLEAN /\ isBound' \in BOOLEAN
      BY <1>1 DEF TypeOK
    <3>2. QED
      BY <2>2, <2>3, <3>1
  <2>6. QED
    BY <1>1, <2>2, <2>3, <2>4, <2>5, StopKeeps
<1>8. CASE ServiceStops
  <2>1. PICK told \in Tell(conns, 0) : inbox' = inbox \o told
    BY <1>8 DEF ServiceStops
  <2>2. /\ conns' = {} /\ record' = 0 /\ clients' = <<>> /\ isBound' = isBound
        /\ dispatcher' = dispatcher
        /\ UNCHANGED <<opened, delayed, service, messenger, objects>>
    BY <1>8 DEF ServiceStops, screens, statics
  <2>3. Moved(inbox, 0, Ends(conns), inbox')
    BY <2>1, StopPosted
  <2>4. QED
    BY <1>1, <2>2, <2>3, StopKeeps
<1>9. ASSUME NEW a \in Activities, Destroy(a)
      PROVE  Core'
  <2>1. OnDestroy(a) /\ UNCHANGED <<opened, delayed, services>>
    BY <1>9 DEF Destroy
  <2>2. QED
    BY <1>1, <1>2, <2>1, DropKeeps DEF services
<1>10. CASE HandleResume
  <2>1. /\ Delayed("resume") /\ UNCHANGED <<opened, services>>
    BY <1>10 DEF HandleResume, screens
  <2>2. /\ \A i \in 1..Len(delayed') : delayed'[i][2] <= opened'
        /\ Head(delayed)[2] \in Activities /\ Head(delayed)[2] <= opened
    BY <2>1, DelayedShrinks
  <2>3. CASE record # 0 /\ BindService(Head(delayed)[2], record)
    <3>1. record \in Objects \ {0}
      BY <2>3 DEF TypeOK, Bounds, Objects
    <3>2. QED
      BY <1>1, <2>1, <2>2, <2>3, <3>1, BindKeeps DEF services
  <2>4. CASE UNCHANGED <<inbox, statics, bindings>>
    BY <1>1, <1>2, <2>1, <2>2, <2>4, QuietKeeps DEF statics
  <2>5. QED
    BY <1>10, <2>3, <2>4 DEF HandleResume
<1>11. CASE HandleRecord
  <2>1. /\ Delayed("record") /\ UNCHANGED opened
    BY <1>11 DEF HandleRecord, screens
  <2>2. /\ \A i \in 1..Len(delayed') : delayed'[i][2] <= opened'
        /\ Head(delayed)[2] \in Activities /\ Head(delayed)[2] <= opened
    BY <2>1, DelayedShrinks
  <2>3. CASE UnbindService(Head(delayed)[2]) /\ UNCHANGED services
    <3>1. CASE isBound
      <4>1. OnDestroy(Head(delayed)[2])
        BY <2>3, <3>1 DEF UnbindService, OnDestroy
      <4>2. QED
        BY <1>1, <1>2, <2>1, <2>2, <2>3, <4>1, DropKeeps
    <3>2. CASE ~isBound
      <4>1. inbox' = inbox
        <5>1. inbox' = inbox \o <<>>
          BY <2>3, <3>2 DEF UnbindService, Unregistering
        <5>2. QED
          BY <5>1 DEF TypeOK
      <4>2. isBound' = isBound
        BY <2>3, <3>2 DEF UnbindService, TypeOK
      <4>3. UNCHANGED <<service, messenger, bindings>>
        BY <2>3, <3>2 DEF UnbindService, bindings
      <4>4. QED
        BY <1>1, <1>2, <2>1, <2>2, <2>3, <4>1, <4>2, <4>3, QuietKeeps
    <3>3. QED
      BY <3>1, <3>2
  <2>4. CASE StartService(Head(delayed)[2])
    BY <1>1, <2>1, <2>2, <2>4, StartKeeps
  <2>5. QED
    BY <1>11, <2>3, <2>4 DEF HandleRecord
<1>12. CASE HandleStart
  <2>1. /\ Delayed("start") /\ UNCHANGED opened /\ StartService(Head(delayed)[2])
    BY <1>12 DEF HandleStart, screens
  <2>2. /\ \A i \in 1..Len(delayed') : delayed'[i][2] <= opened'
        /\ Head(delayed)[2] \in Activities /\ Head(delayed)[2] <= opened
    BY <2>1, DelayedShrinks
  <2>3. QED
    BY <1>1, <2>1, <2>2, StartKeeps
<1>13. CASE UNCHANGED vars
  <2>1. UNCHANGED <<opened, delayed, inbox, service, messenger, isBound, bindings, services>>
    BY <1>13 DEF vars, screens, statics
  <2>2. QED
    BY <1>1, <1>2, <2>1, QuietKeeps
<1>14. QED
  BY <1>1, <1>3, <1>4, <1>5, <1>6, <1>7, <1>8, <1>9, <1>10, <1>11, <1>12, <1>13,
     HandleBindKeeps, NotHeardKeeps, ConnectedKeeps, DisconnectedKeeps, RegisterKeeps,
     UnregisterKeeps DEF Next, Handle

-----------------------------------------------------------------------------
(* What holds while no instance was left early.                            *)

\* Messages are posted that register nothing; what is no longer held is given up.
LEMMA PostedKeepsOrder ==
  ASSUME Alternate, AllGivenUp, NEW T, Kept(inbox, T, inbox'), \A m \in T : m[1] # "register",
         \A m : Held(m) => Held(m)' \/ Unregister(m) \in T,
         UNCHANGED <<record, clients>>
  PROVE  Alternate' /\ AllGivenUp'
<1>1. /\ Len(inbox) \in Nat
      /\ \A i \in 1..Len(inbox') :
           \/ i \in 1..Len(inbox) /\ inbox'[i] = inbox[i]
           \/ i \in (Len(inbox) + 1)..Len(inbox') /\ inbox'[i] \in T
      /\ \A k \in 0..Len(inbox), i \in 1..Len(inbox) : \A m :
           Between(inbox, k, i, m) => Between(inbox', k, i, m)
      /\ \A k \in 0..Len(inbox) : \A m : After(inbox, k, m) \/ m \in T => After(inbox', k, m)
  BY DEF Kept
<1>2. ASSUME NEW i \in 1..Len(inbox'), NEW m, inbox'[i] = <<"register", record, m>>
      PROVE  i \in 1..Len(inbox) /\ inbox[i] = <<"register", record, m>>
  BY <1>1, <1>2
<1>3. Alternate'
  <2>1. SUFFICES ASSUME record # 0
                 PROVE  /\ Len(clients) <= 1
                        /\ \A i \in 1..Len(inbox') : \A m :
                             inbox'[i] = <<"register", record, m>> =>
                               /\ \A c \in Range(clients) :
                                    Between(inbox', 0, i, <<"unregister", record, c>>)
                               /\ \A k \in 1..(i - 1) : \A l :
                                    inbox'[k] = <<"register", record, l>> =>
                                      Between(inbox', k, i, <<"unregister", record, l>>)
    BY DEF Alternate, Register, Unregister
  <2>2. ASSUME NEW i \in 1..Len(inbox'), NEW m, inbox'[i] = <<"register", record, m>>
        PROVE  /\ \A c \in Range(clients) :
                    Between(inbox', 0, i, <<"unregister", record, c>>)
               /\ \A k \in 1..(i - 1) : \A l :
                    inbox'[k] = <<"register", record, l>> =>
                      Between(inbox', k, i, <<"unregister", record, l>>)
    <3>1. i \in 1..Len(inbox) /\ inbox[i] = <<"register", record, m>>
      BY <1>2, <2>2
    <3>2. \A c \in Range(clients) : Between(inbox, 0, i, <<"unregister", record, c>>)
      BY <2>1, <3>1 DEF Alternate, Register, Unregister
    <3>3. ASSUME NEW k \in 1..(i - 1), NEW l, inbox'[k] = <<"register", record, l>>
          PROVE  Between(inbox', k, i, <<"unregister", record, l>>)
      <4>1. k \in 1..Len(inbox') /\ k \in 0..Len(inbox)
        BY <1>1, <3>1
      <4>2. inbox[k] = <<"register", record, l>>
        BY <1>2, <3>3, <4>1
      <4>3. Between(inbox, k, i, <<"unregister", record, l>>)
        BY <2>1, <3>1, <4>2 DEF Alternate, Register, Unregister
      <4>4. QED
        BY <1>1, <3>1, <4>1, <4>3
    <3>4. 0 \in 0..Len(inbox)
      BY <1>1
    <3>5. QED
      BY <1>1, <3>1, <3>2, <3>3, <3>4
  <2>3. QED
    BY <2>1, <2>2 DEF Alternate
<1>4. AllGivenUp'
  <2>1. SUFFICES ASSUME record # 0
                 PROVE  /\ \A c \in Range(clients) :
                             Held(c)' \/ After(inbox', 0, <<"unregister", record, c>>)
                        /\ \A k \in 1..Len(inbox') : \A m :
                             inbox'[k] = <<"register", record, m>> =>
                               Held(m)' \/ After(inbox', k, <<"unregister", record, m>>)
    BY DEF AllGivenUp, Register, Unregister
  <2>2. \A m : Held(m) => Held(m)' \/ <<"unregister", record, m>> \in T
    BY DEF Unregister
  <2>3. ASSUME NEW c \in Range(clients)
        PROVE  Held(c)' \/ After(inbox', 0, <<"unregister", record, c>>)
    <3>1. Held(c) \/ After(inbox, 0, <<"unregister", record, c>>)
      BY <2>1 DEF AllGivenUp, Unregister
    <3>2. 0 \in 0..Len(inbox)
      BY <1>1
    <3>3. QED
      BY <1>1, <2>2, <3>1, <3>2
  <2>4. ASSUME NEW k \in 1..Len(inbox'), NEW m, inbox'[k] = <<"register", record, m>>
        PROVE  Held(m)' \/ After(inbox', k, <<"unregister", record, m>>)
    <3>1. k \in 1..Len(inbox) /\ inbox[k] = <<"register", record, m>>
      BY <1>2, <2>4
    <3>2. Held(m) \/ After(inbox, k, <<"unregister", record, m>>)
      BY <2>1, <3>1 DEF AllGivenUp, Register, Unregister
    <3>3. k \in 0..Len(inbox)
      BY <1>1, <3>1
    <3>4. QED
      BY <1>1, <2>2, <3>2, <3>3
  <2>5. QED
    BY <2>3, <2>4
<1>5. QED
  BY <1>3, <1>4

\* What is between the beginning and another message, and not taken, stays.
LEMMA StillBetween ==
  ASSUME NEW q, NEW i \in Nat, NEW m, Between(q, 0, i, m), q[1] # m
  PROVE  Between(q, 1, i, m)
<1>1. PICK j \in (0 + 1)..(i - 1) : q[j] = m
  BY DEF Between
<1>2. j # 1
  BY <1>1
<1>3. j \in (1 + 1)..(i - 1)
  BY <1>2
<1>4. QED
  BY <1>1, <1>3 DEF Between

\* A message is taken that registers nothing, and others are posted that do
\* neither; if it unregisters a client that one is gone.
LEMMA TakenKeepsOrder ==
  ASSUME Alternate, AllGivenUp, NEW T, Shifted(inbox, T, inbox'),
         \A m \in T : m[1] # "register",
         \A m : Held(m) => Held(m)',
         \A m : inbox[1] # Register(m),
         record' = record,
         Len(clients') <= 1 \/ clients' = clients,
         \A c \in Range(clients') : c \in Range(clients) /\ inbox[1] # Unregister(c)
  PROVE  Alternate' /\ AllGivenUp'
<1>1. /\ Len(inbox) \in Nat /\ Len(inbox) > 0 /\ Len(inbox') \in Nat
      /\ \A i \in 1..Len(inbox') :
           \/ i \in 1..(Len(inbox) - 1) /\ i + 1 \in 1..Len(inbox) /\ inbox'[i] = inbox[i + 1]
           \/ i \in Len(inbox)..Len(inbox') /\ inbox'[i] \in T
      /\ \A k \in 0..(Len(inbox) - 1), i \in 1..(Len(inbox) - 1) : \A m :
           Between(inbox, k + 1, i + 1, m) => Between(inbox', k, i, m)
      /\ \A k \in 0..(Len(inbox) - 1) : \A m : After(inbox, k + 1, m) => After(inbox', k, m)
      /\ \A m : After(inbox, 0, m) => inbox[1] = m \/ After(inbox', 0, m)
  BY DEF Shifted
<1>2. ASSUME NEW i \in 1..Len(inbox'), NEW m, inbox'[i] = <<"register", record, m>>
      PROVE  /\ i \in 1..(Len(inbox) - 1) /\ i + 1 \in 1..Len(inbox)
             /\ inbox[i + 1] = <<"register", record, m>>
  BY <1>1, <1>2
<1>3. Alternate'
  <2>1. SUFFICES ASSUME record # 0
                 PROVE  /\ Len(clients') <= 1
                        /\ \A i \in 1..Len(inbox') : \A m :
                             inbox'[i] = <<"register", record, m>> =>
                               /\ \A c \in Range(clients') :
                                    Between(inbox', 0, i, <<"unregister", record, c>>)
                               /\ \A k \in 1..(i - 1) : \A l :
                                    inbox'[k] = <<"register", record, l>> =>
                                      Between(inbox', k, i, <<"unregister", record, l>>)
    BY DEF Alternate, Register, Unregister
  <2>2. ASSUME NEW i \in 1..Len(inbox'), NEW m, inbox'[i] = <<"register", record, m>>
        PROVE  /\ \A c \in Range(clients') :
                    Between(inbox', 0, i, <<"unregister", record, c>>)
               /\ \A k \in 1..(i - 1) : \A l :
                    inbox'[k] = <<"register", record, l>> =>
                      Between(inbox', k, i, <<"unregister", record, l>>)
    <3>1. /\ i \in 1..(Len(inbox) - 1) /\ i + 1 \in 1..Len(inbox)
          /\ inbox[i + 1] = <<"register", record, m>>
      BY <1>2, <2>2
    <3>2. ASSUME NEW c \in Range(clients')
          PROVE  Between(inbox', 0, i, <<"unregister", record, c>>)
      <4>1. c \in Range(clients) /\ inbox[1] # <<"unregister", record, c>>
        BY DEF Unregister
      <4>2. Between(inbox, 0, i + 1, <<"unregister", record, c>>)
        BY <2>1, <3>1, <4>1 DEF Alternate, Register, Unregister
      <4>3. Between(inbox, 1, i + 1, <<"unregister", record, c>>)
        BY <3>1, <4>1, <4>2, StillBetween
      <4>4. 0 \in 0..(Len(inbox) - 1) /\ 0 + 1 = 1
        BY <1>1
      <4>5. QED
        BY <1>1, <3>1, <4>3, <4>4
    <3>3. ASSUME NEW k \in 1..(i - 1), NEW l, inbox'[k] = <<"register", record, l>>
          PROVE  Between(inbox', k, i, <<"unregister", record, l>>)
      <4>1. k \in 1..Len(inbox') /\ k \in 0..(Len(inbox) - 1)
            /\ k + 1 \in 1..((i + 1) - 1)
        BY <1>1, <3>1
      <4>2. inbox[k + 1] = <<"register", record, l>>
        BY <1>2, <3>3, <4>1
      <4>3. Between(inbox, k + 1, i + 1, <<"unregister", record, l>>)
        BY <2>1, <3>1, <4>1, <4>2 DEF Alternate, Register, Unregister
      <4>4. QED
        BY <1>1, <3>1, <4>1, <4>3
    <3>4. QED
      BY <3>2, <3>3
  <2>3. QED
    BY <2>1, <2>2 DEF Alternate
<1>4. AllGivenUp'
  <2>1. SUFFICES ASSUME record # 0
                 PROVE  /\ \A c \in Range(clients') :
                             Held(c)' \/ After(inbox', 0, <<"unregister", record, c>>)
                        /\ \A k \in 1..Len(inbox') : \A m :
                             inbox'[k] = <<"register", record, m>> =>
                               Held(m)' \/ After(inbox', k, <<"unregister", record, m>>)
    BY DEF AllGivenUp, Register, Unregister
  <2>2. ASSUME NEW c \in Range(clients')
        PROVE  Held(c)' \/ After(inbox', 0, <<"unregister", record, c>>)
    <3>1. Held(c) \/ After(inbox, 0, <<"unregister", record, c>>)
      BY <2>1 DEF AllGivenUp, Unregister
    <3>2. inbox[1] # <<"unregister", record, c>>
      BY DEF Unregister
    <3>3. QED
      BY <1>1, <3>1, <3>2
  <2>3. ASSUME NEW k \in 1..Len(inbox'), NEW m, inbox'[k] = <<"register", record, m>>
        PROVE  Held(m)' \/ After(inbox', k, <<"unregister", record, m>>)
    <3>1. /\ k \in 1..(Len(inbox) - 1) /\ k + 1 \in 1..Len(inbox)
          /\ inbox[k + 1] = <<"register", record, m>>
      BY <1>2, <2>3
    <3>2. Held(m) \/ After(inbox, k + 1, <<"unregister", record, m>>)
      BY <2>1, <3>1 DEF AllGivenUp, Register, Unregister
    <3>3. k \in 0..(Len(inbox) - 1)
      BY <1>1, <3>1
    <3>4. QED
      BY <1>1, <3>2, <3>3
  <2>4. QED
    BY <2>2, <2>3
<1>5. QED
  BY <1>3, <1>4

\* A connection is given up, and another instance may come on screen.
LEMMA DropTimely ==
  ASSUME Bounds, TypeOK, TypeOK', Core, Timely, NEW a \in Activities, OnDestroy(a),
         UNCHANGED services, OwnDelayed',
         \/ screen' = screen
         \/ a = screen /\ screen' \in Activities /\ dispatcher[screen'].id = 0
  PROVE  Timely'
<1>1. /\ inbox' \in Seq(Messages) /\ inbox \in Seq(Messages)
      /\ Moved(inbox, 0, GivenUp, inbox')
  BY GivenUpPosted DEF OnDestroy
<1>2. Kept(inbox, GivenUp, inbox')
  BY <1>1, Behind
<1>3. /\ ~isBound' /\ dispatcher' \in [Activities -> [id : Numbers, has : Objects]]
      /\ dispatcher'[a] = Unbound /\ \A c \in Activities \ {a} : dispatcher'[c] = dispatcher[c]
      /\ conns' \subseteq conns
      /\ UNCHANGED <<service, messenger, owner, record, clients>>
  BY DEF OnDestroy, TypeOK, services, Dropped, Without
<1>4. Alternate' /\ AllGivenUp'
  <2>1. \A m \in GivenUp : m[1] # "register"
    BY DEF GivenUp
  <2>2. \A m : Held(m) => Unregister(m) \in GivenUp
    BY DEF Core, BoundHeard, Held, Unregister, GivenUp
  <2>3. QED
    BY <1>2, <1>3, <2>1, <2>2, PostedKeepsOrder DEF Timely
<1>5. OneHearer'
  <2>1. SUFFICES ASSUME NEW c \in Activities, c # screen', <<dispatcher'[c].id, record>> \in conns'
                 PROVE  dispatcher'[c].has = record
    BY <1>3 DEF OneHearer
  <2>2. dispatcher'[c].id # 0
    BY <1>3, <2>1 DEF Core, ConnsLive
  <2>3. c # a
    BY <1>3, <2>2 DEF Unbound
  <2>4. QED
    BY <1>3, <2>1, <2>3 DEF Timely, OneHearer
<1>6. HearerUnbound'
  BY <1>3 DEF HearerUnbound
<1>7. Owned'
  <2>1. SUFFICES ASSUME screen' # 0, dispatcher'[screen'].id # 0
                 PROVE  messenger # 0 /\ owner[messenger] = screen'
    BY <1>3 DEF Owned
  <2>2. screen' \in Activities
    BY <2>1 DEF TypeOK, Activities, Bounds
  <2>3. screen' # a /\ dispatcher[screen'].id # 0
    BY <1>3, <2>1, <2>2 DEF Unbound
  <2>4. QED
    BY <2>1, <2>3 DEF Timely, Owned
<1>8. QED
  BY <1>4, <1>5, <1>6, <1>7 DEF Timely

\* Instances come, and go when every message has been handled.
LEMMA QuietTimely ==
  ASSUME Bounds, TypeOK, TypeOK', Core, Timely, OwnDelayed',
         UNCHANGED <<inbox, service, messenger, isBound, owner, bindings, services>>,
         \/ screen' = screen
         \/ screen' = 0 /\ inbox = <<>>
         \/ screen = 0 /\ screen' \in Activities /\ dispatcher[screen'].id = 0
  PROVE  Timely'
<1>1. HearerUnbound' /\ Alternate' /\ AllGivenUp'
  BY DEF Timely, HearerUnbound, Alternate, AllGivenUp, Held, Register, Unregister,
     bindings,
     services
<1>2. OneHearer'
  <2>1. SUFFICES ASSUME NEW c \in Activities, c # screen', <<dispatcher[c].id, record>> \in conns
                 PROVE  dispatcher[c].has = record
    BY DEF OneHearer, bindings, services
  <2>2. record # 0
    BY <2>1 DEF Core, ConnsLive
  <2>3. CASE screen' = screen
    BY <2>1, <2>3 DEF Timely, OneHearer
  <2>4. CASE inbox = <<>>
    <3>1. \A m : ~After(inbox, 0, m)
      BY <2>4 DEF After, Between
    <3>2. QED
      BY <2>1, <2>2, <3>1 DEF Core, Pending
  <2>5. CASE screen = 0
    <3>1. c # screen
      BY <2>5 DEF Activities
    <3>2. QED
      BY <2>1, <3>1 DEF Timely, OneHearer
  <2>6. QED
    BY <2>3, <2>4, <2>5
<1>3. Owned'
  BY DEF Timely, Owned, bindings
<1>4. QED
  BY <1>1, <1>2, <1>3 DEF Timely

\* The instance on screen binds.
LEMMA BindTimely ==
  ASSUME Bounds, TypeOK, TypeOK', Core, Timely, screen \in Activities, NEW n \in Objects \ {0},
         BindService(screen, n),
         \/ n = record /\ UNCHANGED services
         \/ record = 0 /\ n = objects + 1 /\ objects' = n /\ record' = n /\ clients' = <<>>,
         screen' = screen, OwnDelayed'
  PROVE  Timely'
<1> DEFINE new == isBound \/ dispatcher[screen].id = 0
           d == IF new THEN messenger + 1 ELSE dispatcher[screen].id
           T == GivenUp \cup {<<"bind", n>>}
<1>1. /\ inbox' \in Seq(Messages) /\ inbox \in Seq(Messages) /\ Moved(inbox, 0, T, inbox')
  <2>1. inbox \in Seq(Messages)
    BY DEF TypeOK, Messages
  <2>2. QED
    BY <2>1, BindPosted DEF BindService
<1>2. Kept(inbox, T, inbox')
  <2> HIDE DEF T
  <2>1. QED
    BY <1>1, Behind
<1>3. /\ ~isBound' /\ service' = service /\ messenger' = messenger + 1 /\ record' = n
      /\ owner' = Append(owner, screen)
      /\ \A c \in Activities \ {screen} : dispatcher'[c] = dispatcher[c]
      /\ conns' \subseteq conns \cup {<<d, n>>}
  BY DEF BindService, TypeOK, services, Without
<1>4. /\ messenger \in Nat /\ objects \in Nat /\ n \in Nat
      /\ dispatcher \in [Activities -> [id : Numbers, has : Objects]]
  BY DEF Bounds, TypeOK, Objects, Numbers
<1>5. Alternate' /\ AllGivenUp'
  <2>1. \A m \in T : m[1] # "register"
    BY DEF GivenUp
  <2>2. CASE n = record /\ UNCHANGED services
    <3>1. \A m : Held(m) => Unregister(m) \in T
      BY DEF Core, BoundHeard, Held, Unregister, GivenUp
    <3>2. UNCHANGED <<record, clients>>
      BY <2>2 DEF services
    <3> HIDE DEF T
    <3>3. QED
      BY <1>2, <2>1, <3>1, <3>2, PostedKeepsOrder DEF Timely
  <2>3. CASE n = objects + 1 /\ record' = n /\ clients' = <<>>
    <3> HIDE DEF T
    <3>1. \A i \in 1..Len(inbox') : \A m : inbox'[i] # <<"register", n, m>>
      <4>1. SUFFICES ASSUME NEW i \in 1..Len(inbox'), NEW m, inbox'[i] = <<"register", n, m>>
                     PROVE  FALSE
        OBVIOUS
      <4>2. i \in 1..Len(inbox) /\ inbox[i] = <<"register", n, m>>
        BY <1>2, <2>1, <4>1 DEF Kept
      <4>3. n \in 1..objects
        BY <4>2 DEF Core, QueueNumbered, OfSome
      <4>4. QED
        BY <1>4, <2>3, <4>3
    <3>2. Range(clients') = {} /\ Len(clients') = 0
      BY <2>3 DEF Range
    <3>3. QED
      BY <2>3, <3>1, <3>2 DEF Alternate, AllGivenUp, Register
  <2>4. QED
    BY <2>2, <2>3
<1> HIDE DEF T
<1>6. OneHearer'
  <2>1. SUFFICES ASSUME NEW c \in Activities, c # screen, <<dispatcher'[c].id, n>> \in conns'
                 PROVE  dispatcher'[c].has = n
    BY <1>3 DEF OneHearer
  <2>2. dispatcher'[c] = dispatcher[c]
    BY <1>3, <2>1
  <2>3. dispatcher[c].id # d
    BY <1>4, <2>1 DEF Core, Numbered
  <2>4. <<dispatcher[c].id, n>> \in conns
    BY <1>3, <2>1, <2>2, <2>3
  <2>5. record = n
    BY <2>4 DEF Core, ConnsLive
  <2>6. QED
    BY <2>1, <2>2, <2>4, <2>5 DEF Timely, OneHearer
<1>7. HearerUnbound'
  BY <1>3 DEF HearerUnbound
<1>8. Owned'
  <2>1. owner \in Seq(Activities) /\ Len(owner) = messenger
    <3>1. owner \in [1..messenger -> Activities] /\ messenger \in Nat
      BY <1>4 DEF TypeOK
    <3>2. QED
      BY ONLY <3>1
  <2>2. owner'[messenger + 1] = screen
    BY <1>3, <2>1
  <2>3. QED
    BY <1>3, <1>4, <2>2 DEF Owned
<1>9. QED
  BY <1>5, <1>6, <1>7, <1>8 DEF Timely

\* The service stops.
LEMMA StopTimely ==
  ASSUME TypeOK, Timely, conns' = {}, record' = 0,
         UNCHANGED <<screen, delayed, messenger, owner>>,
         \A a \in Activities : dispatcher'[a].id \in {0, dispatcher[a].id},
         screen # 0 => screen \in Activities
  PROVE  Timely'
<1>1. OwnDelayed' /\ OneHearer' /\ HearerUnbound' /\ Alternate' /\ AllGivenUp'
  BY DEF Timely, OwnDelayed, OneHearer, HearerUnbound, Alternate, AllGivenUp
<1>2. Owned'
  BY DEF Timely, Owned
<1>3. QED
  BY <1>1, <1>2 DEF Timely

\* A message is taken that changes nothing but the list of the service.
LEMMA TakenTimely ==
  ASSUME Timely, Alternate', AllGivenUp',
         UNCHANGED <<screen, delayed, service, messenger, isBound, owner, dispatcher, conns,
                     record>>
  PROVE  Timely'
<1>1. OwnDelayed' /\ OneHearer' /\ HearerUnbound' /\ Owned'
  BY DEF Timely, OwnDelayed, OneHearer, HearerUnbound, Owned
<1>2. QED
  BY <1>1 DEF Timely

LEMMA NotHeardTimely ==
  ASSUME Bounds, TypeOK, Core, Timely, NotHeard
  PROVE  Timely'
<1>1. /\ inbox # <<>> /\ inbox[1][1] = "connected"
      /\ inbox \in Seq(Messages) /\ inbox' \in Seq(Messages) /\ Moved(inbox, 1, {}, inbox')
  BY HeadIs DEF NotHeard, Handles
<1>2. Shifted(inbox, {}, inbox')
  BY <1>1, Ahead
<1>3. UNCHANGED <<screen, delayed, service, messenger, isBound, owner, dispatcher, conns,
                  record, clients>>
  BY DEF NotHeard, screens, statics, bindings, services
<1>4. \A m : Held(m) => Held(m)'
  BY <1>3 DEF Held
<1>5. \A m : inbox[1] # Register(m) /\ inbox[1] # Unregister(m)
  BY <1>1 DEF Register, Unregister
<1>6. Alternate' /\ AllGivenUp'
  BY <1>2, <1>3, <1>4, <1>5, TakenKeepsOrder DEF Timely
<1>7. QED
  BY <1>3, <1>6, TakenTimely

LEMMA HandleBindTimely ==
  ASSUME Bounds, TypeOK, TypeOK', Core, Timely, HandleBind
  PROVE  Timely'
<1> DEFINE n == inbox[1][2]
           T == {<<"connected", c[1], n>> : c \in {c \in conns : c[2] = n}}
<1>1. /\ inbox # <<>> /\ inbox[1][1] = "bind" /\ inbox \in Seq(Messages)
      /\ inbox' \in Seq(Messages)
  <2>1. inbox' \in Seq(Messages)
    BY DEF TypeOK, Messages
  <2>2. QED
    BY <2>1, HeadIs DEF HandleBind, Handles
<1>2. Moved(inbox, 1, T, inbox')
  BY HandleBindPosted
<1>3. \A m \in T : m[1] # "register"
  OBVIOUS
<1> HIDE DEF T
<1>4. Shifted(inbox, T, inbox')
  BY <1>1, <1>2, Ahead
<1>5. UNCHANGED <<screen, delayed, service, messenger, isBound, owner, dispatcher, conns,
                  record, clients>>
  BY DEF HandleBind, screens, statics, bindings, services
<1>6. \A m : Held(m) => Held(m)'
  BY <1>5 DEF Held
<1>7. \A m : inbox[1] # Register(m) /\ inbox[1] # Unregister(m)
  BY <1>1 DEF Register, Unregister
<1>8. Alternate' /\ AllGivenUp'
  BY <1>3, <1>4, <1>5, <1>6, <1>7, TakenKeepsOrder DEF Timely
<1>9. QED
  BY <1>5, <1>8, TakenTimely

LEMMA UnregisterTimely ==
  ASSUME Bounds, TypeOK, Core, Timely, HandleUnregister
  PROVE  Timely'
<1> DEFINE e == inbox[1][3]
<1>1. /\ inbox # <<>> /\ inbox[1][1] = "unregister" /\ Head(inbox) = inbox[1]
      /\ inbox[1] = <<"unregister", inbox[1][2], e>> /\ inbox[1][2] # 0
      /\ inbox \in Seq(Messages) /\ inbox' \in Seq(Messages) /\ Moved(inbox, 1, {}, inbox')
  BY HeadIs DEF HandleUnregister, Handles, OfSome
<1>2. Shifted(inbox, {}, inbox')
  BY <1>1, Ahead
<1>3. UNCHANGED <<screen, delayed, service, messenger, isBound, owner, dispatcher, conns,
                  record>>
  BY DEF HandleUnregister, screens, statics, bindings
<1>4. \A m : Held(m) => Held(m)'
  BY <1>3 DEF Held
<1>5. \A m : inbox[1] # Register(m)
  BY <1>1 DEF Register
<1>6. Alternate' /\ AllGivenUp'
  <2>1. CASE inbox[1][2] # record
    <3>1. clients' = clients
      BY <1>1, <2>1 DEF HandleUnregister
    <3>2. \A m : inbox[1] # Unregister(m)
      BY <1>1, <2>1 DEF Unregister
    <3>3. QED
      BY <1>2, <1>3, <1>4, <1>5, <3>1, <3>2, TakenKeepsOrder DEF Timely
  <2>2. CASE inbox[1][2] = record
    <3>1. clients' = RemoveFirst(clients, e) /\ clients \in Seq(Numbers)
      BY <1>1, <2>2 DEF HandleUnregister, Unregistered, TypeOK
    <3>2. Len(clients) <= 1 /\ Len(clients) \in Nat
      BY <1>1, <2>2, <3>1, LenProperties DEF Timely, Alternate
    <3> HIDE DEF e
    <3>3. /\ clients' \in Seq(Numbers) /\ Len(clients') <= Len(clients)
          /\ Range(clients') \subseteq Range(clients) /\ e \notin Range(clients')
      BY <3>1, <3>2, UnregisteredIs
    <3>4. \A c \in Range(clients') : c \in Range(clients) /\ inbox[1] # Unregister(c)
      BY <1>1, <3>3 DEF Unregister
    <3>5. Len(clients') <= 1
      <4>1. Len(clients') \in Nat
        BY <3>3, LenProperties
      <4>2. QED
        BY <3>2, <3>3, <4>1
    <3>6. QED
      BY <1>2, <1>3, <1>4, <1>5, <3>4, <3>5, TakenKeepsOrder DEF Timely
  <2>3. QED
    BY <2>1, <2>2
<1>7. QED
  BY <1>3, <1>6, TakenTimely

LEMMA RegisterTimely ==
  ASSUME Bounds, TypeOK, Core, Timely, HandleRegister
  PROVE  Timely'
<1> DEFINE e == inbox[1][3]
<1>1. /\ inbox # <<>> /\ inbox[1][1] = "register" /\ Head(inbox) = inbox[1]
      /\ inbox[1] = <<"register", inbox[1][2], e>> /\ inbox[1][2] # 0
      /\ inbox \in Seq(Messages) /\ inbox' \in Seq(Messages) /\ Moved(inbox, 1, {}, inbox')
  BY HeadIs DEF HandleRegister, Handles, OfSome
<1>2. Shifted(inbox, {}, inbox')
  BY <1>1, Ahead
<1>3. UNCHANGED <<screen, delayed, service, messenger, isBound, owner, dispatcher, conns,
                  record>>
  BY DEF HandleRegister, screens, statics, bindings
<1>4. \A m : Held(m) <=> Held(m)'
  BY <1>3 DEF Held
<1>5. Alternate' /\ AllGivenUp'
  <2>1. CASE inbox[1][2] # record
    <3>1. clients' = clients
      BY <1>1, <2>1 DEF HandleRegister
    <3>2. \A m : inbox[1] # Unregister(m) /\ inbox[1] # Register(m)
      BY <1>1, <2>1 DEF Unregister, Register
    <3>3. QED
      BY <1>2, <1>3, <1>4, <3>1, <3>2, TakenKeepsOrder DEF Timely
  <2>2. CASE inbox[1][2] = record
    <3>1. clients' = Append(clients, e) /\ clients \in Seq(Numbers) /\ e \in Numbers
      <4>1. inbox[1] \in Messages
        BY <1>1, Taken
      <4>2. e \in Numbers
        BY <1>1, <4>1 DEF Messages
      <4>3. QED
        BY <1>1, <2>2, <4>2 DEF HandleRegister, Registered, TypeOK
    <3>2. record # 0 /\ inbox[1] = Register(e)
      BY <1>1, <2>2 DEF Register
    <3> HIDE DEF e
    <3>3. Len(inbox) \in Nat /\ Len(inbox) > 0 /\ 1 \in 1..Len(inbox)
      BY <1>2 DEF Shifted
    <3>4. Range(clients) = {}
      <4>1. \A c \in Range(clients) : Between(inbox, 0, 1, Unregister(c))
        BY <3>2, <3>3 DEF Timely, Alternate
      <4>2. QED
        BY <4>1 DEF Between
    <3>5. Len(clients) = 0
      <4>1. clients \in Seq(Numbers)
        BY <3>1
      <4>2. Range(clients) = {clients[i] : i \in 1..Len(clients)} /\ Len(clients) \in Nat
        BY ONLY <4>1, RangeEquality, LenProperties
      <4>3. ASSUME Len(clients) > 0
            PROVE  FALSE
        <5>1. 1 \in 1..Len(clients)
          BY <4>2, <4>3
        <5>2. clients[1] \in Range(clients)
          BY <4>2, <5>1
        <5>3. QED
          BY <3>4, <5>2
      <4>4. QED
        BY <4>2, <4>3
    <3>6. Len(clients') = 1 /\ Range(clients') = {e}
      <4>1. /\ clients' \in Seq(Numbers) /\ Len(clients') = 1 /\ clients'[1] = e
        BY <3>1, <3>5
      <4>2. Range(clients') = {clients'[i] : i \in 1..Len(clients')}
        BY ONLY <4>1, RangeEquality
      <4>3. QED
        BY <4>1, <4>2
    <3>7. /\ \A i \in 1..Len(inbox') : \A m : inbox'[i] = <<"register", record, m>> =>
                /\ i \in 1..(Len(inbox) - 1) /\ i + 1 \in 1..Len(inbox)
                /\ inbox[i + 1] = <<"register", record, m>>
          /\ \A k \in 0..(Len(inbox) - 1), i \in 1..(Len(inbox) - 1) : \A m :
               Between(inbox, k + 1, i + 1, m) => Between(inbox', k, i, m)
          /\ \A k \in 0..(Len(inbox) - 1) : \A m : After(inbox, k + 1, m) => After(inbox', k, m)
          /\ \A m : After(inbox, 1, m) => After(inbox', 0, m)
      BY <1>2 DEF Shifted
    <3>8. ASSUME NEW i \in 1..Len(inbox'), NEW m, inbox'[i] = <<"register", record, m>>
          PROVE  /\ Between(inbox', 0, i, <<"unregister", record, e>>)
                 /\ \A k \in 1..(i - 1) : \A l : inbox'[k] = <<"register", record, l>> =>
                      Between(inbox', k, i, <<"unregister", record, l>>)
      <4>1. /\ i \in 1..(Len(inbox) - 1) /\ i + 1 \in 1..Len(inbox)
            /\ inbox[i + 1] = <<"register", record, m>>
        BY <3>7, <3>8
      <4>2. \A k \in 1..((i + 1) - 1) : \A l : inbox[k] = <<"register", record, l>> =>
              Between(inbox, k, i + 1, <<"unregister", record, l>>)
        BY <3>2, <4>1 DEF Timely, Alternate, Register, Unregister
      <4>3. Between(inbox, 1, i + 1, <<"unregister", record, e>>)
        BY <3>2, <4>1, <4>2 DEF Register
      <4>4. 0 \in 0..(Len(inbox) - 1) /\ 0 + 1 = 1
        BY <3>3
      <4>5. Between(inbox', 0, i, <<"unregister", record, e>>)
        BY <3>7, <4>1, <4>3, <4>4
      <4>6. ASSUME NEW k \in 1..(i - 1), NEW l, inbox'[k] = <<"register", record, l>>
            PROVE  Between(inbox', k, i, <<"unregister", record, l>>)
        <5>1. k \in 1..Len(inbox') /\ k \in 0..(Len(inbox) - 1) /\ k + 1 \in 1..((i + 1) - 1)
          BY <3>3, <4>1
        <5>2. inbox[k + 1] = <<"register", record, l>>
          BY <3>7, <4>6, <5>1
        <5>3. Between(inbox, k + 1, i + 1, <<"unregister", record, l>>)
          BY <4>2, <5>1, <5>2
        <5>4. QED
          BY <3>7, <4>1, <5>1, <5>3
      <4>7. QED
        BY <4>5, <4>6
    <3>9. Alternate'
      BY <1>3, <3>6, <3>8 DEF Alternate, Register, Unregister
    <3>10. Held(e) \/ After(inbox, 1, <<"unregister", record, e>>)
      BY <3>2, <3>3 DEF Timely, AllGivenUp, Unregister
    <3>11. ASSUME NEW k \in 1..Len(inbox'), NEW m, inbox'[k] = <<"register", record, m>>
           PROVE  Held(m)' \/ After(inbox', k, <<"unregister", record, m>>)
      <4>1. /\ k \in 1..(Len(inbox) - 1) /\ k + 1 \in 1..Len(inbox)
            /\ inbox[k + 1] = <<"register", record, m>>
        BY <3>7, <3>11
      <4>2. Held(m) \/ After(inbox, k + 1, <<"unregister", record, m>>)
        BY <3>2, <4>1 DEF Timely, AllGivenUp, Register, Unregister
      <4>3. k \in 0..(Len(inbox) - 1)
        BY <3>3, <4>1
      <4>4. QED
        BY <1>4, <3>7, <4>2, <4>3
    <3>12. \A c \in Range(clients') : Held(c)' \/ After(inbox', 0, <<"unregister", record, c>>)
      BY <1>4, <3>6, <3>7, <3>10
    <3>13. AllGivenUp'
      BY <1>3, <3>11, <3>12 DEF AllGivenUp, Register, Unregister
    <3>14. QED
      BY <3>9, <3>13
  <2>3. QED
    BY <2>1, <2>2
<1>6. QED
  BY <1>3, <1>5, TakenTimely

\* If an instance has the service that runs, that is what others hear of.
LEMMA HeardRuns ==
  ASSUME Bounds, TypeOK, Core, Handles("connected"), Listeners # {}, record # 0,
         NEW c \in Activities, dispatcher[c].has = record
  PROVE  inbox[1][3] = record
<1>1. PICK a \in Listeners : TRUE
  OBVIOUS
<1>2. /\ inbox # <<>> /\ inbox \in Seq(Messages) /\ inbox[1] = Up(a, inbox[1][3])
      /\ inbox[1][3] # 0 =>
           <<dispatcher[a].id, inbox[1][3]>> \in conns \/ After(inbox, 1, Down(a))
  BY ListenerIs
<1>3. Len(inbox) \in Nat
  BY <1>2, LenProperties
<1>4. NoZero(inbox, 0)
  BY DEF Core, ZeroFirst
<1>5. NoZero(inbox, 1) /\ ~IsZero(inbox[1])
  BY <1>2, <1>4, NotTheFirst
<1>6. ~After(inbox, 1, <<"connected", dispatcher[a].id, 0>>)
  BY <1>3, <1>5, ZeroIsZero
<1>7. inbox[1][3] # 0
  BY <1>2, <1>5 DEF IsZero, Up
<1>8. QED
  BY <1>2, <1>6, <1>7 DEF Core, ConnsLive, Up, Down

LEMMA ConnectedTimely ==
  ASSUME Bounds, TypeOK, TypeOK', Core, Timely, OnServiceConnected
  PROVE  Timely'
<1> DEFINE n == inbox[1][3]
           e == <<"register", n, messenger>>
<1>1. /\ Handles("connected") /\ inbox # <<>> /\ Head(inbox) = inbox[1]
      /\ inbox[1][1] = "connected" /\ 1 \in 1..Len(inbox) /\ Len(inbox) \in Nat
      /\ inbox \in Seq(Messages) /\ inbox' \in Seq(Messages)
  <2>1. inbox' \in Seq(Messages)
    BY DEF TypeOK, Messages
  <2>2. QED
    BY <2>1, HeadIs, LenProperties DEF OnServiceConnected, Handles
<1>2. PICK a \in Listeners :
        /\ n # 0 /\ service' = n /\ isBound' = TRUE
        /\ dispatcher' = [dispatcher EXCEPT ![a].has = n]
  BY <1>1 DEF OnServiceConnected
<1>3. UNCHANGED <<screen, delayed, messenger, owner, conns, record, clients>>
  BY DEF OnServiceConnected, screens, services
<1>4. /\ a \in Activities /\ dispatcher[a].has # n
      /\ <<dispatcher[a].id, n>> \in conns \/ After(inbox, 1, <<"connected", dispatcher[a].id, 0>>)
  BY <1>1, <1>2, ListenerIs DEF Up, Down
<1>5. /\ \A c \in Activities : dispatcher'[c].id = dispatcher[c].id
      /\ \A c \in Activities : c # a => dispatcher'[c].has = dispatcher[c].has
      /\ dispatcher'[a].has = n
  BY <1>2, <1>4 DEF TypeOK
<1>6. Moved(inbox, 1, {e}, inbox') /\ Len(inbox') = Len(inbox)
  BY ConnectedPosted
<1> HIDE DEF n
<1>7. \A l : inbox[1] # <<"unregister", record, l>> /\ inbox[1] # <<"register", record, l>>
  BY <1>1
<1> DEFINE T == {e}
<1>8. Shifted(inbox, T, inbox')
  BY <1>1, <1>6, Ahead
<1>9. \A m \in T : m = <<"register", n, messenger>>
  OBVIOUS
<1> HIDE DEF T
<1>10. record # 0 /\ (\E c \in Activities : dispatcher[c].has = record) => n = record
  BY <1>1, <1>2, HeardRuns DEF n
\* If it runs, it is the instance on screen that waited.
<1>11. record # 0 /\ n = record => a = screen /\ ~(isBound /\ service = record)
  <2>1. SUFFICES ASSUME record # 0, n = record
                 PROVE  a = screen /\ ~(isBound /\ service = record)
    OBVIOUS
  <2>2. NoZero(inbox, 1)
    BY <1>1, <2>1 DEF Core, ZeroFirst, n
  <2>3. ~After(inbox, 1, <<"connected", dispatcher[a].id, 0>>)
    BY <1>1, <2>2, ZeroIsZero
  <2>4. <<dispatcher[a].id, record>> \in conns /\ dispatcher[a].has # record
    BY <1>4, <2>1, <2>3
  <2>5. QED
    BY <1>4, <2>4 DEF Timely, OneHearer, HearerUnbound
<1>12. record # 0 => \A m : ~Held(m)
  BY <1>10, <1>11 DEF Core, BoundHeard, Held
<1>13. OneHearer'
  <2>1. SUFFICES ASSUME NEW c \in Activities, c # screen, <<dispatcher[c].id, record>> \in conns
                 PROVE  dispatcher'[c].has = record
    BY <1>3, <1>5 DEF OneHearer
  <2>2. record # 0 /\ dispatcher[c].has = record
    BY <2>1 DEF Core, ConnsLive, Timely, OneHearer
  <2>3. QED
    BY <1>5, <1>10, <2>2
<1>14. HearerUnbound'
  <2>1. SUFFICES ASSUME NEW c \in Activities, <<dispatcher[c].id, record>> \in conns,
                        dispatcher'[c].has # record, n = record
                 PROVE  FALSE
    BY <1>2, <1>3, <1>5 DEF HearerUnbound
  <2>2. record # 0 /\ c # a /\ dispatcher[c].has # record
    BY <1>5, <2>1 DEF Core, ConnsLive
  <2>3. c = screen
    BY <2>1, <2>2 DEF Timely, OneHearer
  <2>4. QED
    BY <1>11, <2>1, <2>2, <2>3
<1>15. /\ Len(inbox) > 0
       /\ \A i \in 1..Len(inbox') : \A m : inbox'[i] = <<"register", record, m>> =>
            \/ /\ i \in 1..(Len(inbox) - 1) /\ i + 1 \in 1..Len(inbox)
               /\ inbox[i + 1] = <<"register", record, m>>
            \/ i = Len(inbox) /\ n = record /\ m = messenger
  <2>1. ASSUME NEW i \in 1..Len(inbox'), NEW m, inbox'[i] = <<"register", record, m>>
        PROVE  \/ /\ i \in 1..(Len(inbox) - 1) /\ i + 1 \in 1..Len(inbox)
                  /\ inbox[i + 1] = <<"register", record, m>>
               \/ i = Len(inbox) /\ n = record /\ m = messenger
    <3>1. CASE i \in 1..(Len(inbox) - 1) /\ i + 1 \in 1..Len(inbox) /\ inbox'[i] = inbox[i + 1]
      BY <2>1, <3>1
    <3>2. CASE i \in Len(inbox)..Len(inbox') /\ inbox'[i] \in T
      <4>1. i = Len(inbox)
        BY <1>1, <1>6, <3>2
      <4>2. inbox'[i] = <<"register", n, messenger>>
        BY <1>9, <3>2
      <4>3. QED
        BY <2>1, <4>1, <4>2
    <3>3. QED
      BY <1>8, <3>1, <3>2 DEF Shifted
  <2>2. QED
    BY <1>1, <2>1
<1>16. /\ \A k \in 0..(Len(inbox) - 1), i \in 1..(Len(inbox) - 1) : \A m :
            Between(inbox, k + 1, i + 1, m) => Between(inbox', k, i, m)
       /\ \A k \in 0..(Len(inbox) - 1) : \A m :
            After(inbox, k + 1, m) => Between(inbox', k, Len(inbox), m)
       /\ \A k \in 0..(Len(inbox) - 1) : \A m : After(inbox, k + 1, m) => After(inbox', k, m)
       /\ \A m : After(inbox, 0, m) => inbox[1] = m \/ After(inbox', 0, m)
  <2>1. Len(inbox) \in Len(inbox)..Len(inbox')
    BY <1>1, <1>6
  <2>2. QED
    BY <1>8, <2>1 DEF Shifted
<1>17. ASSUME record # 0
       PROVE  /\ \A c \in Range(clients) : After(inbox, 0, <<"unregister", record, c>>)
              /\ \A k \in 1..Len(inbox) : \A m : inbox[k] = <<"register", record, m>> =>
                   After(inbox, k, <<"unregister", record, m>>)
  BY <1>12, <1>17 DEF Timely, AllGivenUp, Register, Unregister
<1>18. ASSUME record # 0, NEW i \in 1..Len(inbox'), NEW m, inbox'[i] = <<"register", record, m>>
       PROVE  \A c \in Range(clients) : Between(inbox', 0, i, <<"unregister", record, c>>)
  <2> SUFFICES ASSUME NEW c \in Range(clients)
               PROVE  Between(inbox', 0, i, <<"unregister", record, c>>)
    OBVIOUS
  <2>1. 0 \in 0..(Len(inbox) - 1) /\ 0 + 1 = 1 /\ Len(inbox) + 1 \in Nat
    BY <1>1
  <2>2. CASE i \in 1..(Len(inbox) - 1) /\ i + 1 \in 1..Len(inbox)
             /\ inbox[i + 1] = <<"register", record, m>>
    <3>1. Between(inbox, 0, i + 1, <<"unregister", record, c>>)
      BY <1>18, <2>2 DEF Timely, Alternate, Register, Unregister
    <3>2. Between(inbox, 1, i + 1, <<"unregister", record, c>>)
      BY <1>7, <2>2, <3>1, StillBetween
    <3>3. QED
      BY <1>16, <2>1, <2>2, <3>2
  <2>3. CASE i = Len(inbox)
    <3>1. After(inbox, 0, <<"unregister", record, c>>)
      BY <1>17, <1>18
    <3>2. After(inbox, 1, <<"unregister", record, c>>)
      BY <1>7, <2>1, <3>1, StillBetween DEF After
    <3>3. QED
      BY <1>16, <2>1, <2>3, <3>2
  <2>4. QED
    BY <1>15, <1>18, <2>2, <2>3
<1>19. ASSUME record # 0, NEW i \in 1..Len(inbox'), NEW m, inbox'[i] = <<"register", record, m>>,
              NEW k \in 1..(i - 1), NEW l, inbox'[k] = <<"register", record, l>>
       PROVE  Between(inbox', k, i, <<"unregister", record, l>>)
  <2>1. k \in 1..Len(inbox') /\ k # Len(inbox) /\ k \in 0..(Len(inbox) - 1)
    BY <1>1, <1>6
  <2>2. k + 1 \in 1..Len(inbox) /\ inbox[k + 1] = <<"register", record, l>>
    BY <1>15, <1>19, <2>1
  <2>3. CASE i \in 1..(Len(inbox) - 1) /\ i + 1 \in 1..Len(inbox)
             /\ inbox[i + 1] = <<"register", record, m>>
    <3>1. k + 1 \in 1..((i + 1) - 1)
      BY <1>1, <2>3
    <3>2. Between(inbox, k + 1, i + 1, <<"unregister", record, l>>)
      BY <1>19, <2>2, <2>3, <3>1 DEF Timely, Alternate, Register, Unregister
    <3>3. QED
      BY <1>16, <2>1, <2>3, <3>2
  <2>4. CASE i = Len(inbox)
    <3>1. After(inbox, k + 1, <<"unregister", record, l>>)
      BY <1>17, <1>19, <2>2
    <3>2. QED
      BY <1>16, <2>1, <2>4, <3>1
  <2>5. QED
    BY <1>15, <1>19, <2>3, <2>4
<1>20. Alternate'
  <2>1. record # 0 => Len(clients) <= 1
    BY DEF Timely, Alternate
  <2>2. QED
    BY <1>3, <1>18, <1>19, <2>1 DEF Alternate, Register, Unregister
<1>21. AllGivenUp'
  <2>1. ASSUME record # 0, NEW c \in Range(clients)
        PROVE  After(inbox', 0, <<"unregister", record, c>>)
    BY <1>7, <1>16, <1>17, <2>1
  <2>2. ASSUME record # 0, NEW k \in 1..Len(inbox'), NEW m, inbox'[k] = <<"register", record, m>>
        PROVE  Held(m)' \/ After(inbox', k, <<"unregister", record, m>>)
    <3>1. CASE /\ k \in 1..(Len(inbox) - 1) /\ k + 1 \in 1..Len(inbox)
               /\ inbox[k + 1] = <<"register", record, m>>
      <4>1. k \in 0..(Len(inbox) - 1)
        BY <1>1, <3>1
      <4>2. QED
        BY <1>16, <1>17, <2>2, <3>1, <4>1
    <3>2. CASE n = record /\ m = messenger
      BY <1>2, <1>3, <3>2 DEF Held
    <3>3. \/ /\ k \in 1..(Len(inbox) - 1) /\ k + 1 \in 1..Len(inbox)
             /\ inbox[k + 1] = <<"register", record, m>>
          \/ n = record /\ m = messenger
      BY <1>15, <2>2
    <3>4. QED
      BY ONLY <3>1, <3>2, <3>3
  <2>3. QED
    BY <1>3, <2>1, <2>2 DEF AllGivenUp, Register, Unregister
<1>22. OwnDelayed'
  BY <1>3 DEF Timely, OwnDelayed
<1>23. Owned'
  <2>1. screen # 0 => screen \in Activities
    BY DEF TypeOK, Activities, Bounds
  <2>2. QED
    BY <1>3, <1>5, <2>1 DEF Timely, Owned
<1>24. QED
  BY <1>13, <1>14, <1>20, <1>21, <1>22, <1>23 DEF Timely

LEMMA DisconnectedTimely ==
  ASSUME Bounds, TypeOK, TypeOK', Core, Timely, OnServiceDisconnected
  PROVE  Timely'
<1>1. /\ inbox # <<>> /\ Head(inbox) = inbox[1] /\ inbox[1][1] = "connected"
      /\ inbox[1][3] = 0 /\ Handles("connected") /\ IsZero(inbox[1])
      /\ inbox \in Seq(Messages) /\ inbox' \in Seq(Messages) /\ Moved(inbox, 1, {}, inbox')
      /\ service' = 0 /\ ~isBound'
  BY HeadIs DEF OnServiceDisconnected, Handles, IsZero
<1>2. PICK a \in Listeners : dispatcher' = [dispatcher EXCEPT ![a].has = 0]
  BY DEF OnServiceDisconnected
<1>3. UNCHANGED <<screen, delayed, messenger, owner, conns, record, clients>>
  BY DEF OnServiceDisconnected, screens, services
<1>4. Shifted(inbox, {}, inbox')
  BY <1>1, Ahead
<1>5. \A c \in Activities : dispatcher'[c].id = dispatcher[c].id
  BY <1>1, <1>2, ListenerIs DEF TypeOK
<1>6. record # 0 => \A c \in Activities : dispatcher[c].has # record
  <2>1. ~NoZero(inbox, 0)
    BY <1>1, <1>4 DEF Shifted
  <2>2. QED
    BY <2>1 DEF Core, ZeroFirst
<1>7. Alternate' /\ AllGivenUp'
  <2>1. CASE record = 0
    BY <1>3, <2>1 DEF Alternate, AllGivenUp
  <2>2. CASE record # 0
    <3>1. \A m : Held(m) => Held(m)'
      BY <1>6, <2>2 DEF Core, BoundHeard, Held
    <3>2. \A m : inbox[1] # Register(m) /\ inbox[1] # Unregister(m)
      BY <1>1 DEF Register, Unregister
    <3>3. QED
      BY <1>3, <1>4, <3>1, <3>2, TakenKeepsOrder DEF Timely
  <2>3. QED
    BY <2>1, <2>2
<1>8. OneHearer'
  <2>1. SUFFICES ASSUME NEW c \in Activities, c # screen, <<dispatcher[c].id, record>> \in conns
                 PROVE  FALSE
    BY <1>3, <1>5 DEF OneHearer
  <2>2. record # 0 /\ dispatcher[c].has = record
    BY <2>1 DEF Core, ConnsLive, Timely, OneHearer
  <2>3. QED
    BY <1>6, <2>2
<1>9. HearerUnbound'
  BY <1>1 DEF HearerUnbound
<1>10. OwnDelayed'
  BY <1>3 DEF Timely, OwnDelayed
<1>11. Owned'
  <2>1. screen # 0 => screen \in Activities
    BY DEF TypeOK, Activities, Bounds
  <2>2. QED
    BY <1>3, <1>5, <2>1 DEF Timely, Owned
<1>12. QED
  BY <1>7, <1>8, <1>9, <1>10, <1>11 DEF Timely

-----------------------------------------------------------------------------
(* The invariant is one, and what it says at rest.                         *)

LEMMA OwnDelayedTail ==
  ASSUME TypeOK, OwnDelayed, NEW kind, Delayed(kind), screen' = screen
  PROVE  /\ OwnDelayed' /\ Head(delayed)[2] = screen /\ Head(delayed)[2] \in Activities
<1>1. delayed # <<>> /\ delayed' = Tail(delayed)
  BY DEF Delayed
<1>2. QED
  BY <1>1, DelayedIs DEF OwnDelayed

LEMMA OwnDelayedAppend ==
  ASSUME TypeOK, OwnDelayed \/ delayed = <<>>, NEW kind, delayed' = Append(delayed, <<kind, screen'>>),
         screen' = screen \/ delayed = <<>>
  PROVE  OwnDelayed'
<1>1. delayed \in Seq({"resume", "record", "start"} \X Activities)
  BY DEF TypeOK
<1>2. /\ \A i \in 1..Len(delayed) : delayed'[i] = delayed[i]
      /\ Len(delayed') = Len(delayed) + 1 /\ delayed'[Len(delayed) + 1] = <<kind, screen'>>
      /\ Len(delayed) \in Nat
  BY <1>1, AppendProperties, LenProperties
<1>3. ASSUME NEW i \in 1..Len(delayed') PROVE delayed'[i][2] = screen'
  <2>1. CASE i = Len(delayed) + 1
    BY <1>2, <2>1
  <2>2. CASE i # Len(delayed) + 1
    <3>1. i \in 1..Len(delayed)
      BY <1>2, <2>2
    <3>2. delayed # <<>> /\ screen' = screen
      BY <3>1
    <3>3. QED
      BY <1>2, <3>1, <3>2 DEF OwnDelayed
  <2>3. QED
    BY <2>1, <2>2
<1>4. QED
  BY <1>3 DEF OwnDelayed

LEMMA StartTimely ==
  ASSUME Bounds, TypeOK, TypeOK', Core, Timely, screen \in Activities, StartService(screen),
         screen' = screen, OwnDelayed'
  PROVE  Timely'
<1>1. CASE record # 0 /\ BindService(screen, record) /\ UNCHANGED services
  <2>1. record \in Objects \ {0}
    BY <1>1 DEF TypeOK, Bounds, Objects
  <2>2. QED
    BY <1>1, <2>1, BindTimely
<1>2. CASE /\ record = 0 /\ objects < MaxServices
           /\ objects' = objects + 1 /\ record' = objects + 1 /\ clients' = <<>>
           /\ BindService(screen, objects + 1)
  <2>1. objects + 1 \in Objects \ {0}
    BY <1>2 DEF TypeOK, Bounds, Objects
  <2>2. QED
    BY <1>2, <2>1, BindTimely
<1>3. QED
  BY <1>1, <1>2 DEF StartService

\* An instance that was not opened yet has not bound, and nothing is posted when
\* none is on screen.
LEMMA NewInstance ==
  ASSUME Bounds, TypeOK, Core, opened < MaxActivities
  PROVE  /\ opened + 1 \in Activities /\ opened + 1 \in Nat
         /\ dispatcher[opened + 1].id = 0 /\ dispatcher[opened + 1].has = 0
         /\ screen # 0 => screen \in Activities /\ screen # opened + 1
         /\ OwnDelayed /\ screen = 0 => delayed = <<>>
<1>1. /\ opened \in Nat /\ MaxActivities \in Nat /\ screen \in 0..opened
      /\ opened <= MaxActivities
  BY DEF TypeOK, Bounds
<1>2. opened + 1 \in Activities /\ opened + 1 \in Nat
  BY <1>1 DEF Activities
<1>3. screen # 0 => screen \in Activities /\ screen # opened + 1
  BY <1>1 DEF Activities
<1>4. dispatcher[opened + 1].id = 0 /\ dispatcher[opened + 1].has = 0
  BY <1>1, <1>2 DEF Core, Numbered
<1>5. OwnDelayed /\ screen = 0 => delayed = <<>>
  <2>1. SUFFICES ASSUME OwnDelayed, screen = 0, delayed # <<>> PROVE FALSE
    OBVIOUS
  <2>2. 1 \in 1..Len(delayed) /\ delayed[1][2] \in Activities
    BY <2>1, DelayedIs
  <2>3. QED
    BY <2>1, <2>2 DEF OwnDelayed, Activities
<1>6. QED
  BY <1>2, <1>3, <1>4, <1>5

LEMMA TimelyStep ==
  Bounds /\ TypeOK /\ Core /\ (~late => Timely) /\ [Next]_vars => (~late' => Timely')
<1> SUFFICES ASSUME Bounds, TypeOK, Core, ~late => Timely, [Next]_vars, ~late' PROVE Timely'
  OBVIOUS
<1>1. TypeOK' /\ (screen # 0 => screen \in Activities)
  <2>1. TypeOK'
    BY TypesStep
  <2>2. MaxActivities \in Nat /\ opened \in 0..MaxActivities /\ screen \in 0..opened
    BY ONLY TypeOK, Bounds DEF TypeOK, Bounds
  <2>3. screen # 0 => screen \in 1..MaxActivities
    BY ONLY <2>2
  <2>4. QED
    BY <2>1, <2>3 DEF Activities
<1>2. CASE Open
  <2>1. /\ screen = 0 /\ screen' = opened + 1 /\ opened < MaxActivities
        /\ UNCHANGED <<inbox, service, messenger, isBound, owner, bindings, services, late>>
        /\ \E kind \in {"resume", "record"} : delayed' = Append(delayed, <<kind, screen'>>)
    BY <1>2 DEF Open, statics
  <2>2. Timely
    BY <2>1
  <2>3. /\ delayed = <<>> /\ screen' \in Activities /\ dispatcher[screen'].id = 0
    BY <2>1, <2>2, NewInstance DEF Timely
  <2>4. OwnDelayed'
    BY <2>1, <2>3, OwnDelayedAppend
  <2>5. QED
    BY <1>1, <2>1, <2>2, <2>3, <2>4, QuietTimely
<1>3. CASE Finish
  <2>1. /\ screen' = 0 /\ late' = (late \/ ~Settled)
        /\ UNCHANGED <<delayed, inbox, service, messenger, isBound, owner, bindings, services>>
    BY <1>3 DEF Finish, LeftEarly, statics
  <2>2. Timely /\ delayed = <<>> /\ inbox = <<>>
    BY <2>1 DEF Settled
  <2>3. OwnDelayed'
    BY <2>1, <2>2 DEF OwnDelayed
  <2>4. QED
    BY <1>1, <2>1, <2>2, <2>3, QuietTimely
<1>4. CASE Rotate
  <2>1. /\ screen # 0 /\ screen' = opened + 1 /\ opened < MaxActivities
        /\ OnDestroy(screen) /\ delayed' = Append(delayed, <<"resume", screen'>>)
        /\ late' = (late \/ ~Settled) /\ UNCHANGED services
    BY <1>4 DEF Rotate, LeftEarly
  <2>2. Timely /\ delayed = <<>>
    BY <2>1 DEF Settled
  <2>3. /\ screen \in Activities /\ screen' \in Activities /\ dispatcher[screen'].id = 0
    BY <1>1, <2>1, NewInstance
  <2>4. OwnDelayed'
    BY <2>1, <2>2, OwnDelayedAppend
  <2>5. QED
    BY <1>1, <2>1, <2>2, <2>3, <2>4, DropTimely
<1>5. CASE ToggleOn
  <2>1. /\ delayed' = Append(delayed, <<"start", screen'>>) /\ screen' = screen
        /\ UNCHANGED <<late, inbox, service, messenger, isBound, owner, bindings, services>>
    BY <1>5 DEF ToggleOn, screens, statics, history
  <2>2. Timely
    BY <2>1
  <2>3. OwnDelayed'
    BY <2>1, <2>2, OwnDelayedAppend DEF Timely
  <2>4. QED
    BY <1>1, <2>1, <2>2, <2>3, QuietTimely
<1>6. CASE ToggleOff
  <2>1. /\ conns' = {} /\ record' = 0 /\ screen \in Activities
        /\ UNCHANGED <<late, screen, delayed, messenger, owner>>
        /\ dispatcher' = IF isBound THEN Dropped(screen) ELSE dispatcher
    BY <1>1, <1>6 DEF ToggleOff, screens, history
  <2>2. \A a \in Activities : dispatcher'[a].id \in {0, dispatcher[a].id}
    BY <2>1 DEF Dropped, Unbound, TypeOK
  <2>3. QED
    BY <2>1, <2>2, StopTimely
<1>7. CASE ServiceStops
  <2>1. /\ conns' = {} /\ record' = 0
        /\ UNCHANGED <<late, screen, delayed, messenger, owner, dispatcher>>
    BY <1>7 DEF ServiceStops, screens, statics, history
  <2>2. QED
    BY <1>1, <2>1, StopTimely
<1>8. ASSUME NEW a \in Activities, Destroy(a)
      PROVE  Timely'
  <2>1. OnDestroy(a) /\ UNCHANGED <<screen, delayed, services, late>>
    BY <1>8 DEF Destroy, history
  <2>2. OwnDelayed'
    BY <2>1 DEF Timely, OwnDelayed
  <2>3. QED
    BY <1>1, <2>1, <2>2, DropTimely
<1>9. ASSUME NEW kind, Delayed(kind), UNCHANGED <<screens, history>>
      PROVE  /\ Timely /\ OwnDelayed' /\ screen' = screen
             /\ Head(delayed)[2] = screen /\ screen \in Activities
  BY <1>9, OwnDelayedTail DEF screens, history, Timely
<1>10. CASE HandleResume
  <2>1. /\ Timely /\ OwnDelayed' /\ screen' = screen
        /\ Head(delayed)[2] = screen /\ screen \in Activities
    BY <1>9, <1>10 DEF HandleResume
  <2>2. CASE record # 0 /\ BindService(screen, record)
    <3>1. record \in Objects \ {0} /\ UNCHANGED services
      BY <1>10, <2>2 DEF HandleResume, TypeOK, Bounds, Objects
    <3>2. QED
      BY <1>1, <2>1, <2>2, <3>1, BindTimely
  <2>3. CASE UNCHANGED <<inbox, statics, bindings>>
    <3>1. UNCHANGED <<inbox, service, messenger, isBound, owner, bindings, services>>
      BY <1>10, <2>3 DEF HandleResume, statics
    <3>2. QED
      BY <1>1, <2>1, <3>1, QuietTimely
  <2>4. QED
    BY <1>10, <2>1, <2>2, <2>3 DEF HandleResume
<1>11. CASE HandleRecord
  <2>1. /\ Timely /\ OwnDelayed' /\ screen' = screen
        /\ Head(delayed)[2] = screen /\ screen \in Activities
    BY <1>9, <1>11 DEF HandleRecord
  <2>2. CASE UnbindService(screen) /\ UNCHANGED services
    <3>1. CASE isBound
      <4>1. OnDestroy(screen)
        BY <2>2, <3>1 DEF UnbindService, OnDestroy
      <4>2. QED
        BY <1>1, <2>1, <2>2, <4>1, DropTimely
    <3>2. CASE ~isBound
      <4>1. inbox' = inbox
        <5>1. inbox' = inbox \o <<>>
          BY <2>2, <3>2 DEF UnbindService, Unregistering
        <5>2. QED
          BY <5>1 DEF TypeOK
      <4>2. isBound' = isBound
        BY <2>2, <3>2 DEF UnbindService, TypeOK
      <4>3. UNCHANGED <<service, messenger, owner, bindings>>
        BY <2>2, <3>2 DEF UnbindService, bindings
      <4>4. QED
        BY <1>1, <2>1, <2>2, <4>1, <4>2, <4>3, QuietTimely
    <3>3. QED
      BY <3>1, <3>2
  <2>3. CASE StartService(screen)
    BY <1>1, <2>1, <2>3, StartTimely
  <2>4. QED
    BY <1>11, <2>1, <2>2, <2>3 DEF HandleRecord
<1>12. CASE HandleStart
  <2>1. /\ Timely /\ OwnDelayed' /\ screen' = screen
        /\ Head(delayed)[2] = screen /\ screen \in Activities
    BY <1>9, <1>12 DEF HandleStart
  <2>2. StartService(screen)
    BY <1>12, <2>1 DEF HandleStart
  <2>3. QED
    BY <1>1, <2>1, <2>2, StartTimely
<1>13. CASE \/ HandleBind \/ NotHeard \/ OnServiceConnected \/ OnServiceDisconnected
            \/ HandleRegister \/ HandleUnregister
  <2>1. late' = late
    BY <1>13 DEF HandleBind, NotHeard, OnServiceConnected, OnServiceDisconnected,
       HandleRegister, HandleUnregister, history
  <2>2. QED
    BY <1>1, <1>13, <2>1, HandleBindTimely, NotHeardTimely, ConnectedTimely,
       DisconnectedTimely, RegisterTimely, UnregisterTimely
<1>14. CASE UNCHANGED vars
  <2>1. UNCHANGED <<screen, delayed, inbox, service, messenger, isBound, owner, bindings,
                    services, late>>
    BY <1>14 DEF vars, screens, statics, history
  <2>2. OwnDelayed'
    BY <2>1 DEF Timely, OwnDelayed
  <2>3. QED
    BY <1>1, <2>1, <2>2, QuietTimely
<1>15. QED
  BY <1>2, <1>3, <1>4, <1>5, <1>6, <1>7, <1>8, <1>10, <1>11, <1>12, <1>13, <1>14
     DEF Next, Handle

\* The instance on screen binds.
LEMMA BindFed ==
  ASSUME Bounds, TypeOK, Core, Fed, screen \in Activities, NEW n, BindService(screen, n),
         \/ n = record /\ record' = record
         \/ n = objects + 1 /\ record' = n,
         ~late, screen' = screen, record' # 0
  PROVE  dispatcher'[screen].has # record'
<1>1. /\ objects \in Nat /\ \A a \in Activities : dispatcher[a].has \in Nat
      /\ dispatcher[screen].has <= objects
      /\ dispatcher[screen].id = 0 => dispatcher[screen].has = 0
  BY DEF TypeOK, Bounds, Objects, Core, Numbered
<1>2. dispatcher'[screen].has = IF isBound \/ dispatcher[screen].id = 0 THEN 0
                                ELSE dispatcher[screen].has
  BY DEF BindService, TypeOK
<1>3. screen # 0
  BY DEF Activities
<1>4. CASE n = record /\ record' = record
  BY <1>2, <1>3, <1>4 DEF Fed
<1>5. CASE n = objects + 1 /\ record' = n
  <2>1. dispatcher'[screen].has \in {0, dispatcher[screen].has}
    BY <1>2
  <2>2. dispatcher'[screen].has <= objects /\ dispatcher'[screen].has \in Nat
    <3>1. CASE dispatcher'[screen].has = 0
      BY <1>1, <3>1
    <3>2. CASE dispatcher'[screen].has = dispatcher[screen].has
      BY <1>1, <3>2
    <3>3. QED
      BY <2>1, <3>1, <3>2
  <2>3. QED
    BY <1>1, <1>5, <2>2
<1>6. QED
  BY <1>4, <1>5

LEMMA FedStep ==
  Bounds /\ IInv /\ [Next]_vars => (~overlapped' => Fed')
<1> SUFFICES ASSUME Bounds, TypeOK, Core, ~late => Timely, ~overlapped => Fed, [Next]_vars,
                    ~overlapped'
             PROVE  Fed'
  BY DEF IInv
<1>1. (screen # 0 => screen \in Activities)
  BY DEF TypeOK, Activities, Bounds
<1>2. ASSUME UNCHANGED <<screen, finishing, late, record, dispatcher, isBound, service, overlapped>>
      PROVE  Fed'
  BY <1>2 DEF Fed
<1>3. CASE Open
  <2>1. /\ screen' = opened + 1 /\ finishing' = {} /\ opened < MaxActivities
        /\ UNCHANGED <<record, dispatcher>>
    BY <1>3 DEF Open, bindings, services
  <2>2. dispatcher[screen'].has = 0
    BY <2>1, NewInstance
  <2>3. QED
    BY <2>1, <2>2 DEF Fed
<1>4. CASE Finish
  BY <1>4 DEF Finish, Fed
<1>5. CASE Rotate
  <2>1. /\ screen # 0 /\ screen' = opened + 1 /\ finishing' = finishing /\ opened < MaxActivities
        /\ record' = record /\ dispatcher' = Dropped(screen) /\ overlapped' = overlapped
    BY <1>5 DEF Rotate, LeftEarly, OnDestroy, services
  <2>2. dispatcher[screen'].has = 0 /\ screen' \in Activities /\ screen' # screen
    BY <2>1, NewInstance
  <2>3. dispatcher'[screen'].has = 0
    BY <2>1, <2>2 DEF Dropped, TypeOK
  <2>4. QED
    BY <2>1, <2>3 DEF Fed
<1>6. CASE ToggleOn
  BY <1>2, <1>6 DEF ToggleOn, screens, statics, bindings, services, history
<1>7. CASE ToggleOff
  BY <1>7 DEF ToggleOff, screens, history, Fed
<1>8. CASE ServiceStops
  BY <1>8 DEF ServiceStops, screens, history, Fed
<1>9. ASSUME NEW a \in Activities, Destroy(a)
      PROVE  Fed'
  BY <1>9 DEF Destroy, Fed, history
<1>10. ASSUME NEW kind, Delayed(kind), UNCHANGED <<screens, history>>,
              ~late /\ screen # 0 /\ Head(delayed)[2] = screen =>
                \/ record' = 0 \/ dispatcher'[screen].has # record'
                \/ isBound' /\ service' = record'
       PROVE  Fed'
  <2>1. Fed /\ screen' = screen /\ finishing' = finishing /\ late' = late
    BY <1>10 DEF screens, history
  <2>2. ~late => Head(delayed)[2] = screen
    BY <1>10, OwnDelayedTail DEF screens, Timely
  <2>3. QED
    BY <1>10, <2>1, <2>2 DEF Fed
<1>11. CASE HandleResume
  <2>1. Delayed("resume") /\ UNCHANGED <<screens, history>> /\ UNCHANGED services
    BY <1>11 DEF HandleResume
  <2>2. ASSUME ~late, screen # 0, Head(delayed)[2] = screen, record' # 0
        PROVE  dispatcher'[screen].has # record' \/ (isBound' /\ service' = record')
    <3>1. Fed /\ screen' = screen /\ record' = record
      BY <2>1 DEF screens, history, services
    <3>2. CASE BindService(screen, record)
      BY <1>1, <2>2, <3>1, <3>2, BindFed
    <3>3. CASE UNCHANGED <<inbox, statics, bindings>>
      BY <2>2, <3>1, <3>3 DEF statics, bindings, Fed
    <3>4. QED
      BY <1>11, <2>2, <3>2, <3>3 DEF HandleResume
  <2>3. QED
    BY <1>10, <2>1, <2>2
<1>12. ASSUME ~late, screen # 0, StartService(screen), UNCHANGED <<screens, history>>, record' # 0
       PROVE  dispatcher'[screen].has # record'
  <2>1. Fed /\ screen' = screen
    BY <1>12 DEF screens, history
  <2>2. CASE BindService(screen, record) /\ UNCHANGED services
    BY <1>1, <1>12, <2>1, <2>2, BindFed DEF services
  <2>3. CASE record' = objects + 1 /\ BindService(screen, objects + 1)
    BY <1>1, <1>12, <2>1, <2>3, BindFed
  <2>4. QED
    BY <1>12, <2>2, <2>3 DEF StartService
<1>13. CASE HandleRecord
  <2>1. Delayed("record") /\ UNCHANGED <<screens, history>>
    BY <1>13 DEF HandleRecord
  <2>2. ASSUME ~late, screen # 0, Head(delayed)[2] = screen, record' # 0
        PROVE  dispatcher'[screen].has # record' \/ (isBound' /\ service' = record')
    <3>1. CASE UnbindService(screen) /\ UNCHANGED services
      <4>1. Fed /\ screen \in Activities /\ record' = record
        BY <1>1, <2>1, <2>2, <3>1 DEF history, services
      <4>2. CASE isBound
        <5>1. dispatcher'[screen].has = 0
          BY <3>1, <4>1, <4>2 DEF UnbindService, Dropped, Unbound, TypeOK
        <5>2. QED
          BY <2>2, <5>1
      <4>3. CASE ~isBound
        BY <2>2, <3>1, <4>1, <4>3 DEF UnbindService, Fed
      <4>4. QED
        BY <4>2, <4>3
    <3>2. CASE StartService(screen)
      BY <1>12, <2>1, <2>2, <3>2
    <3>3. QED
      BY <1>13, <2>2, <3>1, <3>2 DEF HandleRecord
  <2>3. QED
    BY <1>10, <2>1, <2>2
<1>14. CASE HandleStart
  <2>1. Delayed("start") /\ UNCHANGED <<screens, history>> /\ StartService(Head(delayed)[2])
    BY <1>14 DEF HandleStart
  <2>2. QED
    BY <1>10, <1>12, <2>1
<1>15. CASE HandleBind \/ NotHeard \/ HandleRegister \/ HandleUnregister
  <2>1. UNCHANGED <<screen, finishing, late, record, dispatcher, isBound, service, overlapped>>
    BY <1>15 DEF HandleBind, NotHeard, HandleRegister, HandleUnregister, screens, statics,
       bindings, services, history
  <2>2. QED
    BY <1>2, <2>1
<1>16. CASE OnServiceConnected
  <2>1. /\ Handles("connected") /\ UNCHANGED <<screen, finishing, late, record, overlapped>>
    BY <1>16 DEF OnServiceConnected, screens, services, history
  <2>2. PICK a \in Listeners :
          /\ service' = Head(inbox)[3] /\ isBound' = TRUE
          /\ dispatcher' = [dispatcher EXCEPT ![a].has = Head(inbox)[3]]
    BY <1>16 DEF OnServiceConnected
  <2>3. Head(inbox) = inbox[1] /\ a \in Activities
    BY <2>1, ListenerIs
  <2>4. ASSUME screen # 0, record # 0, dispatcher'[screen].has = record
        PROVE  isBound' /\ service' = record
    <3>1. CASE screen = a
      BY <2>2, <2>3, <2>4, <3>1 DEF TypeOK
    <3>2. CASE screen # a
      <4>1. dispatcher[screen].has = record /\ screen \in Activities
        BY <1>1, <2>2, <2>3, <2>4, <3>2 DEF TypeOK
      <4>2. inbox[1][3] = record
        BY <2>1, <2>2, <2>4, <4>1, HeardRuns
      <4>3. QED
        BY <2>2, <2>3, <4>2
    <3>3. QED
      BY <3>1, <3>2
  <2>5. QED
    BY <2>1, <2>4 DEF Fed
<1>17. CASE OnServiceDisconnected
  <2>1. /\ Handles("connected") /\ UNCHANGED <<screen, finishing, late, record, overlapped>>
        /\ Head(inbox)[3] = 0
    BY <1>17 DEF OnServiceDisconnected, screens, services, history
  <2>2. PICK a \in Listeners : dispatcher' = [dispatcher EXCEPT ![a].has = 0]
    BY <1>17 DEF OnServiceDisconnected
  <2>3. inbox[1][3] = 0 /\ a \in Activities
    BY <2>1, ListenerIs
  <2>4. ASSUME screen # 0, record # 0, dispatcher'[screen].has = record
        PROVE  FALSE
    <3>1. dispatcher[screen].has = record /\ screen \in Activities
      BY <1>1, <2>2, <2>3, <2>4 DEF TypeOK
    <3>2. inbox[1][3] = record
      BY <2>1, <2>2, <2>4, <3>1, HeardRuns
    <3>3. QED
      BY <2>3, <2>4, <3>2
  <2>5. QED
    BY <2>1, <2>4 DEF Fed
<1>18. CASE UNCHANGED vars
  BY <1>2, <1>18 DEF vars, screens, statics, bindings, services, history
<1>19. QED
  BY <1>3, <1>4, <1>5, <1>6, <1>7, <1>8, <1>9, <1>11, <1>13, <1>14, <1>15, <1>16, <1>17,
     <1>18
     DEF Next, Handle

\* The invariant holds at first, and after every step.
LEMMA BindingInit == Bounds /\ Init => IInv
<1> SUFFICES ASSUME Bounds, Init PROVE IInv
  OBVIOUS
<1>1. TypeOK
  <2>1. 0 \in Numbers /\ 0 \in Objects /\ 0 \in 0..MaxActivities
    BY DEF Bounds, Numbers, Objects
  <2>2. dispatcher \in [Activities -> [id : Numbers, has : Objects]]
    BY <2>1 DEF Init, Unbound
  <2>3. owner \in [1..messenger -> Activities]
    <3>1. owner \in Seq(Activities) /\ Len(owner) = 0 /\ messenger = 0
      BY DEF Init
    <3>2. QED
      BY <3>1
  <2>4. /\ delayed \in Seq({"resume", "record", "start"} \X Activities)
        /\ inbox \in Seq(({"bind"} \X Objects)
                     \cup ({"connected"} \X Numbers \X Objects)
                     \cup ({"register", "unregister"} \X Objects \X Numbers))
        /\ clients \in Seq(Numbers)
    BY DEF Init
  <2>5. /\ opened \in 0..MaxActivities /\ screen \in 0..opened /\ finishing \subseteq 1..opened
        /\ service \in Objects /\ messenger \in Numbers /\ isBound \in BOOLEAN
        /\ conns \subseteq Numbers \X Objects
        /\ objects \in Objects /\ record \in {0, objects}
        /\ late \in BOOLEAN /\ overlapped \in BOOLEAN
    <3>1. opened \in 0..MaxActivities /\ screen \in 0..opened
      BY <2>1 DEF Init
    <3>2. finishing \subseteq 1..opened /\ conns \subseteq Numbers \X Objects
      BY DEF Init
    <3>3. service \in Objects /\ messenger \in Numbers /\ objects \in Objects
      BY <2>1 DEF Init
    <3>4. /\ isBound \in BOOLEAN /\ late \in BOOLEAN /\ overlapped \in BOOLEAN
          /\ record \in {0, objects}
      BY DEF Init
    <3>5. QED
      BY <3>1, <3>2, <3>3, <3>4
  <2>6. QED
    BY <2>2, <2>3, <2>4, <2>5 DEF TypeOK
<1>2. \A a \in Activities : dispatcher[a].id = 0 /\ dispatcher[a].has = 0
  BY DEF Init, Unbound
<1>3. Len(inbox) = 0 /\ Len(delayed) = 0 /\ Range(clients) = {} /\ Len(clients) = 0
  BY DEF Init, Range
<1>4. Core
  BY <1>2, <1>3 DEF Init, Core, Numbered, QueueNumbered, ConnsLive, HeardIsTold,
     ToldIsTrue,
     BoundHeard, BoundRegisters, ZeroFirst, Pending, NoClients, Bounds
<1>5. Timely
  BY <1>2, <1>3 DEF Init, Timely, OwnDelayed, OneHearer, HearerUnbound, Alternate,
     AllGivenUp,
     Owned
<1>6. Fed
  BY DEF Init, Fed
<1>7. QED
  BY <1>1, <1>4, <1>5, <1>6 DEF IInv

LEMMA BindingStep == Bounds /\ IInv /\ [Next]_vars => IInv'
BY TypesStep, CoreStep, TimelyStep, FedStep DEF IInv

\* At rest nothing is after anything, so that what was to be has been.
LEMMA BindingSafe == Bounds /\ IInv => RegistrationsAgree
<1> SUFFICES ASSUME Bounds, IInv PROVE RegistrationsAgree
  OBVIOUS
<1>1. TypeOK /\ Core
  BY DEF IInv
<1>2. inbox = <<>> => /\ \A m : ~After(inbox, 0, m)
                     /\ 1..Len(inbox) = {}
  BY DEF After, Between
<1>3. ASSUME inbox = <<>>, isBound
      PROVE  service = record /\ record # 0 /\ messenger \in Range(clients)
  <2>1. PICK a \in Activities : service # 0 /\ dispatcher[a].has = service
    BY <1>1, <1>3 DEF Core, BoundHeard
  <2>2. <<dispatcher[a].id, dispatcher[a].has>> \in conns
    BY <1>1, <1>2, <1>3, <2>1 DEF Core, HeardIsTold
  <2>3. service = record /\ record # 0
    BY <1>1, <2>1, <2>2 DEF Core, ConnsLive
  <2>4. QED
    BY <1>1, <1>2, <1>3, <2>3 DEF Core, BoundRegisters
<1>4. BoundIsRegistered
  BY <1>3 DEF BoundIsRegistered, Settled
<1>5. OneRegistered
  <2>1. SUFFICES ASSUME Timely PROVE Len(clients) <= 1
    BY DEF OneRegistered, IInv
  <2>2. CASE record = 0
    BY <1>1, <2>2 DEF Core, NoClients
  <2>3. CASE record # 0
    BY <2>1, <2>3 DEF Timely, Alternate
  <2>4. QED
    BY <2>2, <2>3
<1>6. NoneForgotten
  <2>1. SUFFICES ASSUME Timely, inbox = <<>>, NEW c \in Range(clients)
                 PROVE  isBound /\ c = messenger
    BY DEF NoneForgotten, IInv, Settled
  <2>2. record # 0
    BY <1>1, <2>1 DEF Core, NoClients, Range
  <2>3. QED
    BY <1>2, <2>1, <2>2 DEF Timely, AllGivenUp, Held
<1>7. ScreenIsFed
  <2>1. SUFFICES ASSUME ~late, Timely, Fed, inbox = <<>>, record # 0, screen # 0,
                        dispatcher[screen].has = record
                 PROVE  \E c \in Range(clients) : owner[c] = screen
    BY DEF ScreenIsFed, IInv, Settled
  <2>2. isBound
    BY <2>1 DEF Fed
  <2>3. messenger \in Range(clients)
    BY <1>3, <2>1, <2>2
  <2>4. screen \in Activities
    BY <1>1, <2>1 DEF TypeOK, Activities, Bounds
  <2>5. dispatcher[screen].id # 0
    BY <1>1, <2>1, <2>4 DEF Core, Numbered
  <2>6. owner[messenger] = screen
    BY <2>1, <2>5 DEF Timely, Owned
  <2>7. QED
    BY <2>3, <2>6
<1>8. QED
  BY <1>4, <1>5, <1>6, <1>7 DEF RegistrationsAgree
=============================================================================
