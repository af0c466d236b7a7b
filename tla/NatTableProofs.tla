---------------------------- MODULE NatTableProofs -----------------------------
(***************************************************************************)
(* Theorems about the nat table under the recorder's scripts and another   *)
(* program, for every application and its ports and any number of scripts, *)
(* failures, edits and packets.                                            *)
(***************************************************************************)
EXTENDS NatTable, SequenceLemmas, FiniteSetTheorems, TLAPS

-----------------------------------------------------------------------------
(* Sums of counters.                                                       *)

\* What a function of the length of a prefix must be to be its sum.
SumsUp(f, w) ==
  /\ f \in [0..Len(w) -> Nat] /\ f[0] = 0
  /\ \A n \in 1..Len(w) : f[n] = f[n - 1] + w[n]

\* There is one for every sequence of numbers.
LEMMA SumsUpExists ==
  ASSUME NEW w \in Seq(Nat)
  PROVE  \E f : SumsUp(f, w)
<1> DEFINE Part(f, m) == /\ f \in [0..m -> Nat] /\ f[0] = 0
                         /\ \A n \in 1..m : f[n] = f[n - 1] + w[n]
           Missing == {m \in 0..Len(w) : ~\E f : Part(f, m)}
<1>1. Len(w) \in Nat /\ \A n \in 1..Len(w) : w[n] \in Nat
  BY LenProperties, ElementOfSeq
<1>2. Missing = {}
  <2> SUFFICES ASSUME Missing # {} PROVE FALSE
    OBVIOUS
  <2>1. Missing \subseteq Nat
    BY <1>1
  <2>2. PICK m \in Missing : \A l \in Missing : m <= l
    <3> HIDE DEF Missing
    <3> QED
      BY <2>1, LeastNumber
  <2>3. m \in 0..Len(w) /\ m \in Nat
    BY <1>1
  <2>4. CASE m = 0
    <3>1. Part([n \in 0..0 |-> 0], 0)
      OBVIOUS
    <3>2. QED
      BY <2>4, <3>1
  <2>5. CASE m # 0
    <3>1. m - 1 \in 0..Len(w) /\ m - 1 \notin Missing
      <4>1. m - 1 \in 0..Len(w) /\ ~(m <= m - 1)
        BY <1>1, <2>3, <2>5
      <4> HIDE DEF Missing
      <4>2. QED
        BY <2>2, <4>1
    <3>2. PICK f : Part(f, m - 1)
      BY <3>1
    <3> DEFINE g == [n \in 0..m |-> IF n = m THEN f[m - 1] + w[m] ELSE f[n]]
    <3>3. f[m - 1] \in Nat /\ w[m] \in Nat
      BY <1>1, <2>3, <2>5, <3>2
    <3>4. g \in [0..m -> Nat] /\ g[0] = 0
      BY <2>3, <2>5, <3>2, <3>3
    <3>5. ASSUME NEW n \in 1..m PROVE g[n] = g[n - 1] + w[n]
      <4>1. CASE n = m
        BY <2>3, <2>5, <4>1
      <4>2. CASE n # m
        BY <2>3, <3>2, <4>2
      <4>3. QED
        BY <4>1, <4>2
    <3>6. Part(g, m)
      <4> HIDE DEF g
      <4> QED
        BY <3>4, <3>5
    <3>7. QED
      BY <3>6
  <2>6. QED
    BY <2>4, <2>5
<1>3. Len(w) \notin Missing
  BY <1>2
<1>4. PICK f : Part(f, Len(w))
  BY <1>1, <1>3
<1>5. SumsUp(f, w)
  BY <1>4 DEF SumsUp
<1>6. QED
  BY <1>5

\* Sums is one.
LEMMA SumsAre ==
  ASSUME NEW w \in Seq(Nat)
  PROVE  SumsUp(Sums(w), w)
<1>1. PICK f : SumsUp(f, w)
  BY SumsUpExists
<1>2. Len(w) \in Nat
  BY LenProperties
<1>3. f = [n \in 0..Len(w) |-> IF n = 0 THEN 0 ELSE f[n - 1] + w[n]]
  <2>1. f = [n \in 0..Len(w) |-> f[n]]
    BY <1>1 DEF SumsUp
  <2>2. \A n \in 0..Len(w) : f[n] = IF n = 0 THEN 0 ELSE f[n - 1] + w[n]
    BY <1>1, <1>2 DEF SumsUp
  <2>3. QED
    BY <2>1, <2>2
<1>4. Sums(w) =
        [n \in 0..Len(w) |-> IF n = 0 THEN 0 ELSE Sums(w)[n - 1] + w[n]]
  BY <1>3 DEF Sums
<1> DEFINE g == Sums(w)
           Wrong == {n \in 0..Len(w) : g[n] # f[n]}
<1> HIDE DEF g
<1>5. /\ DOMAIN g = 0..Len(w) /\ g[0] = 0
      /\ \A n \in 1..Len(w) : g[n] = g[n - 1] + w[n]
      /\ g = [n \in 0..Len(w) |-> g[n]]
  BY <1>2, <1>4 DEF g
<1>6. Wrong = {}
  <2> SUFFICES ASSUME Wrong # {} PROVE FALSE
    OBVIOUS
  <2>1. Wrong \subseteq Nat
    BY <1>2
  <2>2. PICK m \in Wrong : \A l \in Wrong : m <= l
    <3> HIDE DEF Wrong
    <3> QED
      BY <2>1, LeastNumber
  <2>3. m \in 0..Len(w) /\ g[m] # f[m] /\ m \in Nat
    BY <1>2
  <2>4. m # 0
    BY <1>1, <1>5, <2>3 DEF SumsUp
  <2>5. m - 1 \in 0..Len(w) /\ m \in 1..Len(w) /\ m - 1 \notin Wrong
    BY <1>2, <2>2, <2>3, <2>4
  <2>6. g[m - 1] = f[m - 1]
    BY <2>5
  <2>7. QED
    BY <1>1, <1>5, <2>3, <2>5, <2>6 DEF SumsUp
<1>7. \A n \in 0..Len(w) : g[n] = f[n]
  BY <1>6
<1>8. g = f
  BY <1>1, <1>5, <1>7 DEF SumsUp
<1>9. QED
  BY <1>1, <1>8 DEF g

\* And the only one.
LEMMA SumsAreUnique ==
  ASSUME NEW w \in Seq(Nat), NEW f, SumsUp(f, w)
  PROVE  \A n \in 0..Len(w) : Sums(w)[n] = f[n]
<1> DEFINE g == Sums(w)
           Wrong == {n \in 0..Len(w) : g[n] # f[n]}
<1>1. Len(w) \in Nat /\ SumsUp(g, w)
  BY LenProperties, SumsAre
<1> HIDE DEF g
<1>2. Wrong = {}
  <2> SUFFICES ASSUME Wrong # {} PROVE FALSE
    OBVIOUS
  <2>1. Wrong \subseteq Nat
    BY <1>1
  <2>2. PICK m \in Wrong : \A l \in Wrong : m <= l
    <3> HIDE DEF Wrong
    <3> QED
      BY <2>1, LeastNumber
  <2>3. m \in 0..Len(w) /\ g[m] # f[m] /\ m \in Nat
    BY <1>1
  <2>4. m # 0
    BY <1>1, <2>3 DEF SumsUp
  <2>5. m - 1 \in 0..Len(w) /\ m \in 1..Len(w) /\ m - 1 \notin Wrong
    BY <1>1, <2>2, <2>3, <2>4
  <2>6. g[m - 1] = f[m - 1]
    BY <2>5
  <2>7. QED
    BY <1>1, <2>3, <2>5, <2>6 DEF SumsUp
<1>3. QED
  BY <1>2 DEF g

\* Nothing is added where there is nothing to add.
LEMMA NothingAdded ==
  ASSUME NEW w \in Seq(Nat), NEW a \in 0..Len(w), NEW z \in a..Len(w),
         \A n \in (a + 1)..z : w[n] = 0
  PROVE  Sums(w)[z] = Sums(w)[a]
<1> DEFINE g == Sums(w)
           Wrong == {n \in a..z : g[n] # g[a]}
<1>1. Len(w) \in Nat /\ SumsUp(g, w)
  BY LenProperties, SumsAre
<1> HIDE DEF g
<1>2. a \in Nat /\ z \in Nat /\ a <= z /\ z <= Len(w)
  BY <1>1
<1>3. Wrong = {}
  <2> SUFFICES ASSUME Wrong # {} PROVE FALSE
    OBVIOUS
  <2>1. Wrong \subseteq Nat
    BY <1>2
  <2>2. PICK m \in Wrong : \A l \in Wrong : m <= l
    <3> HIDE DEF Wrong
    <3> QED
      BY <2>1, LeastNumber
  <2>3. m \in a..z /\ g[m] # g[a] /\ m \in Nat
    BY <1>2
  <2>4. m # a
    BY <2>3
  <2>5. m - 1 \in a..z /\ m \in 1..Len(w) /\ m \in (a + 1)..z /\ m - 1 \notin Wrong
    BY <1>1, <1>2, <2>2, <2>3, <2>4
  <2>6. g[m - 1] = g[a] /\ w[m] = 0
    BY <2>5
  <2>7. g[m] = g[m - 1] + w[m] /\ g[a] \in Nat
    BY <1>1, <1>2, <2>5 DEF SumsUp
  <2>8. QED
    BY <2>3, <2>6, <2>7
<1>4. z \in a..z /\ z \notin Wrong
  BY <1>2, <1>3
<1>5. QED
  BY <1>4 DEF g

Total(w) == Sums(w)[Len(w)]

LEMMA TotalOfNothing ==
  ASSUME NEW w \in Seq(Nat), \A n \in 1..Len(w) : w[n] = 0
  PROVE  Total(w) = 0
<1>1. Len(w) \in Nat /\ SumsUp(Sums(w), w)
  BY LenProperties, SumsAre
<1>2. 0 \in 0..Len(w) /\ Len(w) \in 0..Len(w) /\ \A n \in (0 + 1)..Len(w) : w[n] = 0
  BY <1>1
<1>3. Sums(w)[Len(w)] = Sums(w)[0]
  BY <1>2, NothingAdded
<1>4. QED
  BY <1>1, <1>3 DEF SumsUp, Total

\* A sequence made of another one, in its order, by leaving out zeros and putting in
\* zeros has the same sum: g says how much of the other was used.
LEMMA TotalOfMoved ==
  ASSUME NEW v \in Seq(Nat), NEW w \in Seq(Nat), NEW g \in [0..Len(v) -> 0..Len(w)],
         g[0] = 0,
         \A j \in 1..Len(v) :
           \/ v[j] = 0 /\ g[j] = g[j - 1]
           \/ /\ v[j] = w[g[j]] /\ g[j - 1] < g[j]
              /\ \A n \in (g[j - 1] + 1)..(g[j] - 1) : w[n] = 0,
         \A n \in (g[Len(v)] + 1)..Len(w) : w[n] = 0
  PROVE  Total(v) = Total(w)
<1> DEFINE s == Sums(w)
           f == [j \in 0..Len(v) |-> s[g[j]]]
<1>1. Len(v) \in Nat /\ Len(w) \in Nat /\ SumsUp(s, w) /\ \A n \in 1..Len(w) : w[n] \in Nat
  BY LenProperties, ElementOfSeq, SumsAre
<1>2. \A j \in 0..Len(v) : g[j] \in 0..Len(w) /\ s[g[j]] \in Nat
  BY <1>1 DEF SumsUp
<1>3. ASSUME NEW j \in 1..Len(v)
      PROVE  s[g[j]] = s[g[j - 1]] + v[j]
  <2>1. j \in 0..Len(v) /\ j - 1 \in 0..Len(v)
    BY <1>1
  <2>2. g[j] \in 0..Len(w) /\ g[j - 1] \in 0..Len(w) /\ s[g[j]] \in Nat /\ s[g[j - 1]] \in Nat
    BY <1>2, <2>1
  <2>3. CASE v[j] = 0 /\ g[j] = g[j - 1]
    BY <2>2, <2>3
  <2>4. CASE /\ v[j] = w[g[j]] /\ g[j - 1] < g[j]
             /\ \A n \in (g[j - 1] + 1)..(g[j] - 1) : w[n] = 0
    <3> DEFINE y == g[j - 1]
               z == g[j] - 1
    <3>1. y \in 0..Len(w) /\ z \in y..Len(w) /\ g[j] \in 1..Len(w)
      <4>1. Len(w) \in Nat /\ y \in 0..Len(w) /\ g[j] \in 0..Len(w) /\ y < g[j]
        BY <1>1, <2>2, <2>4
      <4> HIDE DEF y
      <4>2. QED
        BY ONLY <4>1 DEF z
    <3>2. \A n \in (y + 1)..z : w[n] = 0
      BY <2>4
    <3> HIDE DEF y, z, s
    <3>3. s[z] = s[y]
      BY <3>1, <3>2, NothingAdded DEF s
    <3>4. s[g[j]] = s[g[j] - 1] + w[g[j]]
      BY <1>1, <3>1 DEF SumsUp
    <3>5. QED
      BY <2>4, <3>3, <3>4 DEF y, z
  <2>5. QED
    BY <2>3, <2>4
<1>4. SumsUp(f, v)
  <2>1. f \in [0..Len(v) -> Nat]
    BY <1>2
  <2>2. f[0] = 0
    BY <1>1 DEF SumsUp
  <2>3. \A j \in 1..Len(v) : f[j] = f[j - 1] + v[j]
    BY <1>1, <1>3
  <2> HIDE DEF f
  <2>4. QED
    BY <2>1, <2>2, <2>3 DEF SumsUp
<1>5. Len(v) \in 0..Len(v) /\ f[Len(v)] = s[g[Len(v)]]
  BY <1>1
<1>6. Sums(v)[Len(v)] = s[g[Len(v)]]
  <2> HIDE DEF f, s
  <2>1. QED
    BY <1>4, <1>5, SumsAreUnique
<1>7. Sums(w)[Len(w)] = s[g[Len(v)]]
  <2>1. g[Len(v)] \in 0..Len(w) /\ Len(w) \in g[Len(v)]..Len(w)
    BY <1>1, <1>2, <1>5
  <2>2. QED
    BY <2>1, NothingAdded
<1>8. QED
  BY <1>6, <1>7 DEF Total

\* One counter is one more.
LEMMA TotalOfOneMore ==
  ASSUME NEW u \in Seq(Nat), NEW w \in Seq(Nat), Len(u) = Len(w), NEW i \in 1..Len(w),
         \A n \in 1..Len(w) : u[n] = IF n = i THEN w[n] + 1 ELSE w[n]
  PROVE  Total(u) = Total(w) + 1
<1> DEFINE s == Sums(w)
           f == [n \in 0..Len(u) |-> IF n < i THEN s[n] ELSE s[n] + 1]
<1>1. Len(w) \in Nat /\ SumsUp(s, w) /\ \A n \in 1..Len(w) : w[n] \in Nat
  BY LenProperties, ElementOfSeq, SumsAre
<1> HIDE DEF s
<1>2. \A n \in 0..Len(w) : s[n] \in Nat
  BY <1>1 DEF SumsUp
<1>3. SumsUp(f, u)
  <2>1. f \in [0..Len(u) -> Nat]
    BY <1>2
  <2>2. f[0] = 0
    BY <1>1 DEF SumsUp
  <2>3. ASSUME NEW n \in 1..Len(u) PROVE f[n] = f[n - 1] + u[n]
    <3>1. n \in 0..Len(w) /\ n - 1 \in 0..Len(w)
      BY <1>1
    <3>2. s[n] = s[n - 1] + w[n] /\ u[n] = IF n = i THEN w[n] + 1 ELSE w[n]
      BY <1>1 DEF SumsUp
    <3>3. s[n] \in Nat /\ s[n - 1] \in Nat /\ w[n] \in Nat
      BY <1>1, <1>2, <3>1
    <3>4. f[n] = IF n < i THEN s[n] ELSE s[n] + 1
      BY <3>1
    <3>5. f[n - 1] = IF n - 1 < i THEN s[n - 1] ELSE s[n - 1] + 1
      BY <3>1
    <3>6. PICK x \in Nat, z \in Nat : x = s[n - 1] /\ z = w[n]
      BY <3>3
    <3>7. s[n] = x + z /\ n \in Int /\ i \in Int
      BY <1>1, <3>2, <3>6
    <3> HIDE DEF f
    <3>8. CASE n < i
      <4>1. f[n] = x + z /\ f[n - 1] = x /\ u[n] = z
        BY ONLY <3>2, <3>4, <3>5, <3>6, <3>7, <3>8
      <4>2. QED
        BY ONLY <4>1
    <3>9. CASE n = i
      <4>1. f[n] = (x + z) + 1 /\ f[n - 1] = x /\ u[n] = z + 1
        BY ONLY <3>2, <3>4, <3>5, <3>6, <3>7, <3>9
      <4>2. QED
        BY ONLY <4>1
    <3>10. CASE i < n
      <4>1. f[n] = (x + z) + 1 /\ f[n - 1] = x + 1 /\ u[n] = z
        BY ONLY <3>2, <3>4, <3>5, <3>6, <3>7, <3>10
      <4>2. QED
        BY ONLY <4>1
    <3>11. QED
      BY <3>7, <3>8, <3>9, <3>10
  <2> HIDE DEF f
  <2>4. QED
    BY <2>1, <2>2, <2>3 DEF SumsUp
<1>4. Len(u) \in 0..Len(u) /\ f[Len(u)] = s[Len(w)] + 1
  BY <1>1
<1>5. Sums(u)[Len(u)] = f[Len(u)]
  <2> HIDE DEF f
  <2>1. QED
    BY <1>3, <1>4, SumsAreUnique
<1>6. QED
  BY <1>4, <1>5 DEF Total, s

-----------------------------------------------------------------------------
(* Rules, marks and the shape of a table.                                  *)

\* What is in an entry tells itself apart by its first word.
LEMMA KindsDiffer ==
  /\ \A r \in Redirect : r \notin Other /\ r # Jump /\ r \notin Marks /\ r # None
  /\ \A r \in Other : r # Jump /\ r \notin Marks /\ r # None
  /\ Jump \notin Marks /\ Jump # None /\ None \notin Marks
  /\ Policy # <<"head">> /\ Policy # <<"return">> /\ Policy # <<"error">>
  /\ <<"head">> # <<"return">> /\ <<"head">> # <<"error">> /\ <<"return">> # <<"error">>
<1>1. \A r \in Redirect : r[1] = "redirect"
  BY DEF Redirect
<1>2. \A r \in Other : r[1] = "other"
  BY DEF Other
<1>3. Jump[1] = "jump" /\ None[1] = "none" /\ Policy[1] = "policy"
  BY DEF Jump, None, Policy
<1>4. <<"head">>[1] = "head" /\ <<"return">>[1] = "return" /\ <<"error">>[1] = "error"
  OBVIOUS
<1>5. \A r \in Marks : r[1] \in {"policy", "head", "return", "error"}
  BY <1>3, <1>4 DEF Marks
<1>6. QED
  BY <1>1, <1>2, <1>3, <1>4, <1>5

\* What t has up to the policy at p, up to the return of netrec at q, and last; if q
\* is p there is no such chain.
Shaped(t, p, q) ==
  /\ p \in Nat /\ q \in Nat /\ 1 <= p /\ p <= q /\ Len(t) = q + 1
  /\ \A i \in 1..(p - 1) : t[i].chain = "OUTPUT" /\ t[i].rule \in Other \cup {Jump}
  /\ t[p].chain = "OUTPUT" /\ t[p].rule = Policy
  /\ q # p => /\ q >= p + 2
              /\ t[p + 1].chain = "netrec" /\ t[p + 1].rule = <<"head">>
              /\ \A i \in (p + 2)..(q - 1) : t[i].chain = "netrec" /\ t[i].rule \in Redirect
              /\ t[q].chain = "netrec" /\ t[q].rule = <<"return">>
  /\ t[q + 1].chain = "" /\ t[q + 1].rule = <<"error">>

Formed(t) == \E p, q : Shaped(t, p, q)

\* Which rules are where.
LEMMA ShapePlaces ==
  ASSUME NEW t, NEW p, NEW q, Shaped(t, p, q), NEW i \in 1..Len(t)
  PROVE  /\ i \in Nat /\ 1 <= i /\ i <= q + 1
         /\ t[i].rule = Policy <=> i = p
         /\ t[i].rule \in Other \cup {Jump} <=> i < p
         /\ t[i].rule \in Redirect <=> p + 1 < i /\ i < q
         /\ t[i].rule = <<"head">> <=> q # p /\ i = p + 1
         /\ t[i].rule = <<"return">> <=> q # p /\ i = q
         /\ t[i].chain = "netrec" <=> p < i /\ i < q + 1
         /\ t[i].chain = "OUTPUT" <=> i <= p
<1>1. /\ p \in Nat /\ q \in Nat /\ 1 <= p /\ p <= q /\ i \in Nat /\ 1 <= i /\ i <= q + 1
  <2>1. p \in Nat /\ q \in Nat /\ 1 <= p /\ p <= q /\ Len(t) = q + 1
    BY DEF Shaped
  <2>2. i \in 1..(q + 1)
    BY <2>1
  <2>3. QED
    BY <2>1, <2>2
<1>2. Policy \notin Redirect \cup Other \cup {Jump}
  BY KindsDiffer DEF Marks
<1>3. \A m \in {<<"head">>, <<"return">>, <<"error">>} :
        m \notin Redirect \cup Other \cup {Jump} /\ m # Policy
  BY KindsDiffer DEF Marks
<1>4. \A r \in Redirect : r \notin Other \cup {Jump}
  BY KindsDiffer
<1>5. CASE i < p
  <2>1. t[i].chain = "OUTPUT" /\ t[i].rule \in Other \cup {Jump}
    <3>1. i \in 1..(p - 1)
      BY <1>1, <1>5
    <3>2. QED
      BY <3>1 DEF Shaped
  <2>2. QED
    BY <1>1, <1>2, <1>3, <1>4, <1>5, <2>1
<1>6. CASE i = p
  <2>1. t[i].chain = "OUTPUT" /\ t[i].rule = Policy
    BY <1>6 DEF Shaped
  <2>2. QED
    BY <1>1, <1>2, <1>3, <1>6, <2>1
<1>7. CASE i = p + 1 /\ q # p
  <2>1. t[i].chain = "netrec" /\ t[i].rule = <<"head">> /\ q >= p + 2
    BY <1>7 DEF Shaped
  <2>2. QED
    BY <1>1, <1>3, <1>7, <2>1, KindsDiffer
<1>8. CASE p + 1 < i /\ i < q
  <2>1. t[i].chain = "netrec" /\ t[i].rule \in Redirect
    <3>1. i \in (p + 2)..(q - 1) /\ q # p
      BY <1>1, <1>8
    <3>2. QED
      BY <3>1 DEF Shaped
  <2>2. QED
    BY <1>1, <1>2, <1>3, <1>4, <1>8, <2>1
<1>9. CASE i = q /\ q # p
  <2>1. t[i].chain = "netrec" /\ t[i].rule = <<"return">> /\ q >= p + 2
    BY <1>9 DEF Shaped
  <2>2. QED
    BY <1>1, <1>3, <1>9, <2>1, KindsDiffer
<1>10. CASE i = q + 1
  <2>1. t[i].chain = "" /\ t[i].rule = <<"error">>
    BY <1>10 DEF Shaped
  <2>2. /\ "" # "netrec" /\ "" # "OUTPUT" /\ ~(i < p) /\ i # p /\ ~(i < q) /\ i # q
        /\ ~(i <= p) /\ ~(i < q + 1) /\ (q # p => i # p + 1)
    BY <1>1, <1>10
  <2>3. QED
    BY <1>1, <1>3, <1>10, <2>1, <2>2, KindsDiffer
<1>11. QED
  BY <1>1, <1>5, <1>6, <1>7, <1>8, <1>9, <1>10

\* A table has one shape.
LEMMA ShapeUnique ==
  ASSUME NEW t, NEW p, NEW q, Shaped(t, p, q), NEW m, NEW n, Shaped(t, m, n)
  PROVE  m = p /\ n = q
<1>1. n \in Nat /\ q \in Nat /\ m \in Nat /\ Len(t) = n + 1 /\ Len(t) = q + 1
      /\ 1 <= m /\ m <= n /\ t[m].rule = Policy
  BY DEF Shaped
<1>2. n = q /\ m \in 1..Len(t)
  BY <1>1
<1>3. t[m].rule = Policy <=> m = p
  BY <1>2, ShapePlaces
<1>4. QED
  BY <1>1, <1>2, <1>3

\* The program finds the parts of a table that has a shape.
LEMMA PlacesFound ==
  ASSUME NEW t, DOMAIN t = 1..Len(t), NEW p, NEW q, Shaped(t, p, q)
  PROVE  /\ HasChain(t, "netrec") <=> q # p
         /\ FootOf(t, "OUTPUT") = p
         /\ q # p => HeadOf(t, "netrec") = p + 1 /\ FootOf(t, "netrec") = q
<1>1. p \in Nat /\ q \in Nat /\ p \in 1..Len(t) /\ q \in 1..Len(t)
      /\ (q # p => q >= p + 2 /\ p + 1 \in 1..Len(t))
  <2>1. /\ p \in Nat /\ q \in Nat /\ 1 <= p /\ p <= q /\ Len(t) = q + 1
        /\ (q # p => q >= p + 2)
    BY DEF Shaped
  <2>2. QED
    BY <2>1
<1>2. HasChain(t, "netrec") <=> q # p
  <2>1. \A i \in 1..Len(t) : t[i].chain = "netrec" => q # p
    BY <1>1, ShapePlaces
  <2>2. q # p => t[q].chain = "netrec"
    BY DEF Shaped
  <2>3. QED
    BY <1>1, <2>1, <2>2 DEF HasChain
<1>3. FootOf(t, "OUTPUT") = p
  <2>1. t[p].chain = "OUTPUT" /\ t[p].rule \in {Policy, <<"return">>}
    BY DEF Shaped
  <2>2. ASSUME NEW i \in 1..Len(t), t[i].chain = "OUTPUT", t[i].rule \in {Policy, <<"return">>}
        PROVE  i = p
    <3>1. i \in Nat /\ (t[i].rule = Policy <=> i = p) /\ (t[i].rule = <<"return">> => q # p /\ i = q)
          /\ i <= p
      BY <2>2, ShapePlaces
    <3>2. QED
      BY <1>1, <2>2, <3>1
  <2>3. QED
    BY <1>1, <2>1, <2>2 DEF FootOf
<1>4. ASSUME q # p PROVE HeadOf(t, "netrec") = p + 1
  <2>1. t[p + 1].chain = "netrec" /\ t[p + 1].rule = <<"head">>
    BY <1>4 DEF Shaped
  <2>2. \A i \in 1..Len(t) : t[i].chain = "netrec" /\ t[i].rule = <<"head">> => i = p + 1
    BY <1>1, ShapePlaces
  <2>3. QED
    BY <1>1, <1>4, <2>1, <2>2 DEF HeadOf
<1>5. ASSUME q # p PROVE FootOf(t, "netrec") = q
  <2>1. t[q].chain = "netrec" /\ t[q].rule \in {Policy, <<"return">>}
    BY <1>5 DEF Shaped
  <2>2. \A i \in 1..Len(t) : t[i].chain = "netrec" /\ t[i].rule \in {Policy, <<"return">>} => i = q
    BY <1>1, ShapePlaces
  <2>3. QED
    BY <1>1, <1>5, <2>1, <2>2 DEF FootOf
<1>6. QED
  BY <1>2, <1>3, <1>4, <1>5

\* r is the rule of an entry; at most one entry has a rule of R.
HasRule(t, r) == \E i \in 1..Len(t) : t[i].rule = r
Once(t, R)    == \A i, j \in 1..Len(t) : t[i].rule \in R /\ t[j].rule \in R => i = j

\* netrec has the redirects of u to its first n ports and no other.
Bodied(t, u, n) ==
  n \in Nat /\ \E p : /\ Shaped(t, p, p + 2 + n)
                      /\ \A i \in 1..n : t[p + 1 + i].rule = <<"redirect", u, Ports[u][i]>>

\* netrec has no rules, or there is no netrec.
Bare(t) == \E p, q : Shaped(t, p, q) /\ q \in {p, p + 2}

\* All redirects are of one application.
OneOwner(t) == \E u : \A i \in 1..Len(t) : t[i].rule \in Redirect => t[i].rule[2] = u

LEMMA BodyOwned ==
  ASSUME NEW t, NEW u, NEW n, Bodied(t, u, n)
  PROVE  OneOwner(t) /\ (n = 0 => Bare(t)) /\ Formed(t)
<1>1. PICK p : /\ Shaped(t, p, p + 2 + n)
               /\ \A i \in 1..n : t[p + 1 + i].rule = <<"redirect", u, Ports[u][i]>>
  BY DEF Bodied
<1>2. n \in Nat /\ p \in Nat
  BY <1>1 DEF Bodied, Shaped
<1>3. ASSUME NEW i \in 1..Len(t), t[i].rule \in Redirect PROVE t[i].rule[2] = u
  <2>1. p + 1 < i /\ i < p + 2 + n /\ i \in Nat
    BY <1>1, <1>3, ShapePlaces
  <2>2. i - p - 1 \in 1..n /\ i = p + 1 + (i - p - 1)
    BY <1>2, <2>1
  <2>3. t[p + 1 + (i - p - 1)].rule = <<"redirect", u, Ports[u][i - p - 1]>>
    BY <1>1, <2>2
  <2>4. t[i].rule = <<"redirect", u, Ports[u][i - p - 1]>>
    BY <2>2, <2>3
  <2>5. QED
    BY <2>4
<1>4. n = 0 => Bare(t)
  <2>1. n = 0 => p + 2 + n = p + 2
    BY <1>2
  <2>2. QED
    BY <1>1, <2>1 DEF Bare
<1>5. QED
  BY <1>1, <1>3, <1>4 DEF OneOwner, Formed

LEMMA BareOwned == ASSUME NEW t, Bare(t) PROVE OneOwner(t)
<1>1. PICK p, q : Shaped(t, p, q) /\ q \in {p, p + 2}
  BY DEF Bare
<1>2. p \in Nat /\ q \in Nat
  BY <1>1 DEF Shaped
<1>3. \A i \in 1..Len(t) : t[i].rule \notin Redirect
  BY <1>1, <1>2, ShapePlaces
<1>4. QED
  BY <1>3 DEF OneOwner

-----------------------------------------------------------------------------
(* Tables that are alike for a script.                                     *)

\* u has the rules of t, whatever the counters are.
SameRules(t, u) ==
  /\ Len(t) \in Nat /\ Len(u) = Len(t)
  /\ \A i \in 1..Len(t) : u[i].chain = t[i].chain /\ u[i].rule = t[i].rule

\* The n rules behind p in t are those behind z in u.
SameFrom(t, p, u, z, n) == \A k \in 1..n : u[z + k].rule = t[p + k].rule

LEMMA SameFromSame ==
  ASSUME NEW t, NEW v, NEW p, NEW u, NEW z, NEW n, SameFrom(v, p, u, z, n),
         \A k \in 1..n : v[p + k].rule = t[p + k].rule
  PROVE  SameFrom(t, p, u, z, n)
BY DEF SameFrom

\* netrec and what leads to it are in u what they are in t.
Alike(t, u) ==
  /\ HasRule(t, Jump) <=> HasRule(u, Jump)
  /\ Once(t, {Jump}) => Once(u, {Jump})
  /\ \A p, q : Shaped(t, p, q) =>
       \E z : /\ Shaped(u, z, z + (q - p))
              /\ \A i \in 1..(q - p) : u[z + i].rule = t[p + i].rule

\* So are the rules of the other program.
OthersAlike(t, u) ==
  /\ \A r \in Other : HasRule(t, r) <=> HasRule(u, r)
  /\ Once(t, Other) => Once(u, Other)

LEMMA SameRulesBack ==
  ASSUME NEW t, NEW u, SameRules(t, u)
  PROVE  SameRules(u, t)
BY DEF SameRules

LEMMA SameShape ==
  ASSUME NEW t, NEW u, SameRules(t, u), NEW p, NEW q, Shaped(t, p, q)
  PROVE  Shaped(u, p, q)
<1>1. /\ p \in Nat /\ q \in Nat /\ 1 <= p /\ p <= q /\ Len(t) = q + 1 /\ Len(u) = q + 1
      /\ (q # p => q >= p + 2)
  BY DEF Shaped, SameRules
<1>2. \A i \in 1..(q + 1) : u[i].chain = t[i].chain /\ u[i].rule = t[i].rule
  BY <1>1 DEF SameRules
<1>3. \A i \in 1..(p - 1) : u[i].chain = "OUTPUT" /\ u[i].rule \in Other \cup {Jump}
  <2>1. \A i \in 1..(p - 1) : i \in 1..(q + 1)
    BY <1>1
  <2>2. QED
    BY <1>2, <2>1 DEF Shaped
<1>4. u[p].chain = "OUTPUT" /\ u[p].rule = Policy
  <2>1. p \in 1..(q + 1)
    BY <1>1
  <2>2. QED
    BY <1>2, <2>1 DEF Shaped
<1>5. ASSUME q # p
      PROVE  /\ u[p + 1].chain = "netrec" /\ u[p + 1].rule = <<"head">>
             /\ \A i \in (p + 2)..(q - 1) : u[i].chain = "netrec" /\ u[i].rule \in Redirect
             /\ u[q].chain = "netrec" /\ u[q].rule = <<"return">>
  <2>1. p + 1 \in 1..(q + 1) /\ q \in 1..(q + 1) /\ \A i \in (p + 2)..(q - 1) : i \in 1..(q + 1)
    BY <1>1, <1>5
  <2>2. QED
    BY <1>2, <1>5, <2>1 DEF Shaped
<1>6. u[q + 1].chain = "" /\ u[q + 1].rule = <<"error">>
  <2>1. q + 1 \in 1..(q + 1)
    BY <1>1
  <2>2. QED
    BY <1>2, <2>1 DEF Shaped
<1>7. QED
  BY <1>1, <1>3, <1>4, <1>5, <1>6 DEF Shaped

LEMMA SameRulesAlike ==
  ASSUME NEW t, NEW u, SameRules(t, u)
  PROVE  /\ \A r : HasRule(t, r) <=> HasRule(u, r)
         /\ \A R : Once(t, R) <=> Once(u, R)
         /\ Alike(t, u) /\ OthersAlike(t, u) /\ (Formed(t) => Formed(u))
<1>1. \A r : HasRule(t, r) <=> HasRule(u, r)
  BY DEF SameRules, HasRule
<1>2. \A R : Once(t, R) <=> Once(u, R)
  BY DEF SameRules, Once
<1>3. ASSUME NEW p, NEW q, Shaped(t, p, q)
      PROVE  \E z : /\ Shaped(u, z, z + (q - p))
                    /\ \A i \in 1..(q - p) : u[z + i].rule = t[p + i].rule
  <2>1. Shaped(u, p, q)
    BY <1>3, SameShape
  <2>2. p \in Nat /\ q \in Nat /\ 1 <= p /\ p <= q /\ Len(t) = q + 1
    BY <1>3 DEF Shaped
  <2>3. p + (q - p) = q
    BY <2>2
  <2>4. \A i \in 1..(q - p) : p + i \in 1..Len(t)
    BY <2>2
  <2>5. \A i \in 1..(q - p) : u[p + i].rule = t[p + i].rule
    BY <2>4 DEF SameRules
  <2>6. QED
    BY <2>1, <2>3, <2>5
<1>4. Formed(t) => Formed(u)
  BY SameShape DEF Formed
<1>5. QED
  BY <1>1, <1>2, <1>3, <1>4 DEF Alike, OthersAlike

\* What is alike stays so when counters change.
LEMMA AlikeKept ==
  ASSUME NEW t, NEW u, NEW v, SameRules(t, v)
  PROVE  /\ Alike(t, u) => Alike(v, u)
         /\ OthersAlike(t, u) => OthersAlike(v, u)
<1>1. /\ \A r : HasRule(t, r) <=> HasRule(v, r)
      /\ \A R : Once(t, R) <=> Once(v, R)
  BY SameRulesAlike
<1>2. SameRules(v, t)
  BY SameRulesBack
<1>3. ASSUME Alike(t, u), NEW p, NEW q, Shaped(v, p, q)
      PROVE  \E z : /\ Shaped(u, z, z + (q - p))
                    /\ \A i \in 1..(q - p) : u[z + i].rule = v[p + i].rule
  <2>1. Shaped(t, p, q)
    BY <1>2, <1>3, SameShape
  <2>2. PICK z : /\ Shaped(u, z, z + (q - p))
                 /\ \A i \in 1..(q - p) : u[z + i].rule = t[p + i].rule
    BY <1>3, <2>1 DEF Alike
  <2>3. p \in Nat /\ q \in Nat /\ Len(v) = q + 1
    BY <1>3 DEF Shaped
  <2>4. \A i \in 1..(q - p) : p + i \in 1..Len(v)
    BY <2>3
  <2>5. \A i \in 1..(q - p) : t[p + i].rule = v[p + i].rule
    BY <1>2, <2>4 DEF SameRules
  <2>6. QED
    BY <2>2, <2>5
<1>4. QED
  BY <1>1, <1>3 DEF Alike, OthersAlike

LEMMA AlikeNetrec ==
  ASSUME NEW t, NEW u, Alike(t, u)
  PROVE  /\ \A o, n : Bodied(t, o, n) => Bodied(u, o, n)
         /\ Bare(t) => Bare(u)
         /\ Formed(t) => Formed(u)
         /\ Formed(t) /\ OneOwner(t) => OneOwner(u)
<1>1. ASSUME NEW o, NEW n, Bodied(t, o, n) PROVE Bodied(u, o, n)
  <2>1. PICK p : /\ Shaped(t, p, p + 2 + n)
                 /\ \A i \in 1..n : t[p + 1 + i].rule = <<"redirect", o, Ports[o][i]>>
    BY <1>1 DEF Bodied
  <2>2. n \in Nat /\ p \in Nat /\ (p + 2 + n) - p = n + 2
    <3>1. n \in Nat /\ p \in Nat
      BY <1>1, <2>1 DEF Bodied, Shaped
    <3>2. QED
      BY <3>1
  <2>3. PICK z : /\ Shaped(u, z, z + (n + 2))
                 /\ \A i \in 1..(n + 2) : u[z + i].rule = t[p + i].rule
    BY <2>1, <2>2 DEF Alike
  <2>4. z \in Nat /\ z + (n + 2) = z + 2 + n
    <3>1. z \in Nat
      BY <2>3 DEF Shaped
    <3>2. QED
      BY <2>2, <3>1
  <2>5. ASSUME NEW i \in 1..n PROVE u[z + 1 + i].rule = <<"redirect", o, Ports[o][i]>>
    <3>1. 1 + i \in 1..(n + 2) /\ z + (1 + i) = z + 1 + i /\ p + (1 + i) = p + 1 + i
      BY <2>2, <2>4
    <3>2. u[z + (1 + i)].rule = t[p + (1 + i)].rule
      BY <2>3, <3>1
    <3>3. QED
      BY <2>1, <3>1, <3>2
  <2>6. QED
    BY <2>2, <2>3, <2>4, <2>5 DEF Bodied
<1>2. ASSUME Bare(t) PROVE Bare(u)
  <2>1. PICK p, q : Shaped(t, p, q) /\ q \in {p, p + 2}
    BY <1>2 DEF Bare
  <2>2. PICK z : Shaped(u, z, z + (q - p))
    BY <2>1 DEF Alike
  <2>3. p \in Nat /\ q \in Nat /\ z \in Nat
    BY <2>1, <2>2 DEF Shaped
  <2>4. z + (q - p) \in {z, z + 2}
    BY <2>1, <2>3
  <2>5. QED
    BY <2>2, <2>4 DEF Bare
<1>3. Formed(t) => Formed(u)
  BY DEF Formed, Alike
<1>4. ASSUME Formed(t), OneOwner(t) PROVE OneOwner(u)
  <2>1. PICK p, q : Shaped(t, p, q)
    BY <1>4 DEF Formed
  <2>2. PICK z : /\ Shaped(u, z, z + (q - p))
                 /\ \A i \in 1..(q - p) : u[z + i].rule = t[p + i].rule
    BY <2>1 DEF Alike
  <2>3. p \in Nat /\ q \in Nat /\ z \in Nat /\ Len(t) = q + 1 /\ 1 <= p
    BY <2>1, <2>2 DEF Shaped
  <2>4. PICK o : \A i \in 1..Len(t) : t[i].rule \in Redirect => t[i].rule[2] = o
    BY <1>4 DEF OneOwner
  <2>5. ASSUME NEW i \in 1..Len(u), u[i].rule \in Redirect PROVE u[i].rule[2] = o
    <3>1. z + 1 < i /\ i < z + (q - p) /\ i \in Nat
      BY <2>2, <2>5, ShapePlaces
    <3>2. i - z \in 1..(q - p) /\ z + (i - z) = i /\ p + (i - z) \in 1..Len(t)
      BY <2>3, <3>1
    <3>3. u[z + (i - z)].rule = t[p + (i - z)].rule
      BY <2>2, <3>2
    <3>4. QED
      BY <2>4, <2>5, <3>2, <3>3
  <2>6. QED
    BY <2>5 DEF OneOwner
<1>5. QED
  BY <1>1, <1>2, <1>3, <1>4

-----------------------------------------------------------------------------
(* Edits.                                                                  *)

\* u is t with e put at i.
PutIn(t, u, i, e) ==
  /\ i \in 1..(Len(t) + 1) /\ Len(t) \in Nat /\ Len(u) = Len(t) + 1
  /\ \A k \in 1..Len(u) : u[k] = IF k < i THEN t[k] ELSE IF k = i THEN e ELSE t[k - 1]

\* u is t without what is between a and z.
TakenOut(t, u, a, z) ==
  /\ Len(t) \in Nat /\ a \in 0..Len(t) /\ z \in (a + 1)..(Len(t) + 1)
  /\ Len(u) = Len(t) - (z - a - 1)
  /\ \A k \in 1..Len(u) : u[k] = IF k <= a THEN t[k] ELSE t[k + (z - a - 1)]

\* u is t with e instead of what is at i.
Changed(t, u, i, e) ==
  /\ Len(t) \in Nat /\ i \in 1..Len(t) /\ Len(u) = Len(t)
  /\ \A k \in 1..Len(u) : u[k] = IF k = i THEN e ELSE t[k]

\* u is t with e and f before its last.
Extended(t, u, e, f) ==
  /\ Len(t) \in Nat /\ 1 <= Len(t) /\ Len(u) = Len(t) + 2
  /\ \A k \in 1..Len(u) : u[k] = IF k < Len(t) THEN t[k] ELSE IF k = Len(t) THEN e
                                 ELSE IF k = Len(t) + 1 THEN f ELSE t[Len(t)]

\* Where the entries of t are in u.
LEMMA PutInPlaces ==
  ASSUME NEW t, NEW u, NEW i, NEW e, PutIn(t, u, i, e)
  PROVE  /\ i \in 1..Len(u) /\ u[i] = e
         /\ \A k \in 1..Len(t) : IF k < i THEN k \in 1..Len(u) /\ u[k] = t[k]
                                 ELSE k + 1 \in 1..Len(u) /\ u[k + 1] = t[k] /\ k + 1 > i
<1>1. i \in 1..Len(u) /\ i \in Nat /\ Len(t) \in Nat /\ Len(u) = Len(t) + 1
  BY DEF PutIn
<1>2. ASSUME NEW k \in 1..Len(t)
      PROVE  IF k < i THEN k \in 1..Len(u) /\ u[k] = t[k]
             ELSE k + 1 \in 1..Len(u) /\ u[k + 1] = t[k] /\ k + 1 > i
  <2>1. CASE k < i
    <3>1. k \in 1..Len(u)
      BY <1>1
    <3>2. QED
      BY <2>1, <3>1 DEF PutIn
  <2>2. CASE ~(k < i)
    <3>1. k + 1 \in 1..Len(u) /\ ~(k + 1 < i) /\ k + 1 # i /\ (k + 1) - 1 = k /\ k + 1 > i
      BY <1>1, <2>2
    <3>2. u[k + 1] = t[(k + 1) - 1]
      BY <3>1 DEF PutIn
    <3>3. QED
      BY <2>2, <3>1, <3>2
  <2>3. QED
    BY <2>1, <2>2
<1>3. u[i] = e
  BY <1>1 DEF PutIn
<1>4. QED
  BY <1>1, <1>2, <1>3

LEMMA PutInRules ==
  ASSUME NEW t, NEW u, NEW i, NEW e, PutIn(t, u, i, e)
  PROVE  /\ \A r : HasRule(u, r) <=> HasRule(t, r) \/ e.rule = r
         /\ \A R : Once(t, R) /\ (e.rule \in R => \A r \in R : ~HasRule(t, r)) => Once(u, R)
<1>1. i \in 1..Len(u) /\ i \in Nat /\ Len(t) \in Nat /\ Len(u) = Len(t) + 1
  BY DEF PutIn
<1>2. ASSUME NEW k \in 1..Len(u), k # i
      PROVE  \E j \in 1..Len(t) : u[k] = t[j] /\ j = IF k < i THEN k ELSE k - 1
  <2>1. CASE k < i
    <3>1. k \in 1..Len(t)
      BY <1>1, <2>1
    <3>2. QED
      BY <2>1, <3>1 DEF PutIn
  <2>2. CASE ~(k < i)
    <3>1. k - 1 \in 1..Len(t)
      BY <1>1, <1>2, <2>2
    <3>2. QED
      BY <1>2, <2>2, <3>1 DEF PutIn
  <2>3. QED
    BY <2>1, <2>2
<1>3. ASSUME NEW r, HasRule(u, r) PROVE HasRule(t, r) \/ e.rule = r
  <2>1. PICK k \in 1..Len(u) : u[k].rule = r
    BY <1>3 DEF HasRule
  <2>2. k = i => e.rule = r
    BY <2>1, PutInPlaces
  <2>3. QED
    BY <1>2, <2>1, <2>2 DEF HasRule
<1>4. ASSUME NEW r, HasRule(t, r) PROVE HasRule(u, r)
  <2>1. PICK k \in 1..Len(t) : t[k].rule = r
    BY <1>4 DEF HasRule
  <2>2. IF k < i THEN k \in 1..Len(u) /\ u[k] = t[k]
                 ELSE k + 1 \in 1..Len(u) /\ u[k + 1] = t[k] /\ k + 1 > i
    BY <2>1, PutInPlaces
  <2>3. QED
    BY <2>1, <2>2 DEF HasRule
<1>5. \A r : e.rule = r => HasRule(u, r)
  BY PutInPlaces DEF HasRule
<1>6. ASSUME NEW R, Once(t, R), e.rule \in R => \A r \in R : ~HasRule(t, r),
             NEW k \in 1..Len(u), NEW j \in 1..Len(u), u[k].rule \in R, u[j].rule \in R
      PROVE  k = j
  <2>1. CASE k # i /\ j # i
    <3>1. PICK m \in 1..Len(t) : u[k] = t[m] /\ m = IF k < i THEN k ELSE k - 1
      BY <1>2, <2>1
    <3>2. PICK n \in 1..Len(t) : u[j] = t[n] /\ n = IF j < i THEN j ELSE j - 1
      BY <1>2, <2>1
    <3>3. m = n
      BY <1>6, <3>1, <3>2 DEF Once
    <3>4. k \in Nat /\ j \in Nat
      BY <1>1
    <3>5. QED
      BY <1>1, <2>1, <3>1, <3>2, <3>3, <3>4
  <2>2. CASE k = i \/ j = i
    <3>1. e.rule \in R /\ \A m \in 1..Len(t) : t[m].rule \notin R
      <4>1. e.rule \in R
        BY <1>6, <2>2, PutInPlaces
      <4>2. QED
        BY <1>6, <4>1 DEF HasRule
    <3>2. k = i /\ j = i
      BY <1>2, <1>6, <3>1
    <3>3. QED
      BY <3>2
  <2>3. QED
    BY <2>1, <2>2
<1>7. \A R : Once(t, R) /\ (e.rule \in R => \A r \in R : ~HasRule(t, r)) => Once(u, R)
  BY <1>6 DEF Once
<1>8. QED
  BY <1>3, <1>4, <1>5, <1>7

LEMMA TakenOutPlaces ==
  ASSUME NEW t, NEW u, NEW a, NEW z, TakenOut(t, u, a, z)
  PROVE  /\ a \in Nat /\ z \in Nat /\ Len(t) \in Nat /\ a < z /\ Len(u) = Len(t) - (z - a - 1)
         /\ \A k \in 1..Len(t) :
              /\ k <= a => k \in 1..Len(u) /\ u[k] = t[k]
              /\ z <= k => k - (z - a - 1) \in 1..Len(u) /\ u[k - (z - a - 1)] = t[k]
         /\ \A k \in 1..Len(u) :
              \E j \in 1..Len(t) : u[k] = t[j] /\ j = IF k <= a THEN k ELSE k + (z - a - 1)
<1>1. /\ a \in Nat /\ z \in Nat /\ Len(t) \in Nat /\ a < z /\ Len(u) = Len(t) - (z - a - 1)
      /\ a <= Len(t) /\ z <= Len(t) + 1
  BY DEF TakenOut
<1>2. ASSUME NEW k \in 1..Len(t), k <= a PROVE k \in 1..Len(u) /\ u[k] = t[k]
  <2>1. k \in 1..Len(u)
    BY <1>1, <1>2
  <2>2. QED
    BY <1>2, <2>1 DEF TakenOut
<1>3. ASSUME NEW k \in 1..Len(t), z <= k
      PROVE  k - (z - a - 1) \in 1..Len(u) /\ u[k - (z - a - 1)] = t[k]
  <2> DEFINE j == k - (z - a - 1)
  <2>1. j \in 1..Len(u) /\ ~(j <= a) /\ j + (z - a - 1) = k
    BY <1>1, <1>3
  <2> HIDE DEF j
  <2>2. u[j] = t[j + (z - a - 1)]
    BY <2>1 DEF TakenOut
  <2>3. QED
    BY <2>1, <2>2 DEF j
<1>4. ASSUME NEW k \in 1..Len(u)
      PROVE  \E j \in 1..Len(t) : u[k] = t[j] /\ j = IF k <= a THEN k ELSE k + (z - a - 1)
  <2>1. CASE k <= a
    <3>1. k \in 1..Len(t)
      BY <1>1, <2>1
    <3>2. QED
      BY <2>1, <3>1 DEF TakenOut
  <2>2. CASE ~(k <= a)
    <3>1. k + (z - a - 1) \in 1..Len(t)
      BY <1>1, <2>2
    <3>2. QED
      BY <2>2, <3>1 DEF TakenOut
  <2>3. QED
    BY <2>1, <2>2
<1>5. QED
  BY <1>1, <1>2, <1>3, <1>4

LEMMA TakenOutRules ==
  ASSUME NEW t, NEW u, NEW a, NEW z, TakenOut(t, u, a, z)
  PROVE  /\ \A r : HasRule(u, r) => HasRule(t, r)
         /\ \A r : HasRule(t, r) /\ (\A k \in (a + 1)..(z - 1) : t[k].rule # r) => HasRule(u, r)
         /\ \A R : Once(t, R) => Once(u, R)
<1>1. /\ a \in Nat /\ z \in Nat /\ Len(t) \in Nat /\ a < z /\ Len(u) = Len(t) - (z - a - 1)
      /\ \A k \in 1..Len(u) :
           \E j \in 1..Len(t) : u[k] = t[j] /\ j = IF k <= a THEN k ELSE k + (z - a - 1)
  BY TakenOutPlaces
<1>2. \A r : HasRule(u, r) => HasRule(t, r)
  BY <1>1 DEF HasRule
<1>3. ASSUME NEW r, HasRule(t, r), \A k \in (a + 1)..(z - 1) : t[k].rule # r PROVE HasRule(u, r)
  <2>1. PICK k \in 1..Len(t) : t[k].rule = r
    BY <1>3 DEF HasRule
  <2>2. k <= a \/ z <= k
    BY <1>1, <1>3, <2>1
  <2>3. k <= a => k \in 1..Len(u) /\ u[k] = t[k]
    BY TakenOutPlaces
  <2>4. z <= k => k - (z - a - 1) \in 1..Len(u) /\ u[k - (z - a - 1)] = t[k]
    BY TakenOutPlaces
  <2>5. \E j \in 1..Len(u) : u[j] = t[k]
    BY <2>2, <2>3, <2>4
  <2>6. QED
    BY <2>1, <2>5 DEF HasRule
<1>4. ASSUME NEW R, Once(t, R), NEW k \in 1..Len(u), NEW j \in 1..Len(u),
             u[k].rule \in R, u[j].rule \in R
      PROVE  k = j
  <2>1. PICK m \in 1..Len(t) : u[k] = t[m] /\ m = IF k <= a THEN k ELSE k + (z - a - 1)
    BY <1>1
  <2>2. PICK n \in 1..Len(t) : u[j] = t[n] /\ n = IF j <= a THEN j ELSE j + (z - a - 1)
    BY <1>1
  <2>3. m = n
    BY <1>4, <2>1, <2>2 DEF Once
  <2>4. k \in Nat /\ j \in Nat /\ a \in Nat /\ z \in Nat /\ a < z
    BY <1>1
  <2>5. /\ m = IF k <= a THEN k ELSE k + (z - a - 1)
        /\ m = IF j <= a THEN j ELSE j + (z - a - 1)
    BY <2>1, <2>2, <2>3
  <2>6. QED
    BY ONLY <2>4, <2>5
<1>5. \A R : Once(t, R) => Once(u, R)
  BY <1>4 DEF Once
<1>6. QED
  BY <1>2, <1>3, <1>5

LEMMA ChangedRules ==
  ASSUME NEW t, NEW u, NEW i, NEW e, Changed(t, u, i, e)
  PROVE  /\ \A r : r # t[i].rule /\ r # e.rule => (HasRule(u, r) <=> HasRule(t, r))
         /\ \A R : Once(t, R) /\ (e.rule \in R => t[i].rule \in R) => Once(u, R)
<1>1. Len(u) = Len(t) /\ i \in 1..Len(t)
      /\ \A k \in 1..Len(t) : u[k] = IF k = i THEN e ELSE t[k]
  BY DEF Changed
<1>2. \A r : r # t[i].rule /\ r # e.rule => (HasRule(u, r) <=> HasRule(t, r))
  BY <1>1 DEF HasRule
<1>3. \A R : Once(t, R) /\ (e.rule \in R => t[i].rule \in R) => Once(u, R)
  BY <1>1 DEF Once
<1>4. QED
  BY <1>2, <1>3

LEMMA ExtendedRules ==
  ASSUME NEW t, NEW u, NEW e, NEW f, Extended(t, u, e, f)
  PROVE  /\ \A r : HasRule(u, r) <=> HasRule(t, r) \/ e.rule = r \/ f.rule = r
         /\ \A R : Once(t, R) /\ e.rule \notin R /\ f.rule \notin R => Once(u, R)
<1>1. Len(t) \in Nat /\ 1 <= Len(t) /\ Len(u) = Len(t) + 2
  BY DEF Extended
<1> DEFINE v == [k \in 1..(Len(t) + 1) |-> IF k < Len(t) THEN t[k]
                                           ELSE IF k = Len(t) THEN e ELSE t[Len(t)]]
<1>2. Len(v) = Len(t) + 1 /\ \A k \in 1..(Len(t) + 1) :
        v[k] = IF k < Len(t) THEN t[k] ELSE IF k = Len(t) THEN e ELSE t[Len(t)]
  BY <1>1
<1> HIDE DEF v
<1>3. PutIn(t, v, Len(t), e)
  <2>1. ASSUME NEW k \in 1..Len(v)
        PROVE  v[k] = IF k < Len(t) THEN t[k] ELSE IF k = Len(t) THEN e ELSE t[k - 1]
    <3>1. k \in 1..(Len(t) + 1) /\ (k < Len(t) \/ k = Len(t) \/ k - 1 = Len(t))
      BY <1>1, <1>2
    <3>2. QED
      BY <1>1, <1>2, <3>1
  <2>2. Len(t) \in 1..(Len(t) + 1)
    BY <1>1
  <2>3. QED
    BY <1>1, <1>2, <2>1, <2>2 DEF PutIn
<1>4. PutIn(v, u, Len(t) + 1, f)
  <2>1. ASSUME NEW k \in 1..Len(u)
        PROVE  u[k] = IF k < Len(t) + 1 THEN v[k] ELSE IF k = Len(t) + 1 THEN f ELSE v[k - 1]
    <3>1. u[k] = IF k < Len(t) THEN t[k] ELSE IF k = Len(t) THEN e
                 ELSE IF k = Len(t) + 1 THEN f ELSE t[Len(t)]
      BY DEF Extended
    <3>2. CASE k < Len(t) + 1
      <4>1. k \in 1..(Len(t) + 1) /\ (k < Len(t) \/ k = Len(t)) /\ k # Len(t) + 1
        BY <1>1, <3>2
      <4>2. QED
        BY <1>2, <3>1, <3>2, <4>1
    <3>3. CASE k = Len(t) + 1
      <4>1. ~(k < Len(t)) /\ k # Len(t) /\ ~(k < Len(t) + 1)
        BY <1>1, <3>3
      <4>2. QED
        BY <3>1, <3>3, <4>1
    <3>4. CASE k = Len(t) + 2
      <4>1. /\ ~(k < Len(t)) /\ k # Len(t) /\ k # Len(t) + 1 /\ k - 1 = Len(t) + 1
            /\ ~(k < Len(t) + 1) /\ Len(t) + 1 \in 1..(Len(t) + 1)
            /\ ~(Len(t) + 1 < Len(t)) /\ Len(t) + 1 # Len(t)
        BY <1>1, <3>4
      <4>2. v[Len(t) + 1] = t[Len(t)]
        BY <1>2, <4>1
      <4>3. QED
        BY <3>1, <4>1, <4>2
    <3>5. QED
      BY <1>1, <3>2, <3>3, <3>4
  <2>2. Len(t) + 1 \in 1..(Len(v) + 1) /\ Len(v) \in Nat /\ Len(u) = Len(v) + 1
    BY <1>1, <1>2
  <2>3. QED
    BY <2>1, <2>2 DEF PutIn
<1>5. /\ \A r : HasRule(v, r) <=> HasRule(t, r) \/ e.rule = r
      /\ \A R : Once(t, R) /\ (e.rule \in R => \A r \in R : ~HasRule(t, r)) => Once(v, R)
  BY <1>3, PutInRules
<1>6. /\ \A r : HasRule(u, r) <=> HasRule(v, r) \/ f.rule = r
      /\ \A R : Once(v, R) /\ (f.rule \in R => \A r \in R : ~HasRule(v, r)) => Once(u, R)
  BY <1>4, PutInRules
<1>7. QED
  BY <1>5, <1>6

\* A rule of OUTPUT is put before its policy.
LEMMA PutInOutput ==
  ASSUME NEW t, NEW u, NEW i, NEW e, PutIn(t, u, i, e), NEW p, NEW q, Shaped(t, p, q),
         i <= p, e.chain = "OUTPUT", e.rule \in Other \cup {Jump}
  PROVE  /\ Shaped(u, p + 1, q + 1)
         /\ \A k \in 1..(q - p) : u[p + 1 + k].rule = t[p + k].rule
<1>1. /\ p \in Nat /\ q \in Nat /\ 1 <= p /\ p <= q /\ Len(t) = q + 1 /\ (q # p => q >= p + 2)
  BY DEF Shaped
<1>2. /\ i \in Nat /\ 1 <= i /\ i \in 1..(Len(t) + 1) /\ Len(u) = q + 2
      /\ \A k \in 1..(q + 2) : u[k] = IF k < i THEN t[k] ELSE IF k = i THEN e ELSE t[k - 1]
  BY <1>1 DEF PutIn
<1>3. ASSUME NEW k \in (p + 1)..(q + 2) PROVE u[k] = t[k - 1]
  <2>1. k \in 1..(q + 2) /\ ~(k < i) /\ k # i
    BY <1>1, <1>2
  <2>2. QED
    BY <1>2, <2>1
<1>4. ASSUME NEW k \in 1..p PROVE u[k].chain = "OUTPUT" /\ u[k].rule \in Other \cup {Jump}
  <2>1. k \in 1..(q + 2)
    BY <1>1
  <2>2. CASE k < i
    <3>1. k \in 1..(p - 1)
      BY <1>1, <1>2, <2>2
    <3>2. u[k] = t[k]
      BY <1>2, <2>1, <2>2
    <3>3. QED
      BY <3>1, <3>2 DEF Shaped
  <2>3. CASE k = i
    <3>1. u[k] = e
      BY <1>2, <2>1, <2>3
    <3>2. QED
      BY <3>1
  <2>4. CASE i < k
    <3>1. k - 1 \in 1..(p - 1) /\ ~(k < i) /\ k # i
      BY <1>1, <1>2, <2>4
    <3>2. u[k] = t[k - 1]
      BY <1>2, <2>1, <3>1
    <3>3. QED
      BY <3>1, <3>2 DEF Shaped
  <2>5. QED
    BY <1>1, <1>2, <2>2, <2>3, <2>4
<1>5. u[p + 1].chain = "OUTPUT" /\ u[p + 1].rule = Policy
  <2>1. p + 1 \in (p + 1)..(q + 2) /\ (p + 1) - 1 = p
    BY <1>1
  <2>2. u[p + 1] = t[p]
    BY <1>3, <2>1
  <2>3. QED
    BY <2>2 DEF Shaped
<1>6. ASSUME q # p
      PROVE  /\ u[(p + 1) + 1].chain = "netrec" /\ u[(p + 1) + 1].rule = <<"head">>
             /\ u[q + 1].chain = "netrec" /\ u[q + 1].rule = <<"return">>
             /\ \A k \in ((p + 1) + 2)..((q + 1) - 1) :
                  u[k].chain = "netrec" /\ u[k].rule \in Redirect
  <2>1. /\ (p + 1) + 1 \in (p + 1)..(q + 2) /\ ((p + 1) + 1) - 1 = p + 1
        /\ q + 1 \in (p + 1)..(q + 2) /\ (q + 1) - 1 = q
    BY <1>1, <1>6
  <2>2. u[(p + 1) + 1] = t[p + 1] /\ u[q + 1] = t[q]
    BY <1>3, <2>1
  <2>3. ASSUME NEW k \in ((p + 1) + 2)..((q + 1) - 1)
        PROVE  u[k].chain = "netrec" /\ u[k].rule \in Redirect
    <3>1. k \in (p + 1)..(q + 2) /\ k - 1 \in (p + 2)..(q - 1)
      BY <1>1
    <3>2. u[k] = t[k - 1]
      BY <1>3, <3>1
    <3>3. QED
      BY <1>6, <3>1, <3>2 DEF Shaped
  <2>4. QED
    BY <1>6, <2>2, <2>3 DEF Shaped
<1>7. u[(q + 1) + 1].chain = "" /\ u[(q + 1) + 1].rule = <<"error">>
  <2>1. (q + 1) + 1 \in (p + 1)..(q + 2) /\ ((q + 1) + 1) - 1 = q + 1
    BY <1>1
  <2>2. u[(q + 1) + 1] = t[q + 1]
    BY <1>3, <2>1
  <2>3. QED
    BY <2>2 DEF Shaped
<1>8. \A k \in 1..(q - p) : u[p + 1 + k].rule = t[p + k].rule
  <2>1. \A k \in 1..(q - p) : p + 1 + k \in (p + 1)..(q + 2) /\ (p + 1 + k) - 1 = p + k
    BY <1>1
  <2>2. QED
    BY <1>3, <2>1
<1>9. Shaped(u, p + 1, q + 1)
  <2>1. /\ p + 1 \in Nat /\ q + 1 \in Nat /\ 1 <= p + 1 /\ p + 1 <= q + 1
        /\ Len(u) = (q + 1) + 1 /\ (p + 1) - 1 = p
        /\ (q + 1 # p + 1 => q # p /\ q + 1 >= (p + 1) + 2)
    BY <1>1, <1>2
  <2>2. QED
    BY <1>4, <1>5, <1>6, <1>7, <2>1 DEF Shaped
<1>10. QED
  BY <1>8, <1>9

\* A redirect is put before the return of netrec.
LEMMA PutInNetrec ==
  ASSUME NEW t, NEW u, NEW p, NEW q, NEW e, PutIn(t, u, q, e), Shaped(t, p, q), q # p,
         e.chain = "netrec", e.rule \in Redirect
  PROVE  Shaped(u, p, q + 1) /\ u[q] = e /\ \A k \in 1..(q - 1) : u[k] = t[k]
<1>1. /\ p \in Nat /\ q \in Nat /\ 1 <= p /\ p <= q /\ Len(t) = q + 1 /\ q >= p + 2
  BY DEF Shaped
<1>2. /\ Len(u) = q + 2
      /\ \A k \in 1..(q + 2) : u[k] = IF k < q THEN t[k] ELSE IF k = q THEN e ELSE t[k - 1]
  BY <1>1 DEF PutIn
<1>3. \A k \in 1..(q - 1) : u[k] = t[k]
  <2>1. \A k \in 1..(q - 1) : k \in 1..(q + 2) /\ k < q
    BY <1>1
  <2>2. QED
    BY <1>2, <2>1
<1>4. u[q] = e /\ u[q + 1] = t[q] /\ u[(q + 1) + 1] = t[q + 1]
  <2>1. /\ q \in 1..(q + 2) /\ ~(q < q)
        /\ q + 1 \in 1..(q + 2) /\ ~(q + 1 < q) /\ q + 1 # q /\ (q + 1) - 1 = q
        /\ (q + 1) + 1 \in 1..(q + 2) /\ ~((q + 1) + 1 < q) /\ (q + 1) + 1 # q
        /\ ((q + 1) + 1) - 1 = q + 1
    BY <1>1
  <2>2. QED
    BY <1>2, <2>1
<1>5. \A k \in 1..(p - 1) : u[k].chain = "OUTPUT" /\ u[k].rule \in Other \cup {Jump}
  <2>1. \A k \in 1..(p - 1) : k \in 1..(q - 1)
    BY <1>1
  <2>2. QED
    BY <1>3, <2>1 DEF Shaped
<1>6. /\ u[p].chain = "OUTPUT" /\ u[p].rule = Policy
      /\ u[p + 1].chain = "netrec" /\ u[p + 1].rule = <<"head">>
  <2>1. p \in 1..(q - 1) /\ p + 1 \in 1..(q - 1)
    BY <1>1
  <2>2. QED
    BY <1>3, <2>1 DEF Shaped
<1>7. ASSUME NEW k \in (p + 2)..((q + 1) - 1)
      PROVE  u[k].chain = "netrec" /\ u[k].rule \in Redirect
  <2>1. CASE k = q
    BY <1>4, <2>1
  <2>2. CASE k # q
    <3>1. k \in (p + 2)..(q - 1) /\ k \in 1..(q - 1)
      BY <1>1, <2>2
    <3>2. QED
      BY <1>3, <3>1 DEF Shaped
  <2>3. QED
    BY <2>1, <2>2
<1>8. Shaped(u, p, q + 1)
  <2>1. /\ q + 1 \in Nat /\ p <= q + 1 /\ Len(u) = (q + 1) + 1 /\ q + 1 >= p + 2
    BY <1>1, <1>2
  <2>2. /\ u[q + 1].chain = "netrec" /\ u[q + 1].rule = <<"return">>
        /\ u[(q + 1) + 1].chain = "" /\ u[(q + 1) + 1].rule = <<"error">>
    BY <1>4 DEF Shaped
  <2>3. QED
    BY <1>1, <1>5, <1>6, <1>7, <2>1, <2>2 DEF Shaped
<1>9. QED
  BY <1>3, <1>4, <1>8

\* netrec is made.
LEMMA ExtendedShape ==
  ASSUME NEW t, NEW u, NEW e, NEW f, Extended(t, u, e, f), NEW p, Shaped(t, p, p),
         e.chain = "netrec", e.rule = <<"head">>, f.chain = "netrec", f.rule = <<"return">>
  PROVE  Shaped(u, p, p + 2)
<1>1. p \in Nat /\ 1 <= p /\ Len(t) = p + 1
  BY DEF Shaped
<1>2. /\ Len(u) = p + 3
      /\ \A k \in 1..(p + 3) : u[k] = IF k < p + 1 THEN t[k] ELSE IF k = p + 1 THEN e
                                      ELSE IF k = p + 2 THEN f ELSE t[p + 1]
  <2>1. Len(t) + 2 = p + 3 /\ Len(t) + 1 = p + 2
    BY <1>1
  <2>2. QED
    BY <1>1, <2>1 DEF Extended
<1>3. \A k \in 1..p : u[k] = t[k]
  <2>1. \A k \in 1..p : k \in 1..(p + 3) /\ k < p + 1
    BY <1>1
  <2>2. QED
    BY <1>2, <2>1
<1>4. u[p + 1] = e /\ u[p + 2] = f /\ u[(p + 2) + 1] = t[p + 1]
  <2>1. /\ p + 1 \in 1..(p + 3) /\ ~(p + 1 < p + 1)
        /\ p + 2 \in 1..(p + 3) /\ ~(p + 2 < p + 1) /\ p + 2 # p + 1
        /\ (p + 2) + 1 \in 1..(p + 3) /\ ~((p + 2) + 1 < p + 1) /\ (p + 2) + 1 # p + 1
        /\ (p + 2) + 1 # p + 2
    BY <1>1
  <2>2. QED
    BY <1>2, <2>1
<1>5. \A k \in 1..(p - 1) : u[k].chain = "OUTPUT" /\ u[k].rule \in Other \cup {Jump}
  <2>1. \A k \in 1..(p - 1) : k \in 1..p
    BY <1>1
  <2>2. QED
    BY <1>3, <2>1 DEF Shaped
<1>6. u[p].chain = "OUTPUT" /\ u[p].rule = Policy
  <2>1. p \in 1..p
    BY <1>1
  <2>2. QED
    BY <1>3, <2>1 DEF Shaped
<1>7. /\ p + 2 \in Nat /\ p <= p + 2 /\ p + 2 >= p + 2 /\ Len(u) = (p + 2) + 1
      /\ \A k \in (p + 2)..((p + 2) - 1) : FALSE
  BY <1>1, <1>2
<1>8. u[(p + 2) + 1].chain = "" /\ u[(p + 2) + 1].rule = <<"error">>
  BY <1>4 DEF Shaped
<1>9. QED
  BY <1>1, <1>4, <1>5, <1>6, <1>7, <1>8 DEF Shaped

\* What is between the name of netrec and its return is taken out.
LEMMA FlushedShape ==
  ASSUME NEW t, NEW u, NEW p, NEW q, Shaped(t, p, q), q # p, TakenOut(t, u, p + 1, q)
  PROVE  Shaped(u, p, p + 2)
<1>1. /\ p \in Nat /\ q \in Nat /\ 1 <= p /\ p <= q /\ Len(t) = q + 1 /\ q >= p + 2
  BY DEF Shaped
<1>2. Len(u) = p + 3
      /\ \A k \in 1..(p + 3) :
           u[k] = IF k <= p + 1 THEN t[k] ELSE t[k + (q - (p + 1) - 1)]
  <2>1. Len(t) - (q - (p + 1) - 1) = p + 3
    BY <1>1
  <2>2. QED
    BY <2>1 DEF TakenOut
<1>3. \A k \in 1..(p + 1) : u[k] = t[k]
  <2>1. \A k \in 1..(p + 1) : k \in 1..(p + 3) /\ k <= p + 1
    BY <1>1
  <2>2. QED
    BY <1>2, <2>1
<1>4. u[p + 2] = t[q] /\ u[(p + 2) + 1] = t[q + 1]
  <2>1. /\ p + 2 \in 1..(p + 3) /\ ~(p + 2 <= p + 1) /\ p + 2 + (q - (p + 1) - 1) = q
        /\ (p + 2) + 1 \in 1..(p + 3) /\ ~((p + 2) + 1 <= p + 1)
        /\ (p + 2) + 1 + (q - (p + 1) - 1) = q + 1
    BY <1>1
  <2>2. u[p + 2] = t[p + 2 + (q - (p + 1) - 1)]
    BY <1>2, <2>1
  <2>3. u[(p + 2) + 1] = t[(p + 2) + 1 + (q - (p + 1) - 1)]
    BY <1>2, <2>1
  <2>4. QED
    BY <2>1, <2>2, <2>3
<1>5. \A k \in 1..(p - 1) : u[k].chain = "OUTPUT" /\ u[k].rule \in Other \cup {Jump}
  <2>1. \A k \in 1..(p - 1) : k \in 1..(p + 1)
    BY <1>1
  <2>2. QED
    BY <1>3, <2>1 DEF Shaped
<1>6. /\ u[p].chain = "OUTPUT" /\ u[p].rule = Policy
      /\ u[p + 1].chain = "netrec" /\ u[p + 1].rule = <<"head">>
  <2>1. p \in 1..(p + 1) /\ p + 1 \in 1..(p + 1)
    BY <1>1
  <2>2. QED
    BY <1>3, <2>1 DEF Shaped
<1>7. /\ p + 2 \in Nat /\ p <= p + 2 /\ p + 2 >= p + 2 /\ Len(u) = (p + 2) + 1
      /\ \A k \in (p + 2)..((p + 2) - 1) : FALSE
  BY <1>1, <1>2
<1>8. /\ u[p + 2].chain = "netrec" /\ u[p + 2].rule = <<"return">>
      /\ u[(p + 2) + 1].chain = "" /\ u[(p + 2) + 1].rule = <<"error">>
  BY <1>4 DEF Shaped
<1>9. QED
  BY <1>1, <1>5, <1>6, <1>7, <1>8 DEF Shaped

\* A rule of OUTPUT is taken out.
LEMMA DeletedShape ==
  ASSUME NEW t, NEW u, NEW i, NEW p, NEW q, Shaped(t, p, q), i \in 1..(p - 1),
         TakenOut(t, u, i - 1, i + 1)
  PROVE  Shaped(u, p - 1, q - 1) /\ SameFrom(t, p, u, p - 1, q - p)
<1>1. /\ p \in Nat /\ q \in Nat /\ 1 <= p /\ p <= q /\ Len(t) = q + 1 /\ (q # p => q >= p + 2)
  BY DEF Shaped
<1>2. /\ i \in Nat /\ 1 <= i /\ i < p /\ Len(u) = q
      /\ \A k \in 1..q : u[k] = IF k < i THEN t[k] ELSE t[k + 1]
  <2>1. i \in Nat /\ 1 <= i /\ i < p
    BY <1>1
  <2>2. Len(t) - ((i + 1) - (i - 1) - 1) = q /\ (i + 1) - (i - 1) - 1 = 1
        /\ \A k \in 1..q : k <= i - 1 <=> k < i
    BY <1>1, <2>1
  <2>3. Len(u) = q
    BY <2>2 DEF TakenOut
  <2>4. ASSUME NEW k \in 1..q PROVE u[k] = IF k < i THEN t[k] ELSE t[k + 1]
    <3>1. u[k] = IF k <= i - 1 THEN t[k] ELSE t[k + ((i + 1) - (i - 1) - 1)]
      BY <2>3 DEF TakenOut
    <3>2. QED
      BY <2>2, <3>1
  <2>5. QED
    BY <2>1, <2>3, <2>4
<1>3. ASSUME NEW k \in (p - 1)..q PROVE u[k] = t[k + 1]
  <2>1. k \in 1..q /\ ~(k < i)
    BY <1>1, <1>2
  <2>2. QED
    BY <1>2, <2>1
<1>4. ASSUME NEW k \in 1..((p - 1) - 1)
      PROVE  u[k].chain = "OUTPUT" /\ u[k].rule \in Other \cup {Jump}
  <2>1. k \in 1..q /\ k \in 1..(p - 1) /\ k + 1 \in 1..(p - 1)
    BY <1>1
  <2>2. u[k] \in {t[k], t[k + 1]}
    BY <1>2, <2>1
  <2>3. QED
    BY <2>1, <2>2 DEF Shaped
<1>5. u[p - 1].chain = "OUTPUT" /\ u[p - 1].rule = Policy
  <2>1. p - 1 \in (p - 1)..q /\ (p - 1) + 1 = p
    BY <1>1
  <2>2. u[p - 1] = t[p]
    BY <1>3, <2>1
  <2>3. QED
    BY <2>2 DEF Shaped
<1>6. ASSUME q # p
      PROVE  /\ u[(p - 1) + 1].chain = "netrec" /\ u[(p - 1) + 1].rule = <<"head">>
             /\ u[q - 1].chain = "netrec" /\ u[q - 1].rule = <<"return">>
             /\ \A k \in ((p - 1) + 2)..((q - 1) - 1) :
                  u[k].chain = "netrec" /\ u[k].rule \in Redirect
  <2>1. /\ (p - 1) + 1 \in (p - 1)..q /\ ((p - 1) + 1) + 1 = p + 1
        /\ q - 1 \in (p - 1)..q /\ (q - 1) + 1 = q
    BY <1>1, <1>6
  <2>2. u[(p - 1) + 1] = t[p + 1] /\ u[q - 1] = t[q]
    BY <1>3, <2>1
  <2>3. ASSUME NEW k \in ((p - 1) + 2)..((q - 1) - 1)
        PROVE  u[k].chain = "netrec" /\ u[k].rule \in Redirect
    <3>1. k \in (p - 1)..q /\ k + 1 \in (p + 2)..(q - 1)
      BY <1>1
    <3>2. u[k] = t[k + 1]
      BY <1>3, <3>1
    <3>3. QED
      BY <1>6, <3>1, <3>2 DEF Shaped
  <2>4. QED
    BY <1>6, <2>2, <2>3 DEF Shaped
<1>7. u[(q - 1) + 1].chain = "" /\ u[(q - 1) + 1].rule = <<"error">>
  <2>1. (q - 1) + 1 \in (p - 1)..q /\ ((q - 1) + 1) + 1 = q + 1
    BY <1>1
  <2>2. u[(q - 1) + 1] = t[q + 1]
    BY <1>3, <2>1
  <2>3. QED
    BY <2>2 DEF Shaped
<1>8. SameFrom(t, p, u, p - 1, q - p)
  <2>1. \A k \in 1..(q - p) : (p - 1) + k \in (p - 1)..q /\ ((p - 1) + k) + 1 = p + k
    BY <1>1
  <2>2. QED
    BY <1>3, <2>1 DEF SameFrom
<1>9. Shaped(u, p - 1, q - 1)
  <2>1. /\ p - 1 \in Nat /\ q - 1 \in Nat /\ 1 <= p - 1 /\ p - 1 <= q - 1
        /\ Len(u) = (q - 1) + 1 /\ (q - 1 # p - 1 => q # p /\ q - 1 >= (p - 1) + 2)
    BY <1>1, <1>2
  <2>2. QED
    BY <1>4, <1>5, <1>6, <1>7, <2>1 DEF Shaped
<1>10. QED
  BY <1>8, <1>9

\* A rule of OUTPUT is replaced.
LEMMA ChangedShape ==
  ASSUME NEW t, NEW u, NEW i, NEW e, NEW p, NEW q, Shaped(t, p, q), i \in 1..(p - 1),
         Changed(t, u, i, e), e.chain = "OUTPUT", e.rule \in Other
  PROVE  /\ Shaped(u, p, q)
         /\ \A k \in 1..(q - p) : u[p + k].rule = t[p + k].rule
<1>1. /\ p \in Nat /\ q \in Nat /\ 1 <= p /\ p <= q /\ Len(t) = q + 1 /\ (q # p => q >= p + 2)
  BY DEF Shaped
<1>2. /\ Len(u) = q + 1 /\ u[i] = e
      /\ \A k \in 1..(q + 1) : k # i => u[k] = t[k]
  BY <1>1 DEF Changed
<1>3. \A k \in p..(q + 1) : u[k] = t[k]
  <2>1. \A k \in p..(q + 1) : k \in 1..(q + 1) /\ k # i
    BY <1>1
  <2>2. QED
    BY <1>2, <2>1
<1>4. ASSUME NEW k \in 1..(p - 1)
      PROVE  u[k].chain = "OUTPUT" /\ u[k].rule \in Other \cup {Jump}
  <2>1. k \in 1..(q + 1)
    BY <1>1
  <2>2. QED
    BY <1>2, <2>1 DEF Shaped
<1>5. /\ p \in p..(q + 1) /\ q \in p..(q + 1) /\ q + 1 \in p..(q + 1)
      /\ (q # p => p + 1 \in p..(q + 1))
      /\ \A k \in (p + 2)..(q - 1) : k \in p..(q + 1)
      /\ \A k \in 1..(q - p) : p + k \in p..(q + 1)
  BY <1>1
<1>6. /\ u[p] = t[p] /\ u[q] = t[q] /\ u[q + 1] = t[q + 1] /\ (q # p => u[p + 1] = t[p + 1])
      /\ \A k \in (p + 2)..(q - 1) : u[k] = t[k]
      /\ \A k \in 1..(q - p) : u[p + k] = t[p + k]
  BY <1>3, <1>5
<1>7. Shaped(u, p, q)
  BY <1>1, <1>2, <1>4, <1>6 DEF Shaped
<1>8. QED
  BY <1>6, <1>7

-----------------------------------------------------------------------------
(* Where the counters of a copy come from.                                 *)

\* u is made of t, in its order: what is not new in u is the next of t whose rule is
\* still in u.  g says how much of t the first j of u stand for.
MadeOf(t, u, g) ==
  /\ g \in [0..Len(u) -> 0..Len(t)] /\ g[0] = 0 /\ g[Len(u)] = Len(t)
  /\ \A j \in 1..Len(u) :
       \/ u[j].map = "SET" /\ g[j] = g[j - 1]
       \/ /\ u[j] = t[g[j]] /\ g[j - 1] < g[j]
          /\ \A n \in (g[j - 1] + 1)..(g[j] - 1) : ~HasRule(u, t[n].rule)

LEMMA PutInMade ==
  ASSUME NEW t, NEW u, NEW i, NEW e, PutIn(t, u, i, e), e.map = "SET", i <= Len(t)
  PROVE  \E g : MadeOf(t, u, g)
<1> DEFINE g == [j \in 0..Len(u) |-> IF j < i THEN j ELSE j - 1]
<1>1. i \in 1..Len(u) /\ i \in Nat /\ 1 <= i /\ Len(t) \in Nat /\ Len(u) = Len(t) + 1
  BY DEF PutIn
<1>2. \A j \in 0..Len(u) : g[j] = IF j < i THEN j ELSE j - 1
  OBVIOUS
<1>3. g \in [0..Len(u) -> 0..Len(t)]
  <2>1. \A j \in 0..Len(u) : (IF j < i THEN j ELSE j - 1) \in 0..Len(t)
    BY <1>1
  <2>2. QED
    BY <2>1
<1> HIDE DEF g
<1>4. g[0] = 0 /\ g[Len(u)] = Len(t)
  <2>1. 0 \in 0..Len(u) /\ 0 < i /\ Len(u) \in 0..Len(u) /\ ~(Len(u) < i) /\ Len(u) - 1 = Len(t)
    BY <1>1
  <2>2. QED
    BY <1>2, <2>1
<1>5. ASSUME NEW j \in 1..Len(u)
      PROVE  \/ u[j].map = "SET" /\ g[j] = g[j - 1]
             \/ /\ u[j] = t[g[j]] /\ g[j - 1] < g[j]
                /\ \A n \in (g[j - 1] + 1)..(g[j] - 1) : ~HasRule(u, t[n].rule)
  <2>1. j \in 0..Len(u) /\ j - 1 \in 0..Len(u) /\ j \in Nat
    BY <1>1
  <2>2. u[j] = IF j < i THEN t[j] ELSE IF j = i THEN e ELSE t[j - 1]
    BY DEF PutIn
  <2>3. CASE j < i
    <3>1. g[j] = j /\ g[j - 1] = j - 1
      <4>1. j - 1 < i
        BY <1>1, <2>1, <2>3
      <4>2. QED
        BY <1>2, <2>1, <2>3, <4>1
    <3>2. g[j - 1] < g[j] /\ \A n \in (g[j - 1] + 1)..(g[j] - 1) : FALSE
      BY <2>1, <3>1
    <3>3. QED
      BY <2>2, <2>3, <3>1, <3>2
  <2>4. CASE j = i
    <3>1. g[j] = i - 1 /\ g[j - 1] = i - 1
      <4>1. j - 1 < i /\ ~(j < i)
        BY <1>1, <2>1, <2>4
      <4>2. QED
        BY <1>2, <2>1, <2>4, <4>1
    <3>2. u[j] = e
      BY <1>1, <2>2, <2>4
    <3>3. QED
      BY <3>1, <3>2
  <2>5. CASE i < j
    <3>1. g[j] = j - 1 /\ g[j - 1] = (j - 1) - 1
      <4>1. ~(j - 1 < i) /\ ~(j < i)
        BY <1>1, <2>1, <2>5
      <4>2. QED
        BY <1>2, <2>1, <4>1
    <3>2. g[j - 1] < g[j] /\ \A n \in (g[j - 1] + 1)..(g[j] - 1) : FALSE
      BY <2>1, <3>1
    <3>3. ~(j < i) /\ j # i
      BY <1>1, <2>1, <2>5
    <3>4. QED
      BY <2>2, <3>1, <3>2, <3>3
  <2>6. QED
    BY <1>1, <2>1, <2>3, <2>4, <2>5
<1>6. QED
  BY <1>3, <1>4, <1>5 DEF MadeOf

LEMMA TakenOutMade ==
  ASSUME NEW t, NEW u, NEW a, NEW z, TakenOut(t, u, a, z), z <= Len(t),
         \A k \in (a + 1)..(z - 1) : ~HasRule(u, t[k].rule)
  PROVE  \E g : MadeOf(t, u, g)
<1> DEFINE c == z - a - 1
           g == [j \in 0..Len(u) |-> IF j <= a THEN j ELSE j + c]
<1>1. /\ a \in Nat /\ z \in Nat /\ a < z /\ Len(t) \in Nat /\ c \in Nat /\ z = a + 1 + c
      /\ Len(u) = Len(t) - c /\ Len(u) \in Nat /\ a < Len(u)
  <2>1. /\ a \in Nat /\ z \in Nat /\ a < z /\ Len(t) \in Nat /\ z <= Len(t)
        /\ Len(u) = Len(t) - (z - a - 1)
    BY DEF TakenOut
  <2>2. QED
    BY <2>1
<1>2. \A j \in 0..Len(u) : g[j] = IF j <= a THEN j ELSE j + c
  OBVIOUS
<1>3. \A j \in 1..Len(u) : u[j] = IF j <= a THEN t[j] ELSE t[j + c]
  BY DEF TakenOut
<1>4. \A k \in (a + 1)..(a + c) : ~HasRule(u, t[k].rule)
  <2>1. z - 1 = a + c
    BY <1>1
  <2>2. QED
    BY <2>1
<1> HIDE DEF c
<1>5. g \in [0..Len(u) -> 0..Len(t)]
  <2>1. \A j \in 0..Len(u) : (IF j <= a THEN j ELSE j + c) \in 0..Len(t)
    BY <1>1
  <2>2. QED
    BY <2>1
<1> HIDE DEF g
<1>6. g[0] = 0 /\ g[Len(u)] = Len(t)
  <2>1. 0 \in 0..Len(u) /\ 0 <= a /\ Len(u) \in 0..Len(u) /\ ~(Len(u) <= a) /\ Len(u) + c = Len(t)
    BY <1>1
  <2>2. QED
    BY <1>2, <2>1
<1>7. ASSUME NEW j \in 1..Len(u)
      PROVE  /\ u[j] = t[g[j]] /\ g[j - 1] < g[j]
             /\ \A n \in (g[j - 1] + 1)..(g[j] - 1) : ~HasRule(u, t[n].rule)
  <2>1. j \in 0..Len(u) /\ j - 1 \in 0..Len(u) /\ j \in Nat /\ 1 <= j
    BY <1>1
  <2>2. CASE j <= a
    <3>1. g[j] = j /\ g[j - 1] = j - 1
      <4>1. j - 1 <= a
        BY <1>1, <2>1, <2>2
      <4>2. QED
        BY <1>2, <2>1, <2>2, <4>1
    <3>2. g[j - 1] < g[j] /\ \A n \in (g[j - 1] + 1)..(g[j] - 1) : FALSE
      BY <2>1, <3>1
    <3>3. QED
      BY <1>3, <2>2, <3>1, <3>2
  <2>3. CASE j = a + 1
    <3>1. g[j] = j + c /\ g[j - 1] = j - 1 /\ ~(j <= a)
      <4>1. j - 1 <= a /\ ~(j <= a)
        BY <1>1, <2>1, <2>3
      <4>2. QED
        BY <1>2, <2>1, <4>1
    <3>2. g[j - 1] < g[j] /\ g[j - 1] + 1 = a + 1 /\ g[j] - 1 = a + c
      BY <1>1, <2>1, <2>3, <3>1
    <3>3. QED
      BY <1>3, <1>4, <3>1, <3>2
  <2>4. CASE a + 1 < j
    <3>1. g[j] = j + c /\ g[j - 1] = (j - 1) + c /\ ~(j <= a)
      <4>1. ~(j - 1 <= a) /\ ~(j <= a)
        BY <1>1, <2>1, <2>4
      <4>2. QED
        BY <1>2, <2>1, <4>1
    <3>2. g[j - 1] < g[j] /\ \A n \in (g[j - 1] + 1)..(g[j] - 1) : FALSE
      BY <1>1, <2>1, <3>1
    <3>3. QED
      BY <1>3, <3>1, <3>2
  <2>5. QED
    BY <1>1, <2>1, <2>2, <2>3, <2>4
<1>8. QED
  BY <1>5, <1>6, <1>7 DEF MadeOf

LEMMA ChangedMade ==
  ASSUME NEW t, NEW u, NEW i, NEW e, Changed(t, u, i, e), e.map = "SET", i < Len(t),
         ~HasRule(u, t[i].rule)
  PROVE  \E g : MadeOf(t, u, g)
<1> DEFINE g == [j \in 0..Len(u) |-> IF j = i THEN i - 1 ELSE j]
<1>1. i \in 1..Len(u) /\ i \in Nat /\ 1 <= i /\ Len(t) \in Nat /\ Len(u) = Len(t)
  BY DEF Changed
<1>2. \A j \in 0..Len(u) : g[j] = IF j = i THEN i - 1 ELSE j
  OBVIOUS
<1>3. g \in [0..Len(u) -> 0..Len(t)]
  <2>1. \A j \in 0..Len(u) : (IF j = i THEN i - 1 ELSE j) \in 0..Len(t)
    BY <1>1
  <2>2. QED
    BY <2>1
<1> HIDE DEF g
<1>4. g[0] = 0 /\ g[Len(u)] = Len(t)
  <2>1. 0 \in 0..Len(u) /\ 0 # i /\ Len(u) \in 0..Len(u) /\ Len(u) # i
    BY <1>1
  <2>2. QED
    BY <1>1, <1>2, <2>1
<1>5. ASSUME NEW j \in 1..Len(u)
      PROVE  \/ u[j].map = "SET" /\ g[j] = g[j - 1]
             \/ /\ u[j] = t[g[j]] /\ g[j - 1] < g[j]
                /\ \A n \in (g[j - 1] + 1)..(g[j] - 1) : ~HasRule(u, t[n].rule)
  <2>1. j \in 0..Len(u) /\ j - 1 \in 0..Len(u) /\ j \in Nat /\ 1 <= j
    BY <1>1
  <2>2. u[j] = IF j = i THEN e ELSE t[j]
    BY DEF Changed
  <2>3. CASE j = i
    <3>1. g[j] = i - 1 /\ g[j - 1] = i - 1
      <4>1. j - 1 # i /\ j - 1 = i - 1
        BY <1>1, <2>1, <2>3
      <4>2. QED
        BY <1>2, <2>1, <2>3, <4>1
    <3>2. QED
      BY <2>2, <2>3, <3>1
  <2>4. CASE j = i + 1
    <3>1. g[j] = i + 1 /\ g[j - 1] = i - 1 /\ j # i
      <4>1. j - 1 = i /\ j # i
        BY <1>1, <2>1, <2>4
      <4>2. QED
        BY <1>2, <2>1, <2>4, <4>1
    <3>2. g[j - 1] < g[j] /\ \A n \in (g[j - 1] + 1)..(g[j] - 1) : n = i
      BY <1>1, <3>1
    <3>3. QED
      BY <2>2, <2>4, <3>1, <3>2
  <2>5. CASE j # i /\ j # i + 1
    <3>1. g[j] = j /\ g[j - 1] = j - 1
      <4>1. j - 1 # i
        BY <1>1, <2>1, <2>5
      <4>2. QED
        BY <1>2, <2>1, <2>5, <4>1
    <3>2. g[j - 1] < g[j] /\ \A n \in (g[j - 1] + 1)..(g[j] - 1) : FALSE
      BY <2>1, <3>1
    <3>3. QED
      BY <2>2, <2>5, <3>1, <3>2
  <2>6. QED
    BY <2>3, <2>4, <2>5
<1>6. QED
  BY <1>3, <1>4, <1>5 DEF MadeOf

LEMMA ExtendedMade ==
  ASSUME NEW t, NEW u, NEW e, NEW f, Extended(t, u, e, f), e.map = "SET", f.map = "SET"
  PROVE  \E g : MadeOf(t, u, g)
<1> DEFINE m == Len(t)
           g == [j \in 0..Len(u) |-> IF j < m THEN j ELSE IF j = m + 2 THEN m ELSE m - 1]
<1>1. m \in Nat /\ 1 <= m /\ Len(u) = m + 2
  BY DEF Extended
<1>2. \A j \in 0..Len(u) : g[j] = IF j < m THEN j ELSE IF j = m + 2 THEN m ELSE m - 1
  OBVIOUS
<1>3. g \in [0..Len(u) -> 0..Len(t)]
  <2>1. \A j \in 0..Len(u) : (IF j < m THEN j ELSE IF j = m + 2 THEN m ELSE m - 1) \in 0..Len(t)
    BY <1>1
  <2>2. QED
    BY <2>1
<1>4. \A j \in 1..Len(u) : u[j] = IF j < m THEN t[j] ELSE IF j = m THEN e
                                  ELSE IF j = m + 1 THEN f ELSE t[m]
  BY DEF Extended
<1> HIDE DEF g
<1>5. g[0] = 0 /\ g[Len(u)] = Len(t)
  <2>1. 0 \in 0..Len(u) /\ 0 < m /\ Len(u) \in 0..Len(u) /\ ~(Len(u) < m) /\ Len(u) = m + 2
    BY <1>1
  <2>2. QED
    BY <1>1, <1>2, <2>1
<1>6. ASSUME NEW j \in 1..Len(u)
      PROVE  \/ u[j].map = "SET" /\ g[j] = g[j - 1]
             \/ /\ u[j] = t[g[j]] /\ g[j - 1] < g[j]
                /\ \A n \in (g[j - 1] + 1)..(g[j] - 1) : ~HasRule(u, t[n].rule)
  <2>1. j \in 0..Len(u) /\ j - 1 \in 0..Len(u) /\ j \in Nat /\ 1 <= j
    BY <1>1
  <2>2. CASE j < m
    <3>1. g[j] = j /\ g[j - 1] = j - 1
      <4>1. j - 1 < m
        BY <1>1, <2>1, <2>2
      <4>2. QED
        BY <1>2, <2>1, <2>2, <4>1
    <3>2. g[j - 1] < g[j] /\ \A n \in (g[j - 1] + 1)..(g[j] - 1) : FALSE
      BY <2>1, <3>1
    <3>3. QED
      BY <1>4, <2>2, <3>1, <3>2
  <2>3. CASE j = m
    <3>1. g[j] = m - 1 /\ g[j - 1] = m - 1
      <4>1. j - 1 < m /\ j - 1 = m - 1 /\ ~(j < m) /\ j # m + 2
        BY <1>1, <2>1, <2>3
      <4>2. QED
        BY <1>2, <2>1, <4>1
    <3>2. u[j] = e
      <4>1. ~(j < m)
        BY <1>1, <2>3
      <4>2. QED
        BY <1>4, <2>3, <4>1
    <3>3. QED
      BY <3>1, <3>2
  <2>4. CASE j = m + 1
    <3>1. g[j] = m - 1 /\ g[j - 1] = m - 1
      <4>1. ~(j - 1 < m) /\ ~(j < m) /\ j # m + 2 /\ j - 1 # m + 2
        BY <1>1, <2>1, <2>4
      <4>2. QED
        BY <1>2, <2>1, <4>1
    <3>2. u[j] = f
      <4>1. ~(j < m) /\ j # m
        BY <1>1, <2>4
      <4>2. QED
        BY <1>4, <2>4, <4>1
    <3>3. QED
      BY <3>1, <3>2
  <2>5. CASE j = m + 2
    <3>1. g[j] = m /\ g[j - 1] = m - 1
      <4>1. ~(j - 1 < m) /\ ~(j < m) /\ j - 1 # m + 2
        BY <1>1, <2>1, <2>5
      <4>2. QED
        BY <1>2, <2>1, <2>5, <4>1
    <3>2. g[j - 1] < g[j] /\ \A n \in (g[j - 1] + 1)..(g[j] - 1) : FALSE
      BY <1>1, <3>1
    <3>3. u[j] = t[m]
      <4>1. ~(j < m) /\ j # m /\ j # m + 1
        BY <1>1, <2>5
      <4>2. QED
        BY <1>4, <4>1
    <3>4. QED
      BY <3>1, <3>2, <3>3
  <2>6. QED
    BY <1>1, <2>1, <2>2, <2>3, <2>4, <2>5
<1>7. QED
  BY <1>3, <1>5, <1>6 DEF MadeOf

-----------------------------------------------------------------------------
(* Types: of tables, of their copies and of the two programs.              *)

Bounds == MaxPackets \in Nat /\ \A u \in Uids : Ports[u] \in Seq(Nat) /\ Ports[u] # <<>>

Chains  == {"OUTPUT", "netrec", ""}
Entries == [chain : Chains, rule : Rules \cup Marks, cnt : Nat]
Copies  == [chain : Chains, rule : Rules \cup Marks, cnt : Nat, pos : Nat,
            map : {"NORMAL_MAP", "ZEROED", "NOMAP", "SET"}]

MapOf(r) == IF r \in Rules THEN "NORMAL_MAP" ELSE IF r = Policy THEN "ZEROED" ELSE "NOMAP"

LEMMA ParsedIs ==
  ASSUME NEW t \in Seq(Entries)
  PROVE  /\ Parse(t) \in Seq(Copies) /\ Len(Parse(t)) = Len(t) /\ SameRules(t, Parse(t))
         /\ \A i \in 1..Len(t) : /\ Parse(t)[i].rule = t[i].rule /\ Parse(t)[i].pos = i
                                 /\ Parse(t)[i].map = MapOf(t[i].rule)
<1>1. Len(t) \in Nat /\ DOMAIN t = 1..Len(t) /\ \A i \in 1..Len(t) : t[i] \in Entries
  BY LenProperties, ElementOfSeq
<1> DEFINE F(i) == [chain |-> t[i].chain, rule |-> t[i].rule, cnt |-> t[i].cnt, pos |-> i,
                    map |-> MapOf(t[i].rule)]
<1>2. Parse(t) = [i \in 1..Len(t) |-> F(i)]
  BY <1>1 DEF Parse, MapOf
<1>3. \A i \in 1..Len(t) : F(i) \in Copies
  BY <1>1 DEF Entries, Copies, MapOf
<1>4. /\ Parse(t) \in Seq(Copies) /\ Len(Parse(t)) = Len(t)
      /\ \A i \in 1..Len(t) : Parse(t)[i] = F(i)
  <2> HIDE DEF F
  <2> QED
    BY <1>1, <1>2, <1>3
<1>5. \A i \in 1..Len(t) : /\ Parse(t)[i].rule = t[i].rule /\ Parse(t)[i].pos = i
                           /\ Parse(t)[i].map = MapOf(t[i].rule)
                           /\ Parse(t)[i].chain = t[i].chain
  <2> TAKE i \in 1..Len(t)
  <2>1. Parse(t)[i] = F(i)
    BY <1>4
  <2>2. /\ F(i).rule = t[i].rule /\ F(i).pos = i /\ F(i).map = MapOf(t[i].rule)
        /\ F(i).chain = t[i].chain
    OBVIOUS
  <2> HIDE DEF F
  <2>3. QED
    BY <2>1, <2>2
<1>6. SameRules(t, Parse(t))
  BY <1>1, <1>4, <1>5 DEF SameRules
<1>7. QED
  BY <1>4, <1>5, <1>6

LEMMA NewCopy ==
  ASSUME NEW c \in Chains, NEW r \in Rules \cup Marks
  PROVE  /\ New(c, r) \in Copies /\ New(c, r).chain = c /\ New(c, r).rule = r
         /\ New(c, r).map = "SET"
BY DEF New, Copies

\* The edits of the program are those of the last section.
LEMMA InsertAtIs ==
  ASSUME NEW S, NEW t \in Seq(S), NEW e \in S, NEW i \in 1..(Len(t) + 1)
  PROVE  InsertAt(t, i, e) \in Seq(S) /\ PutIn(t, InsertAt(t, i, e), i, e)
<1> DEFINE u == InsertAt(t, i, e)
<1>0. u = Inserted(t, i, e)
  BY DEF u, InsertAt, Inserted
<1> HIDE DEF u
<1>1. /\ u \in Seq(S) /\ Len(u) = Len(t) + 1 /\ Len(t) \in Nat
      /\ \A k \in 1..Len(u) : u[k] = IF k < i THEN t[k] ELSE IF k = i THEN e ELSE t[k - 1]
  BY <1>0, InsertedIs
<1>2. PutIn(t, u, i, e)
  BY <1>1 DEF PutIn
<1>3. QED
  BY <1>1, <1>2 DEF u

LEMMA TakenOutIs ==
  ASSUME NEW S, NEW t \in Seq(S), NEW a \in 0..Len(t), NEW z \in (a + 1)..(Len(t) + 1)
  PROVE  LET u == SubSeq(t, 1, a) \o SubSeq(t, z, Len(t)) IN
         u \in Seq(S) /\ TakenOut(t, u, a, z)
<1> DEFINE u == SubSeq(t, 1, a) \o SubSeq(t, z, Len(t))
<1>1. /\ u \in Seq(S) /\ Len(u) = Len(t) - (z - a - 1) /\ Len(t) \in Nat
      /\ \A k \in 1..Len(u) : u[k] = IF k <= a THEN t[k] ELSE t[k + (z - a - 1)]
  BY CutOutIs
<1> HIDE DEF u
<1>2. TakenOut(t, u, a, z)
  BY <1>1 DEF TakenOut
<1>3. QED
  BY <1>1, <1>2 DEF u

LEMMA ExceptIs ==
  ASSUME NEW S, NEW t \in Seq(S), NEW e \in S, NEW i \in 1..Len(t)
  PROVE  [t EXCEPT ![i] = e] \in Seq(S) /\ Changed(t, [t EXCEPT ![i] = e], i, e)
<1>1. Len(t) \in Nat /\ DOMAIN t = 1..Len(t)
  BY LenProperties
<1>2. [t EXCEPT ![i] = e] \in Seq(S) /\ Len([t EXCEPT ![i] = e]) = Len(t)
  BY ExceptSeq
<1>3. QED
  BY <1>1, <1>2 DEF Changed

LEMMA ExtendedIs ==
  ASSUME NEW S, NEW t \in Seq(S), NEW e \in S, NEW f \in S, Len(t) >= 1
  PROVE  LET u == SubSeq(t, 1, Len(t) - 1) \o <<e, f>> \o <<Last(t)>> IN
         u \in Seq(S) /\ Extended(t, u, e, f)
<1> DEFINE h == SubSeq(t, 1, Len(t) - 1)
           v == h \o <<e, f>>
           u == v \o <<Last(t)>>
           m == Len(t)
<1>1. m \in Nat /\ 1 <= m /\ \A j \in 1..m : t[j] \in S
  BY LenProperties, ElementOfSeq
<1>2. h \in Seq(S) /\ Len(h) = m - 1 /\ \A j \in 1..(m - 1) : h[j] = t[j]
  <2>1. \A j \in 1..(m - 1) : t[j] \in S
    BY <1>1
  <2>2. /\ h \in Seq(S) /\ Len(h) = IF 1 <= m - 1 THEN m - 1 - 1 + 1 ELSE 0
        /\ \A j \in 1..(m - 1 - 1 + 1) : h[j] = t[1 + j - 1]
    BY <1>1, <2>1, SubSeqProperties
  <2> HIDE DEF h
  <2>3. Len(h) = m - 1
    <3>1. (IF 1 <= m - 1 THEN m - 1 - 1 + 1 ELSE 0) = m - 1
      <4> HIDE DEF m
      <4>1. QED
        BY <1>1
    <3>2. QED
      BY <2>2, <3>1
  <2>4. \A j \in 1..(m - 1) : j \in 1..(m - 1 - 1 + 1) /\ 1 + j - 1 = j
    BY <1>1
  <2>5. QED
    BY <2>2, <2>3, <2>4
<1> HIDE DEF h
<1>3. <<e, f>> \in Seq(S) /\ Len(<<e, f>>) = 2 /\ <<e, f>>[1] = e /\ <<e, f>>[2] = f
  OBVIOUS
<1>4. /\ v \in Seq(S) /\ Len(v) = m + 1
      /\ \A k \in 1..(m + 1) : v[k] = IF k <= m - 1 THEN h[k] ELSE <<e, f>>[k - (m - 1)]
  <2>1. /\ v \in Seq(S) /\ Len(v) = Len(h) + Len(<<e, f>>)
        /\ \A k \in 1..(Len(h) + Len(<<e, f>>)) :
             v[k] = IF k <= Len(h) THEN h[k] ELSE <<e, f>>[k - Len(h)]
    BY <1>2, <1>3, ConcatProperties
  <2>2. Len(h) + Len(<<e, f>>) = m + 1
    BY <1>1, <1>2, <1>3
  <2>3. QED
    BY <1>2, <2>1, <2>2
<1> HIDE DEF v
<1>5. Last(t) \in S /\ Last(t) = t[m]
  BY <1>1 DEF Last
<1>6. /\ u \in Seq(S) /\ Len(u) = Len(v) + 1
      /\ \A k \in 1..Len(u) : u[k] = IF k \in 1..Len(v) THEN v[k] ELSE Last(t)
  BY <1>4, <1>5, AppendedIs
<1> HIDE DEF u
<1>7. Len(u) = m + 2
  BY <1>1, <1>4, <1>6
<1>8. ASSUME NEW k \in 1..Len(u)
      PROVE  u[k] = IF k < m THEN t[k] ELSE IF k = m THEN e ELSE IF k = m + 1 THEN f ELSE t[m]
  <2>1. CASE k < m
    <3>1. k \in 1..(m - 1) /\ k <= m - 1 /\ k \in 1..(m + 1)
      BY <1>1, <1>7, <2>1
    <3>2. QED
      BY <1>2, <1>4, <1>6, <2>1, <3>1
  <2>2. CASE k = m
    <3>1. ~(k <= m - 1) /\ k \in 1..(m + 1) /\ k - (m - 1) = 1 /\ ~(k < m)
      BY <1>1, <2>2
    <3>2. v[k] = e
      BY <1>3, <1>4, <3>1
    <3>3. QED
      BY <1>4, <1>6, <2>2, <3>1, <3>2
  <2>3. CASE k = m + 1
    <3>1. ~(k <= m - 1) /\ k \in 1..(m + 1) /\ k - (m - 1) = 2 /\ ~(k < m) /\ k # m
      BY <1>1, <2>3
    <3>2. v[k] = f
      BY <1>3, <1>4, <3>1
    <3>3. QED
      BY <1>4, <1>6, <2>3, <3>1, <3>2
  <2>4. CASE k = m + 2
    <3>1. k \notin 1..(m + 1) /\ ~(k < m) /\ k # m /\ k # m + 1
      BY <1>1, <2>4
    <3>2. QED
      BY <1>4, <1>5, <1>6, <3>1
  <2>5. QED
    BY <1>1, <1>7, <2>1, <2>2, <2>3, <2>4
<1>9. Extended(t, u, e, f)
  BY <1>1, <1>7, <1>8 DEF Extended
<1>10. QED
  BY <1>6, <1>9 DEF u, v, h

-----------------------------------------------------------------------------
(* What is left of a table, with its counters, in an edited copy.          *)

\* As MadeOf, of a table: the copy knows the place of what it did not make.
CarriedBy(t, u, g) ==
  /\ g \in [0..Len(u) -> 0..Len(t)] /\ g[0] = 0 /\ g[Len(u)] = Len(t)
  /\ \A j \in 1..Len(u) :
       \/ u[j].map = "SET" /\ g[j] = g[j - 1]
       \/ /\ u[j].rule = t[g[j]].rule /\ u[j].pos = g[j] /\ u[j].map = MapOf(t[g[j]].rule)
          /\ g[j - 1] < g[j]
          /\ \A n \in (g[j - 1] + 1)..(g[j] - 1) : ~HasRule(u, t[n].rule)

Carried(t, u) == \E g : CarriedBy(t, u, g)

LEMMA MadeCarried ==
  ASSUME NEW t \in Seq(Entries), NEW u \in Seq(Copies), \E g : MadeOf(Parse(t), u, g)
  PROVE  Carried(t, u)
<1>1. PICK g : MadeOf(Parse(t), u, g)
  OBVIOUS
<1>2. /\ Len(Parse(t)) = Len(t) /\ Len(t) \in Nat /\ Len(u) \in Nat
      /\ \A i \in 1..Len(t) : /\ Parse(t)[i].rule = t[i].rule /\ Parse(t)[i].pos = i
                              /\ Parse(t)[i].map = MapOf(t[i].rule)
  BY ParsedIs, LenProperties
<1>3. g \in [0..Len(u) -> 0..Len(t)] /\ g[0] = 0 /\ g[Len(u)] = Len(t)
  BY <1>1, <1>2 DEF MadeOf
<1>4. ASSUME NEW j \in 1..Len(u)
      PROVE  \/ u[j].map = "SET" /\ g[j] = g[j - 1]
             \/ /\ u[j].rule = t[g[j]].rule /\ u[j].pos = g[j] /\ u[j].map = MapOf(t[g[j]].rule)
                /\ g[j - 1] < g[j]
                /\ \A n \in (g[j - 1] + 1)..(g[j] - 1) : ~HasRule(u, t[n].rule)
  <2>1. g[j] \in 0..Len(t) /\ g[j - 1] \in 0..Len(t)
    <3>1. j \in 0..Len(u) /\ j - 1 \in 0..Len(u)
      BY <1>2
    <3>2. QED
      BY <1>3, <3>1
  <2>2. CASE u[j].map = "SET" /\ g[j] = g[j - 1]
    BY <2>2
  <2>3. CASE /\ u[j] = Parse(t)[g[j]] /\ g[j - 1] < g[j]
             /\ \A n \in (g[j - 1] + 1)..(g[j] - 1) : ~HasRule(u, Parse(t)[n].rule)
    <3>1. g[j] \in 1..Len(t) /\ \A n \in (g[j - 1] + 1)..(g[j] - 1) : n \in 1..Len(t)
      <4> DEFINE y == g[j - 1]
                 z == g[j]
      <4>1. Len(t) \in Nat /\ z \in 0..Len(t) /\ y \in 0..Len(t) /\ y < z
        BY <1>2, <2>1, <2>3
      <4> HIDE DEF y, z
      <4>2. z \in 1..Len(t) /\ \A n \in (y + 1)..(z - 1) : n \in 1..Len(t)
        BY ONLY <4>1
      <4>3. QED
        BY <4>2 DEF y, z
    <3>2. QED
      BY <1>2, <2>3, <3>1
  <2>4. QED
    BY <1>1, <2>2, <2>3 DEF MadeOf
<1>5. CarriedBy(t, u, g)
  BY <1>3, <1>4 DEF CarriedBy
<1>6. QED
  BY <1>5 DEF Carried

LEMMA CarriedKept ==
  ASSUME NEW t, NEW u, NEW v, Carried(t, u), SameRules(t, v), Len(u) \in Nat
  PROVE  Carried(v, u)
<1>1. PICK g : CarriedBy(t, u, g)
  BY DEF Carried
<1>2. Len(t) \in Nat /\ Len(v) = Len(t) /\ \A i \in 1..Len(t) : v[i].rule = t[i].rule
  BY DEF SameRules
<1>3. g \in [0..Len(u) -> 0..Len(v)] /\ g[0] = 0 /\ g[Len(u)] = Len(v)
  BY <1>1, <1>2 DEF CarriedBy
<1>4. ASSUME NEW j \in 1..Len(u)
      PROVE  \/ u[j].map = "SET" /\ g[j] = g[j - 1]
             \/ /\ u[j].rule = v[g[j]].rule /\ u[j].pos = g[j] /\ u[j].map = MapOf(v[g[j]].rule)
                /\ g[j - 1] < g[j]
                /\ \A n \in (g[j - 1] + 1)..(g[j] - 1) : ~HasRule(u, v[n].rule)
  <2>1. g[j] \in 0..Len(t) /\ g[j - 1] \in 0..Len(t)
    <3>1. j \in 0..Len(u) /\ j - 1 \in 0..Len(u)
      OBVIOUS
    <3>2. QED
      BY <1>2, <1>3, <3>1
  <2>2. CASE u[j].map = "SET" /\ g[j] = g[j - 1]
    BY <2>2
  <2>3. CASE /\ u[j].rule = t[g[j]].rule /\ u[j].pos = g[j] /\ u[j].map = MapOf(t[g[j]].rule)
             /\ g[j - 1] < g[j]
             /\ \A n \in (g[j - 1] + 1)..(g[j] - 1) : ~HasRule(u, t[n].rule)
    <3>1. g[j] \in 1..Len(t) /\ \A n \in (g[j - 1] + 1)..(g[j] - 1) : n \in 1..Len(t)
      <4> DEFINE y == g[j - 1]
                 z == g[j]
      <4>1. Len(t) \in Nat /\ z \in 0..Len(t) /\ y \in 0..Len(t) /\ y < z
        BY <1>2, <2>1, <2>3
      <4> HIDE DEF y, z
      <4>2. z \in 1..Len(t) /\ \A n \in (y + 1)..(z - 1) : n \in 1..Len(t)
        BY ONLY <4>1
      <4>3. QED
        BY <4>2 DEF y, z
    <3>2. QED
      BY <1>2, <2>3, <3>1
  <2>4. QED
    BY <1>1, <2>2, <2>3 DEF CarriedBy
<1>5. CarriedBy(v, u, g)
  BY <1>3, <1>4 DEF CarriedBy
<1>6. QED
  BY <1>5 DEF Carried

\* A counter that is looked up is looked up at a place of the table.
LEMMA CarriedPlaces ==
  ASSUME NEW t, NEW u, Carried(t, u), Len(u) \in Nat, Len(t) \in Nat, NEW j \in 1..Len(u),
         u[j].map \in {"NORMAL_MAP", "ZEROED"}
  PROVE  u[j].pos \in 1..Len(t) /\ t[u[j].pos].rule = u[j].rule
<1>1. PICK g : CarriedBy(t, u, g)
  BY DEF Carried
<1>2. g[j] \in 0..Len(t) /\ g[j - 1] \in 0..Len(t)
  <2>1. j \in 0..Len(u) /\ j - 1 \in 0..Len(u)
    OBVIOUS
  <2>2. QED
    BY <1>1, <2>1 DEF CarriedBy
<1>3. u[j].rule = t[g[j]].rule /\ u[j].pos = g[j] /\ g[j - 1] < g[j]
  BY <1>1 DEF CarriedBy
<1>4. QED
  BY <1>2, <1>3

-----------------------------------------------------------------------------
(* What a script and the other program put into their copies.              *)

ScriptStates ==
  [kind : {"apply", "remove"}, uid : Uids \cup {0}, k : Nat,
   step : {"find", "grep", "new", "link", "flush", "append", "end"},
   status : {"running", "ok", "failed"}]

\* What a script is at in each of its steps.
ScriptOK(s) ==
  /\ s.kind = "apply" => s.uid \in Uids
  /\ s.step \in {"grep", "new", "link", "append"} => s.kind = "apply"
  /\ s.step = "append" => s.k \in 1..Len(Ports[s.uid])
  /\ s.step \in {"find", "grep", "new", "link", "flush"} => s.k = 1
  /\ s.step = "end" <=> s.status # "running"

\* What script s may rely on when its table is t and the edit of its step is done or
\* not; bl is that a listing failed.
Promised(s, bl, t, d) ==
  /\ s.step = "append" => HasRule(t, Jump) /\ Bodied(t, s.uid, IF d THEN s.k ELSE s.k - 1)
  /\ s.step = "flush" /\ s.kind = "apply" => HasRule(t, Jump)
  /\ s.step = "flush" /\ d => Bodied(t, s.uid, 0)
  /\ s.step = "link" /\ d => HasRule(t, Jump)
  /\ ~bl => Once(t, {Jump}) /\ (s.step = "link" /\ ~d => ~HasRule(t, Jump))
  /\ s.status = "ok" =>
       IF s.kind = "apply" THEN HasRule(t, Jump) /\ Bodied(t, s.uid, Len(Ports[s.uid]))
       ELSE Bare(t)

LEMMA PromisedAlike ==
  ASSUME NEW s, NEW bl, NEW t, NEW u, NEW d, Promised(s, bl, t, d), Alike(t, u)
  PROVE  Promised(s, bl, u, d)
<1>1. /\ \A o, n : Bodied(t, o, n) => Bodied(u, o, n)
      /\ Bare(t) => Bare(u)
  BY AlikeNetrec
<1>2. (HasRule(t, Jump) <=> HasRule(u, Jump)) /\ (Once(t, {Jump}) => Once(u, {Jump}))
  BY DEF Alike
<1>3. QED
  BY <1>1, <1>2 DEF Promised

\* The copy of a script's command, of table t.
RecorderCopy(s, bl, t, u) ==
  /\ Carried(t, u) /\ Formed(u) /\ OneOwner(u) /\ OthersAlike(t, u)
  /\ Promised(s, bl, u, TRUE)

\* That of the other program.
OtherCopy(t, u) == Carried(t, u) /\ Alike(t, u) /\ Once(u, Other)

LEMMA RuleKinds ==
  /\ Redirect \subseteq Rules /\ Other \subseteq Rules /\ Jump \in Rules
  /\ {<<"head">>, <<"return">>, <<"error">>, Policy} \subseteq Marks
  /\ Rules \cap Marks = {} /\ Policy \notin Rules
BY KindsDiffer DEF Rules, Marks

\* A shape is in a sequence of copies, so that its places are.
LEMMA ShapeBounds ==
  ASSUME NEW t, NEW p, NEW q, Shaped(t, p, q)
  PROVE  /\ p \in Nat /\ q \in Nat /\ 1 <= p /\ p <= q /\ Len(t) = q + 1
         /\ p \in 1..Len(t) /\ q \in 1..Len(t)
         /\ q # p => q >= p + 2
<1>1. /\ p \in Nat /\ q \in Nat /\ 1 <= p /\ p <= q /\ Len(t) = q + 1 /\ (q # p => q >= p + 2)
  BY DEF Shaped
<1>2. QED
  BY <1>1

\* --new netrec
LEMMA CreateCopy ==
  ASSUME NEW t \in Seq(Entries), NEW p, Shaped(t, p, p),
         NEW u, u = CreateChain(Parse(t), "netrec")
  PROVE  /\ u \in Seq(Copies) /\ Carried(t, u) /\ Shaped(u, p, p + 2)
         /\ \A r \in Rules : HasRule(u, r) <=> HasRule(t, r)
         /\ \A R : R \subseteq Rules /\ Once(t, R) => Once(u, R)
<1> DEFINE c == Parse(t)
           e == New("netrec", <<"head">>)
           f == New("netrec", <<"return">>)
<1>1. c \in Seq(Copies) /\ Len(c) = Len(t) /\ SameRules(t, c)
  BY ParsedIs
<1>2. /\ e \in Copies /\ e.chain = "netrec" /\ e.rule = <<"head">> /\ e.map = "SET"
      /\ f \in Copies /\ f.chain = "netrec" /\ f.rule = <<"return">> /\ f.map = "SET"
  BY RuleKinds, NewCopy DEF Chains
<1>3. Len(c) >= 1 /\ Shaped(c, p, p)
  BY <1>1, ShapeBounds, SameShape
<1>4. u = SubSeq(c, 1, Len(c) - 1) \o <<e, f>> \o <<Last(c)>>
  BY DEF CreateChain
<1> HIDE DEF c, e, f
<1>5. u \in Seq(Copies) /\ Extended(c, u, e, f)
  BY <1>1, <1>2, <1>3, <1>4, ExtendedIs
<1>6. Shaped(u, p, p + 2)
  BY <1>2, <1>3, <1>5, ExtendedShape
<1>7. /\ \A r : HasRule(u, r) <=> HasRule(c, r) \/ e.rule = r \/ f.rule = r
      /\ \A R : Once(c, R) /\ e.rule \notin R /\ f.rule \notin R => Once(u, R)
  BY <1>5, ExtendedRules
<1>8. (\A r : HasRule(t, r) <=> HasRule(c, r)) /\ (\A R : Once(t, R) <=> Once(c, R))
  BY <1>1, SameRulesAlike
<1>9. e.rule \notin Rules /\ f.rule \notin Rules
  BY <1>2, RuleKinds
<1>10. Carried(t, u)
  <2>1. \E g : MadeOf(c, u, g)
    BY <1>2, <1>5, ExtendedMade
  <2>2. QED
    BY <1>5, <2>1, MadeCarried DEF c
<1>11. QED
  BY <1>5, <1>6, <1>7, <1>8, <1>9, <1>10

\* A rule is put into OUTPUT.
LEMMA PutCopy ==
  ASSUME NEW t \in Seq(Entries), NEW p, NEW q, Shaped(t, p, q), NEW i \in {1, p},
         NEW r \in Other \cup {Jump}, NEW u, u = InsertAt(Parse(t), i, New("OUTPUT", r))
  PROVE  /\ u \in Seq(Copies) /\ Carried(t, u) /\ Shaped(u, p + 1, q + 1)
         /\ \A k \in 1..(q - p) : u[p + 1 + k].rule = t[p + k].rule
         /\ \A s : HasRule(u, s) <=> HasRule(t, s) \/ s = r
         /\ \A R : Once(t, R) /\ (r \in R => \A s \in R : ~HasRule(t, s)) => Once(u, R)
<1> DEFINE c == Parse(t)
           e == New("OUTPUT", r)
<1>1. c \in Seq(Copies) /\ Len(c) = Len(t) /\ SameRules(t, c)
  BY ParsedIs
<1>2. e \in Copies /\ e.chain = "OUTPUT" /\ e.rule = r /\ e.map = "SET"
  <2>1. r \in Rules \cup Marks /\ "OUTPUT" \in Chains
    BY RuleKinds DEF Chains
  <2>2. QED
    BY <2>1, NewCopy
<1>3. Shaped(c, p, q)
  BY <1>1, SameShape
<1>4. /\ i \in 1..(Len(c) + 1) /\ i <= p /\ i <= Len(c)
      /\ p \in Nat /\ q \in Nat /\ p <= q /\ Len(c) = q + 1
  BY <1>3, ShapeBounds
<1> HIDE DEF c, e
<1>5. u \in Seq(Copies) /\ PutIn(c, u, i, e)
  BY <1>1, <1>2, <1>4, InsertAtIs DEF c, e
<1>6. Shaped(u, p + 1, q + 1) /\ \A k \in 1..(q - p) : u[p + 1 + k].rule = c[p + k].rule
  <2>1. e.chain = "OUTPUT" /\ e.rule \in Other \cup {Jump} /\ i <= p
    BY <1>2, <1>4
  <2>2. QED
    BY <1>3, <1>5, <2>1, PutInOutput
<1>7. \A k \in 1..(q - p) : c[p + k].rule = t[p + k].rule
  <2>1. \A k \in 1..(q - p) : p + k \in 1..Len(c)
    BY <1>4
  <2>2. QED
    BY <1>1, <2>1 DEF SameRules
<1>8. /\ \A s : HasRule(u, s) <=> HasRule(c, s) \/ e.rule = s
      /\ \A R : Once(c, R) /\ (e.rule \in R => \A s \in R : ~HasRule(c, s)) => Once(u, R)
  BY <1>5, PutInRules
<1>9. (\A s : HasRule(t, s) <=> HasRule(c, s)) /\ (\A R : Once(t, R) <=> Once(c, R))
  BY <1>1, SameRulesAlike
<1>10. Carried(t, u)
  <2>1. \E g : MadeOf(c, u, g)
    BY <1>2, <1>4, <1>5, PutInMade
  <2>2. QED
    BY <1>5, <2>1, MadeCarried DEF c
<1>11. QED
  BY <1>2, <1>5, <1>6, <1>7, <1>8, <1>9, <1>10

\* -A netrec ... REDIRECT
LEMMA AppendCopy ==
  ASSUME NEW t \in Seq(Entries), NEW o, NEW n \in Nat, Bodied(t, o, n),
         <<"redirect", o, Ports[o][n + 1]>> \in Redirect,
         NEW u, u = AppendEntry(Parse(t), "netrec", <<"redirect", o, Ports[o][n + 1]>>)
  PROVE  /\ u \in Seq(Copies) /\ Carried(t, u) /\ Bodied(u, o, n + 1)
         /\ \A r \in Other \cup {Jump} : HasRule(u, r) <=> HasRule(t, r)
         /\ \A R : R \subseteq Other \cup {Jump} /\ Once(t, R) => Once(u, R)
<1> DEFINE c == Parse(t)
           r == <<"redirect", o, Ports[o][n + 1]>>
           e == New("netrec", r)
<1>1. c \in Seq(Copies) /\ Len(c) = Len(t) /\ SameRules(t, c) /\ DOMAIN c = 1..Len(c)
  BY ParsedIs, LenProperties
<1>2. e \in Copies /\ e.chain = "netrec" /\ e.rule = r /\ e.map = "SET" /\ r \in Redirect
  BY RuleKinds, NewCopy DEF Chains
<1>3. PICK p : /\ Shaped(t, p, p + 2 + n)
               /\ \A i \in 1..n : t[p + 1 + i].rule = <<"redirect", o, Ports[o][i]>>
  BY DEF Bodied
<1> DEFINE q == p + 2 + n
<1>4. Shaped(c, p, q)
  BY <1>1, <1>3, SameShape
<1>5. /\ p \in Nat /\ q \in Nat /\ q # p /\ Len(c) = q + 1 /\ q \in 1..(Len(c) + 1)
      /\ q <= Len(c) /\ q = p + 2 + n
  BY <1>4, ShapeBounds
<1> HIDE DEF c, q, e, r
<1>6. u = InsertAt(c, q, e)
  <2>1. FootOf(c, "netrec") = q
    BY <1>1, <1>4, <1>5, PlacesFound
  <2>2. QED
    BY <2>1 DEF AppendEntry, c, e, r
<1>7. u \in Seq(Copies) /\ PutIn(c, u, q, e)
  BY <1>1, <1>2, <1>5, <1>6, InsertAtIs
<1>8. Shaped(u, p, q + 1) /\ u[q] = e /\ \A k \in 1..(q - 1) : u[k] = c[k]
  <2>1. /\ e.chain = "netrec" /\ e.rule \in Redirect /\ q # p
        /\ PutIn(c, u, q, e) /\ Shaped(c, p, q)
    BY <1>2, <1>4, <1>5, <1>7
  <2>2. QED
    BY ONLY <2>1, PutInNetrec
<1>9. ASSUME NEW i \in 1..(n + 1) PROVE u[p + 1 + i].rule = <<"redirect", o, Ports[o][i]>>
  <2>1. CASE i = n + 1
    <3>1. p + 1 + i = q
      BY <1>5, <2>1
    <3>2. QED
      BY <1>2, <1>8, <2>1, <3>1 DEF r
  <2>2. CASE i # n + 1
    <3>1. i \in 1..n /\ p + 1 + i \in 1..(q - 1) /\ p + 1 + i \in 1..Len(t)
      BY <1>1, <1>5, <2>2
    <3>2. u[p + 1 + i] = c[p + 1 + i] /\ c[p + 1 + i].rule = t[p + 1 + i].rule
      BY <1>1, <1>8, <3>1 DEF SameRules
    <3>3. QED
      BY <1>3, <3>1, <3>2
  <2>3. QED
    BY <2>1, <2>2
<1>10. Bodied(u, o, n + 1)
  <2>1. p + 2 + (n + 1) = q + 1 /\ n + 1 \in Nat
    BY <1>5
  <2>2. QED
    BY <1>8, <1>9, <2>1 DEF Bodied
<1>11. /\ \A s : HasRule(u, s) <=> HasRule(c, s) \/ e.rule = s
       /\ \A R : Once(c, R) /\ (e.rule \in R => \A s \in R : ~HasRule(c, s)) => Once(u, R)
  <2>1. PutIn(c, u, q, e)
    BY <1>7
  <2>2. QED
    BY ONLY <2>1, PutInRules
<1>12. (\A s : HasRule(t, s) <=> HasRule(c, s)) /\ (\A R : Once(t, R) <=> Once(c, R))
  BY <1>1, SameRulesAlike
<1>13. Carried(t, u)
  <2>1. \E g : MadeOf(c, u, g)
    BY <1>2, <1>5, <1>7, PutInMade
  <2>2. QED
    BY <1>7, <2>1, MadeCarried DEF c
<1>14. e.rule \notin Other \cup {Jump}
  BY <1>2, KindsDiffer
<1>15. QED
  BY <1>7, <1>10, <1>11, <1>12, <1>13, <1>14

\* -F netrec
LEMMA FlushCopy ==
  ASSUME NEW t \in Seq(Entries), NEW p, NEW q, Shaped(t, p, q), q # p, NEW o,
         NEW u, u = FlushEntries(Parse(t), "netrec")
  PROVE  /\ u \in Seq(Copies) /\ Carried(t, u) /\ Bodied(u, o, 0)
         /\ \A r \in Other \cup {Jump} : HasRule(u, r) <=> HasRule(t, r)
         /\ \A R : Once(t, R) => Once(u, R)
<1> DEFINE c == Parse(t)
<1>1. c \in Seq(Copies) /\ Len(c) = Len(t) /\ SameRules(t, c) /\ DOMAIN c = 1..Len(c)
  BY ParsedIs, LenProperties
<1>2. Shaped(c, p, q)
  BY <1>1, SameShape
<1>3. /\ p \in Nat /\ q \in Nat /\ 1 <= p /\ p + 2 <= q /\ Len(c) = q + 1
      /\ p + 1 \in 0..Len(c) /\ q \in ((p + 1) + 1)..(Len(c) + 1) /\ q <= Len(c)
  <2>1. p \in Nat /\ q \in Nat /\ 1 <= p /\ q >= p + 2 /\ Len(c) = q + 1
    BY <1>2, ShapeBounds
  <2>2. QED
    BY <2>1
<1> HIDE DEF c
<1>4. u = SubSeq(c, 1, p + 1) \o SubSeq(c, q, Len(c))
  <2>1. HeadOf(c, "netrec") = p + 1 /\ FootOf(c, "netrec") = q
    BY <1>1, <1>2, PlacesFound
  <2>2. QED
    BY <2>1 DEF FlushEntries, c
<1>5. u \in Seq(Copies) /\ TakenOut(c, u, p + 1, q)
  BY <1>1, <1>3, <1>4, TakenOutIs
<1>6. Shaped(u, p, p + 2)
  BY <1>2, <1>5, FlushedShape
<1>7. Bodied(u, o, 0)
  <2>1. p + 2 + 0 = p + 2
    BY <1>3
  <2>2. QED
    BY <1>6, <2>1 DEF Bodied
<1>8. /\ \A r : HasRule(u, r) => HasRule(c, r)
      /\ \A r : HasRule(c, r) /\ (\A k \in ((p + 1) + 1)..(q - 1) : c[k].rule # r) => HasRule(u, r)
      /\ \A R : Once(c, R) => Once(u, R)
  BY <1>5, TakenOutRules
<1>9. (\A s : HasRule(t, s) <=> HasRule(c, s)) /\ (\A R : Once(t, R) <=> Once(c, R))
  BY <1>1, SameRulesAlike
<1>10. \A k \in ((p + 1) + 1)..(q - 1) : c[k].rule \in Redirect
  <2>1. \A k \in ((p + 1) + 1)..(q - 1) : k \in 1..Len(c) /\ p + 1 < k /\ k < q
    BY <1>3
  <2>2. QED
    BY <1>2, <2>1, ShapePlaces
<1>11. \A r \in Redirect : ~HasRule(u, r)
  <2>1. \A i \in 1..Len(u) : u[i].rule \notin Redirect
    <3>1. \A i \in 1..Len(u) : u[i].rule \in Redirect => p + 1 < i /\ i < p + 2 /\ i \in Nat
      BY <1>6, ShapePlaces
    <3>2. QED
      BY <1>3, <3>1
  <2>2. QED
    BY <2>1 DEF HasRule
<1>12. Carried(t, u)
  <2>1. \E g : MadeOf(c, u, g)
    BY <1>3, <1>5, <1>10, <1>11, TakenOutMade
  <2>2. QED
    BY <1>5, <2>1, MadeCarried DEF c
<1>13. \A r \in Other \cup {Jump} : r \notin Redirect
  BY KindsDiffer
<1>14. QED
  BY <1>5, <1>7, <1>8, <1>9, <1>10, <1>12, <1>13

\* The other program deletes its rule.
LEMMA DeleteCopy ==
  ASSUME NEW t \in Seq(Entries), NEW p, NEW q, Shaped(t, p, q), Once(t, Other),
         NEW r \in Other, HasRule(t, r), NEW u, u = DeleteEntry(Parse(t), r)
  PROVE  /\ u \in Seq(Copies) /\ Carried(t, u) /\ Shaped(u, p - 1, q - 1)
         /\ SameFrom(t, p, u, p - 1, q - p)
         /\ HasRule(u, Jump) <=> HasRule(t, Jump)
         /\ \A R : Once(t, R) => Once(u, R)
<1> DEFINE c == Parse(t)
           i == FirstOf(c, r)
<1>1. c \in Seq(Copies) /\ Len(c) = Len(t) /\ SameRules(t, c) /\ DOMAIN c = 1..Len(c)
  BY ParsedIs, LenProperties
<1>2. Shaped(c, p, q)
  BY <1>1, SameShape
<1>3. (\A s : HasRule(t, s) <=> HasRule(c, s)) /\ (\A R : Once(t, R) <=> Once(c, R))
  BY <1>1, SameRulesAlike
<1>4. i \in 1..Len(c) /\ c[i].rule = r
  <2>1. \E k \in 1..Len(c) : c[k].rule = r
    BY <1>3 DEF HasRule
  <2>2. QED
    BY <1>1, <2>1 DEF FirstOf
<1>5. p \in Nat /\ q \in Nat /\ 1 <= p /\ p <= q /\ Len(c) = q + 1
  BY <1>2, ShapeBounds
<1> HIDE DEF c, i
<1>6. i < p
  BY <1>2, <1>4, ShapePlaces
<1>7. /\ i \in Nat /\ 1 <= i /\ i \in 1..(p - 1) /\ i - 1 \in 0..Len(c)
      /\ i + 1 \in ((i - 1) + 1)..(Len(c) + 1) /\ i + 1 <= Len(c)
  BY <1>4, <1>5, <1>6
<1>8. u = SubSeq(c, 1, i - 1) \o SubSeq(c, i + 1, Len(c))
  BY DEF DeleteEntry, RemoveAt, c, i
<1>9. u \in Seq(Copies) /\ TakenOut(c, u, i - 1, i + 1)
  BY <1>1, <1>7, <1>8, TakenOutIs
<1>10. Shaped(u, p - 1, q - 1) /\ SameFrom(c, p, u, p - 1, q - p)
  BY <1>2, <1>7, <1>9, DeletedShape
<1>11. \A k \in 1..(q - p) : c[p + k].rule = t[p + k].rule
  <2>1. \A k \in 1..(q - p) : p + k \in 1..Len(c)
    BY <1>5
  <2>2. QED
    BY <1>1, <2>1 DEF SameRules
<1>12. /\ \A s : HasRule(u, s) => HasRule(c, s)
       /\ \A s : HasRule(c, s) /\ (\A k \in ((i - 1) + 1)..((i + 1) - 1) : c[k].rule # s)
                   => HasRule(u, s)
       /\ \A R : Once(c, R) => Once(u, R)
  BY <1>9, TakenOutRules
<1>13. \A k \in ((i - 1) + 1)..((i + 1) - 1) : k = i
  BY <1>7
<1>14. Jump # r
  BY KindsDiffer
<1>15. ~HasRule(u, r)
  <2> SUFFICES ASSUME NEW k \in 1..Len(u), u[k].rule = r PROVE FALSE
    BY DEF HasRule
  <2>1. PICK j \in 1..Len(c) :
          u[k] = c[j] /\ j = IF k <= i - 1 THEN k ELSE k + ((i + 1) - (i - 1) - 1)
    BY <1>9, TakenOutPlaces
  <2>2. Len(u) \in Nat
    BY <1>9, LenProperties
  <2>3. j # i
    <3>1. k \in Nat /\ (i + 1) - (i - 1) - 1 = 1
      BY <1>7, <2>2
    <3>2. QED
      BY <1>7, <2>1, <3>1
  <2>4. j = i
    BY <1>3, <1>4, <2>1 DEF Once
  <2>5. QED
    BY <2>3, <2>4
<1>16. Carried(t, u)
  <2>1. \A k \in ((i - 1) + 1)..((i + 1) - 1) : ~HasRule(u, c[k].rule)
    BY <1>4, <1>13, <1>15
  <2>2. \E g : MadeOf(c, u, g)
    BY <1>7, <1>9, <2>1, TakenOutMade
  <2>3. QED
    BY <1>9, <2>2, MadeCarried DEF c
<1>17. HasRule(u, Jump) <=> HasRule(t, Jump)
  BY <1>3, <1>4, <1>12, <1>13, <1>14
<1>18. SameFrom(t, p, u, p - 1, q - p)
  BY <1>10, <1>11, SameFromSame
<1>19. QED
  BY <1>3, <1>9, <1>10, <1>12, <1>16, <1>17, <1>18

\* It replaces its rule.
LEMMA ReplaceCopy ==
  ASSUME NEW t \in Seq(Entries), NEW p, NEW q, Shaped(t, p, q), Once(t, Other),
         NEW o \in Other, NEW r \in Other, o # r, HasRule(t, o),
         NEW u, u = ReplaceEntry(Parse(t), o, r)
  PROVE  /\ u \in Seq(Copies) /\ Carried(t, u) /\ Shaped(u, p, q)
         /\ SameFrom(t, p, u, p, q - p)
         /\ HasRule(u, Jump) <=> HasRule(t, Jump)
         /\ Once(t, {Jump}) => Once(u, {Jump})
         /\ Once(u, Other)
<1> DEFINE c == Parse(t)
           i == FirstOf(c, o)
           e == New("OUTPUT", r)
<1>1. c \in Seq(Copies) /\ Len(c) = Len(t) /\ SameRules(t, c) /\ DOMAIN c = 1..Len(c)
  BY ParsedIs, LenProperties
<1>2. Shaped(c, p, q)
  BY <1>1, SameShape
<1>3. (\A s : HasRule(t, s) <=> HasRule(c, s)) /\ (\A R : Once(t, R) <=> Once(c, R))
  BY <1>1, SameRulesAlike
<1>4. i \in 1..Len(c) /\ c[i].rule = o
  <2>1. \E k \in 1..Len(c) : c[k].rule = o
    BY <1>3 DEF HasRule
  <2>2. QED
    BY <1>1, <2>1 DEF FirstOf
<1>5. p \in Nat /\ q \in Nat /\ 1 <= p /\ p <= q /\ Len(c) = q + 1
  BY <1>2, ShapeBounds
<1>6. e \in Copies /\ e.chain = "OUTPUT" /\ e.rule = r /\ e.map = "SET" /\ e.rule \in Other
  <2>1. r \in Rules \cup Marks /\ "OUTPUT" \in Chains
    BY RuleKinds DEF Chains
  <2>2. QED
    BY <2>1, NewCopy
<1> HIDE DEF c, i, e
<1>7. i < p /\ c[i].chain = "OUTPUT"
  <2>1. i < p
    BY <1>2, <1>4, ShapePlaces
  <2>2. i <= p
    BY <1>4, <1>5, <2>1
  <2>3. QED
    BY <1>2, <1>4, <2>1, <2>2, ShapePlaces
<1>8. i \in Nat /\ 1 <= i /\ i \in 1..(p - 1) /\ i < Len(c)
  BY <1>4, <1>5, <1>7
<1>9. u = [c EXCEPT ![i] = e]
  <2>1. u = [c EXCEPT ![i] = New(c[i].chain, r)]
    BY DEF ReplaceEntry, c, i
  <2>2. QED
    BY <1>7, <2>1 DEF e
<1>10. u \in Seq(Copies) /\ Changed(c, u, i, e)
  <2>1. [c EXCEPT ![i] = e] \in Seq(Copies) /\ Changed(c, [c EXCEPT ![i] = e], i, e)
    BY <1>1, <1>4, <1>6, ExceptIs, Zenon
  <2>2. QED
    BY <1>9, <2>1
<1>11. Shaped(u, p, q) /\ \A k \in 1..(q - p) : u[p + k].rule = c[p + k].rule
  BY <1>2, <1>6, <1>8, <1>10, ChangedShape
<1>12. \A k \in 1..(q - p) : c[p + k].rule = t[p + k].rule
  <2>1. \A k \in 1..(q - p) : p + k \in 1..Len(c)
    BY <1>5
  <2>2. QED
    BY <1>1, <2>1 DEF SameRules
<1>13. /\ \A s : s # c[i].rule /\ s # e.rule => (HasRule(u, s) <=> HasRule(c, s))
       /\ \A R : Once(c, R) /\ (e.rule \in R => c[i].rule \in R) => Once(u, R)
  BY <1>10, ChangedRules
<1>14. Jump # o /\ Jump # r
  BY KindsDiffer
<1>15. ~HasRule(u, o)
  <2> SUFFICES ASSUME NEW k \in 1..Len(u), u[k].rule = o PROVE FALSE
    BY DEF HasRule
  <2>1. k \in 1..Len(c) /\ u[k] = IF k = i THEN e ELSE c[k]
    BY <1>10 DEF Changed
  <2>2. k # i
    BY <1>6, <2>1
  <2>3. k = i
    BY <1>3, <1>4, <2>1, <2>2 DEF Once
  <2>4. QED
    BY <2>2, <2>3
<1>16. Carried(t, u)
  <2>1. \E g : MadeOf(c, u, g)
    BY <1>4, <1>6, <1>8, <1>10, <1>15, ChangedMade
  <2>2. QED
    BY <1>10, <2>1, MadeCarried DEF c
<1>17. HasRule(u, Jump) <=> HasRule(t, Jump)
  BY <1>3, <1>4, <1>6, <1>13, <1>14
<1>18. (Once(t, {Jump}) => Once(u, {Jump})) /\ Once(u, Other)
  BY <1>3, <1>4, <1>6, <1>13, <1>14
<1>19. SameFrom(t, p, u, p, q - p)
  BY <1>11, <1>12 DEF SameFrom
<1>20. QED
  BY <1>10, <1>11, <1>16, <1>17, <1>18, <1>19

\* The command of a script.
LEMMA RecorderEdits ==
  ASSUME Bounds, table \in Seq(Entries), script \in ScriptStates, ScriptOK(script),
         script.step \in {"new", "link", "flush", "append"}, Possible,
         Formed(table), OneOwner(table), Promised(script, blind, table, FALSE)
  PROVE  /\ Edit(Parse(table)) \in Seq(Copies)
         /\ RecorderCopy(script, blind, table, Edit(Parse(table)))
<1> DEFINE u == Edit(Parse(table))
<1>1. PICK p, q : Shaped(table, p, q)
  BY DEF Formed
<1>2. (HasChain(table, "netrec") <=> q # p) /\ (HasChain(table, "netrec") <=> script.step # "new")
  <2>1. DOMAIN table = 1..Len(table)
    BY LenProperties
  <2>2. QED
    BY <1>1, <2>1, PlacesFound DEF Possible
<1>3. Jump \in Rules /\ Other \subseteq Rules /\ Jump \notin Other /\ Jump \in Other \cup {Jump}
  BY RuleKinds, KindsDiffer
<1>4. script.status # "ok"
  BY DEF ScriptOK, ScriptStates
<1>5. ~blind => Once(table, {Jump}) /\ (script.step = "link" => ~HasRule(table, Jump))
  BY DEF Promised
<1>6. CASE script.step = "new"
  <2>1. u = CreateChain(Parse(table), "netrec")
    BY <1>6 DEF Edit
  <2> HIDE DEF u
  <2>2. /\ u \in Seq(Copies) /\ Carried(table, u) /\ Shaped(u, p, p + 2)
        /\ \A r \in Rules : HasRule(u, r) <=> HasRule(table, r)
        /\ \A R : R \subseteq Rules /\ Once(table, R) => Once(u, R)
    BY <1>1, <1>2, <1>6, <2>1, CreateCopy
  <2>3. Bare(u)
    BY <2>2 DEF Bare
  <2>4. OthersAlike(table, u) /\ (Once(table, {Jump}) => Once(u, {Jump}))
    <3>1. {Jump} \subseteq Rules
      BY <1>3
    <3>2. QED
      BY <1>3, <2>2, <3>1 DEF OthersAlike
  <2>5. Promised(script, blind, u, TRUE)
    BY <1>4, <1>5, <1>6, <2>4 DEF Promised
  <2>6. QED
    BY <2>2, <2>3, <2>4, <2>5, BareOwned DEF RecorderCopy, Formed, u
<1>7. CASE script.step = "link"
  <2>1. u = InsertAt(Parse(table), p, New("OUTPUT", Jump))
    <3>1. SameRules(table, Parse(table)) /\ DOMAIN Parse(table) = 1..Len(Parse(table))
      BY ParsedIs, LenProperties
    <3>2. FootOf(Parse(table), "OUTPUT") = p
      BY <1>1, <3>1, SameShape, PlacesFound
    <3>3. QED
      BY <1>7, <3>2 DEF Edit, AppendEntry
  <2> HIDE DEF u
  <2>2. /\ u \in Seq(Copies) /\ Carried(table, u) /\ Shaped(u, p + 1, q + 1)
        /\ \A s : HasRule(u, s) <=> HasRule(table, s) \/ s = Jump
        /\ \A R : Once(table, R) /\ (Jump \in R => \A s \in R : ~HasRule(table, s)) => Once(u, R)
    BY <1>1, <1>3, <2>1, PutCopy
  <2>3. OneOwner(u)
    <3>1. PICK o : \A i \in 1..Len(table) :
                     table[i].rule \in Redirect => table[i].rule[2] = o
      BY DEF OneOwner
    <3>2. \A r \in Redirect : HasRule(u, r) => r[2] = o
      <4>1. \A r \in Redirect : r # Jump
        BY KindsDiffer
      <4>2. \A r \in Redirect : HasRule(u, r) => HasRule(table, r)
        BY <2>2, <4>1
      <4>3. QED
        BY <3>1, <4>2 DEF HasRule
    <3>3. QED
      BY <3>2 DEF HasRule, OneOwner
  <2>4. OthersAlike(table, u)
    BY <1>3, <2>2 DEF OthersAlike
  <2>5. Promised(script, blind, u, TRUE)
    BY <1>4, <1>5, <1>7, <2>2 DEF Promised
  <2>6. QED
    BY <2>2, <2>3, <2>4, <2>5 DEF RecorderCopy, Formed, u
<1>8. CASE script.step = "flush"
  <2>1. u = FlushEntries(Parse(table), "netrec")
    BY <1>8 DEF Edit
  <2> HIDE DEF u
  <2>2. /\ u \in Seq(Copies) /\ Carried(table, u) /\ Bodied(u, script.uid, 0)
        /\ \A r \in Other \cup {Jump} : HasRule(u, r) <=> HasRule(table, r)
        /\ \A R : Once(table, R) => Once(u, R)
    BY <1>1, <1>2, <1>8, <2>1, FlushCopy
  <2>3. OthersAlike(table, u) /\ (Once(table, {Jump}) => Once(u, {Jump}))
        /\ (HasRule(u, Jump) <=> HasRule(table, Jump))
    BY <1>3, <2>2 DEF OthersAlike
  <2>4. Promised(script, blind, u, TRUE)
    <3>1. script.kind = "apply" => HasRule(table, Jump)
      BY <1>8 DEF Promised
    <3>2. QED
      BY <1>4, <1>5, <1>8, <2>2, <2>3, <3>1 DEF Promised
  <2>5. QED
    BY <2>2, <2>3, <2>4, BodyOwned DEF RecorderCopy, u
<1>9. CASE script.step = "append"
  <2> DEFINE n == script.k - 1
  <2>1. /\ script.k \in 1..Len(Ports[script.uid]) /\ script.k \in Nat /\ script.uid \in Uids
        /\ HasRule(table, Jump) /\ Bodied(table, script.uid, n)
    BY <1>9 DEF ScriptOK, ScriptStates, Promised
  <2>2. n \in Nat /\ n + 1 = script.k
    BY <2>1 DEF Bodied
  <2> HIDE DEF n
  <2>3. u = AppendEntry(Parse(table), "netrec",
                        <<"redirect", script.uid, Ports[script.uid][n + 1]>>)
    BY <1>9, <2>2 DEF Edit, NextRedirect
  <2> HIDE DEF u
  <2>4. <<"redirect", script.uid, Ports[script.uid][n + 1]>> \in Redirect
    <3>1. DOMAIN Ports[script.uid] = 1..Len(Ports[script.uid])
      BY <2>1, LenProperties DEF Bounds
    <3>2. QED
      BY <2>1, <2>2, <3>1 DEF Redirect
  <2>5. /\ u \in Seq(Copies) /\ Carried(table, u) /\ Bodied(u, script.uid, n + 1)
        /\ \A r \in Other \cup {Jump} : HasRule(u, r) <=> HasRule(table, r)
        /\ \A R : R \subseteq Other \cup {Jump} /\ Once(table, R) => Once(u, R)
    BY <2>1, <2>2, <2>3, <2>4, AppendCopy
  <2>6. OthersAlike(table, u) /\ (Once(table, {Jump}) => Once(u, {Jump})) /\ HasRule(u, Jump)
    <3>1. {Jump} \subseteq Other \cup {Jump} /\ Other \subseteq Other \cup {Jump}
      OBVIOUS
    <3>2. QED
      BY <1>3, <2>1, <2>5, <3>1 DEF OthersAlike
  <2>7. Promised(script, blind, u, TRUE)
    BY <1>4, <1>5, <1>9, <2>2, <2>5, <2>6 DEF Promised
  <2>8. QED
    BY <2>5, <2>6, <2>7, BodyOwned DEF RecorderCopy, u
<1>10. QED
  BY <1>6, <1>7, <1>8, <1>9

\* The other program changes nothing of netrec and of what leads to it.
LEMMA AlikeFrom ==
  ASSUME NEW t, NEW u, NEW p, NEW q, NEW z, Shaped(t, p, q), Shaped(u, z, z + (q - p)),
         SameFrom(t, p, u, z, q - p), HasRule(u, Jump) <=> HasRule(t, Jump),
         Once(t, {Jump}) => Once(u, {Jump})
  PROVE  Alike(t, u)
<1>1. ASSUME NEW m, NEW n, Shaped(t, m, n)
      PROVE  \E y : /\ Shaped(u, y, y + (n - m))
                    /\ \A i \in 1..(n - m) : u[y + i].rule = t[m + i].rule
  <2>1. m = p /\ n = q
    BY <1>1, ShapeUnique
  <2>2. \A i \in 1..(q - p) : u[z + i].rule = t[p + i].rule
    BY DEF SameFrom
  <2>3. QED
    BY <2>1, <2>2
<1>2. QED
  BY <1>1 DEF Alike

\* The tables it may make of t.
OtherTables(t) ==
  {InsertEntry(t, "OUTPUT", r) : r \in IF RuleSet(t) \cap Other = {} THEN {<<"other", 1>>} ELSE {}}
    \cup {DeleteEntry(t, r) : r \in RuleSet(t) \cap Other}
    \cup {ReplaceEntry(t, <<"other", 1>>, r) :
            r \in IF <<"other", 1>> \in RuleSet(t) THEN {<<"other", 2>>} ELSE {}}

LEMMA RuleSetIs ==
  ASSUME NEW S, NEW t \in Seq(S), NEW r
  PROVE  r \in RuleSet(t) <=> HasRule(t, r)
<1>1. DOMAIN t = 1..Len(t)
  BY LenProperties
<1>2. QED
  BY <1>1 DEF RuleSet, HasRule

LEMMA OtherCopies ==
  ASSUME table \in Seq(Entries), Formed(table), Once(table, Other),
         NEW new \in OtherTables(Parse(table))
  PROVE  new \in Seq(Copies) /\ OtherCopy(table, new)
<1> DEFINE c == Parse(table)
<1>1. PICK p, q : Shaped(table, p, q)
  BY DEF Formed
<1>2. p \in Nat /\ q \in Nat /\ 1 <= p /\ p <= q
  BY <1>1, ShapeBounds
<1>3. c \in Seq(Copies) /\ \A r : r \in RuleSet(c) <=> HasRule(table, r)
  <2>1. c \in Seq(Copies) /\ SameRules(table, c)
    BY ParsedIs
  <2> HIDE DEF c
  <2>2. \A r : HasRule(table, r) <=> HasRule(c, r)
    BY <2>1, SameRulesAlike
  <2>3. QED
    BY <2>1, <2>2, RuleSetIs
<1>4. <<"other", 1>> \in Other /\ <<"other", 2>> \in Other /\ <<"other", 1>> # <<"other", 2>>
  BY DEF Other
<1>5. \A r \in Other : r # Jump
  BY KindsDiffer
<1>6. CASE RuleSet(c) \cap Other = {} /\ new = InsertEntry(c, "OUTPUT", <<"other", 1>>)
  <2>1. new = InsertAt(Parse(table), 1, New("OUTPUT", <<"other", 1>>))
    BY <1>6 DEF InsertEntry
  <2>2. /\ new \in Seq(Copies) /\ Carried(table, new) /\ Shaped(new, p + 1, q + 1)
        /\ \A k \in 1..(q - p) : new[p + 1 + k].rule = table[p + k].rule
        /\ \A s : HasRule(new, s) <=> HasRule(table, s) \/ s = <<"other", 1>>
        /\ \A R : Once(table, R) /\ (<<"other", 1>> \in R => \A s \in R : ~HasRule(table, s))
                    => Once(new, R)
    <3>1. 1 \in {1, p} /\ <<"other", 1>> \in Other \cup {Jump}
      BY <1>4
    <3>2. QED
      BY <1>1, <2>1, <3>1, PutCopy
  <2>3. Shaped(new, p + 1, (p + 1) + (q - p)) /\ SameFrom(table, p, new, p + 1, q - p)
    <3>1. (p + 1) + (q - p) = q + 1
      BY <1>2
    <3>2. QED
      BY <2>2, <3>1 DEF SameFrom
  <2>4. /\ HasRule(new, Jump) <=> HasRule(table, Jump)
        /\ Once(table, {Jump}) => Once(new, {Jump})
    BY <1>4, <1>5, <2>2
  <2>5. Once(new, Other)
    <3>1. \A s \in Other : ~HasRule(table, s)
      BY <1>3, <1>6
    <3>2. QED
      BY <2>2, <3>1
  <2>6. QED
    BY <1>1, <2>2, <2>3, <2>4, <2>5, AlikeFrom DEF OtherCopy
<1>7. ASSUME NEW r \in RuleSet(c) \cap Other, new = DeleteEntry(c, r)
      PROVE  new \in Seq(Copies) /\ OtherCopy(table, new)
  <2>1. HasRule(table, r) /\ r \in Other
    BY <1>3
  <2>2. /\ new \in Seq(Copies) /\ Carried(table, new) /\ Shaped(new, p - 1, q - 1)
        /\ SameFrom(table, p, new, p - 1, q - p)
        /\ HasRule(new, Jump) <=> HasRule(table, Jump)
        /\ \A R : Once(table, R) => Once(new, R)
    BY <1>1, <1>7, <2>1, DeleteCopy
  <2>3. (p - 1) + (q - p) = q - 1
    BY <1>2
  <2>4. QED
    BY <1>1, <2>2, <2>3, AlikeFrom DEF OtherCopy
<1>8. CASE /\ <<"other", 1>> \in RuleSet(c)
           /\ new = ReplaceEntry(c, <<"other", 1>>, <<"other", 2>>)
  <2>1. HasRule(table, <<"other", 1>>)
    BY <1>3, <1>8
  <2>2. /\ new \in Seq(Copies) /\ Carried(table, new) /\ Shaped(new, p, q)
        /\ SameFrom(table, p, new, p, q - p)
        /\ HasRule(new, Jump) <=> HasRule(table, Jump)
        /\ Once(table, {Jump}) => Once(new, {Jump})
        /\ Once(new, Other)
    <3> DEFINE a == <<"other", 1>>
               b == <<"other", 2>>
    <3>1. new = ReplaceEntry(Parse(table), a, b) /\ a \in Other /\ b \in Other /\ a # b
      BY <1>4, <1>8
    <3>2. HasRule(table, a)
      BY <2>1
    <3> HIDE DEF c, a, b
    <3>3. QED
      BY <1>1, <3>1, <3>2, ReplaceCopy
  <2>3. p + (q - p) = q
    BY <1>2
  <2>4. QED
    BY <1>1, <2>2, <2>3, AlikeFrom DEF OtherCopy
<1>9. QED
  <2> HIDE DEF c
  <2>1. new \in OtherTables(c)
    BY DEF c
  <2>2. \/ RuleSet(c) \cap Other = {} /\ new = InsertEntry(c, "OUTPUT", <<"other", 1>>)
        \/ \E r \in RuleSet(c) \cap Other : new = DeleteEntry(c, r)
        \/ /\ <<"other", 1>> \in RuleSet(c)
           /\ new = ReplaceEntry(c, <<"other", 1>>, <<"other", 2>>)
    BY <2>1, Zenon DEF OtherTables
  <2>3. QED
    BY <1>6, <1>7, <1>8, <2>2

-----------------------------------------------------------------------------
(* The inductive invariant.                                                *)

Sessions == [at : {"idle", "cached", "adding"}, cache : Seq(Copies), num : Nat,
             stale : BOOLEAN, plus : Seq(Nat)]

\* A counter that a commit looks up is at a place of the table that was read.
Placed(e) ==
  e.at = "cached" =>
    \A j \in 1..Len(e.cache) :
      e.cache[j].map \in {"NORMAL_MAP", "ZEROED"} => e.cache[j].pos \in 1..e.num

SessionType(e) == e \in Sessions /\ (e.at = "idle" => e = Idle) /\ Placed(e)

Types ==
  /\ table \in Seq(Entries)
  /\ session \in [Procs -> Sessions] /\ \A p \in Procs : SessionType(session[p])
  /\ script \in ScriptStates /\ ScriptOK(script)
  /\ script.step \in {"find", "grep", "end"} => session["recorder"] = Idle
  /\ foreign \in Other \cup {None}
  /\ budget \in [scripts : Nat, failures : Nat, edits : Nat, packets : 0..MaxPackets]
  /\ hits \in [Rules \cup {Policy} -> Nat]
  /\ \A r \in Rules \cup {Policy} : hits[r] <= budget.packets
  /\ collided \in BOOLEAN /\ blind \in BOOLEAN

\* The table in the kernel, and the rule of the other program.
TableOK(t, f) ==
  /\ Formed(t) /\ OneOwner(t) /\ Once(t, Other)
  /\ \A r \in Other : HasRule(t, r) <=> r = f

\* A copy of what is still in the kernel, or counters for it.
SessionOK(p, e, s, bl, t) ==
  ~e.stale =>
    /\ e.at = "cached" => /\ e.num = Len(t)
                          /\ p = "recorder" => RecorderCopy(s, bl, t, e.cache)
                          /\ p = "other" => OtherCopy(t, e.cache)
    /\ e.at = "adding" => Len(e.plus) = Len(t)

Waits(e) == e.at = "adding"

Safe ==
  /\ TableOK(table, foreign)
  /\ Promised(script, blind, table, Waits(session["recorder"]))
  /\ \A p \in Procs : SessionOK(p, session[p], script, blind, table)

\* The counter of an entry, with what is on its way to it.
Coming(e, i)    == IF Waits(e) THEN e.plus[i] ELSE 0
Due(t, e, f, i) == t[i].cnt + Coming(e, i) + Coming(f, i)
DueFor(r, t, e, f) == [i \in 1..Len(t) |-> IF t[i].rule = r THEN Due(t, e, f, i) ELSE 0]

Counting(t, e, f, h) ==
  (Waits(e) => ~e.stale) /\ (Waits(f) => ~f.stale) =>
    /\ \A r \in Rules : Total(DueFor(r, t, e, f)) = h[r]
    /\ \A i \in 1..Len(t) : t[i].rule = Policy => Due(t, e, f, i) <= h[Policy]

IInv ==
  Types /\ (~collided => Safe /\ Counting(table, session["recorder"], session["other"], hits))

LEMMA ProcsAre ==
  /\ "recorder" \in Procs /\ "other" \in Procs /\ "recorder" # "other"
  /\ \A p \in Procs : p = "recorder" \/ p = "other"
BY DEF Procs

LEMMA IdleIs ==
  /\ SessionType(Idle) /\ Idle.at = "idle" /\ ~Waits(Idle)
  /\ \A p, s, bl, t : SessionOK(p, Idle, s, bl, t)
<1>1. Idle \in Sessions /\ Idle.at = "idle"
  <2>1. <<>> \in Seq(Copies) /\ <<>> \in Seq(Nat)
    BY EmptySeq
  <2>2. QED
    BY <2>1 DEF Idle, Sessions
<1>2. QED
  BY <1>1 DEF SessionType, Placed, SessionOK, Waits

\* What is known of a table depends on its rules alone.
LEMMA KeptWithRules ==
  ASSUME NEW t, NEW v, SameRules(t, v)
  PROVE  /\ \A f : TableOK(t, f) => TableOK(v, f)
         /\ \A s, bl, d : Promised(s, bl, t, d) => Promised(s, bl, v, d)
         /\ \A p, s, bl, e : e \in Sessions /\ SessionOK(p, e, s, bl, t)
                               => SessionOK(p, e, s, bl, v)
<1>1. /\ \A r : HasRule(t, r) <=> HasRule(v, r)
      /\ \A R : Once(t, R) <=> Once(v, R)
      /\ Alike(t, v) /\ (Formed(t) => Formed(v))
  BY SameRulesAlike
<1>2. Formed(t) /\ OneOwner(t) => OneOwner(v)
  BY <1>1, AlikeNetrec
<1>3. \A f : TableOK(t, f) => TableOK(v, f)
  BY <1>1, <1>2 DEF TableOK
<1>4. \A s, bl, d : Promised(s, bl, t, d) => Promised(s, bl, v, d)
  BY <1>1, PromisedAlike
<1>5. \A u : Len(u) \in Nat =>
        /\ Carried(t, u) => Carried(v, u)
        /\ Alike(t, u) => Alike(v, u)
        /\ OthersAlike(t, u) => OthersAlike(v, u)
  BY CarriedKept, AlikeKept
<1>6. ASSUME NEW p, NEW s, NEW bl, NEW e, e \in Sessions, SessionOK(p, e, s, bl, t)
      PROVE  SessionOK(p, e, s, bl, v)
  <2>1. Len(e.cache) \in Nat
    <3>1. e.cache \in Seq(Copies)
      BY <1>6 DEF Sessions
    <3>2. QED
      BY <3>1, LenProperties
  <2>2. Len(v) = Len(t)
    BY DEF SameRules
  <2>3. QED
    BY <1>5, <1>6, <2>1, <2>2 DEF SessionOK, RecorderCopy, OtherCopy
<1>7. QED
  BY <1>3, <1>4, <1>6

\* The calls of a commit, and a packet.
LEMMA ReplacedIs ==
  ASSUME Types, NEW p \in Procs, session[p].at = "cached", session[p].num = Len(table),
         NEW new, new = session[p].cache,
         NEW v, v = [i \in DOMAIN new |-> Entry(new[i].chain, new[i].rule)],
         NEW plus, plus = [i \in DOMAIN new |-> Plus(new[i], table)]
  PROVE  /\ v \in Seq(Entries) /\ Len(v) = Len(new) /\ SameRules(new, v)
         /\ \A i \in 1..Len(new) : v[i].cnt = 0 /\ v[i].rule = new[i].rule
         /\ plus \in Seq(Nat) /\ Len(plus) = Len(new)
         /\ \A i \in 1..Len(new) : plus[i] = Plus(new[i], table)
<1>1. /\ table \in Seq(Entries) /\ new \in Seq(Copies) /\ SessionType(session[p])
      /\ session[p] \in Sessions
  BY DEF Types, Sessions
<1>2. /\ Len(new) \in Nat /\ DOMAIN new = 1..Len(new)
      /\ \A i \in 1..Len(new) : new[i] \in Copies
      /\ \A i \in 1..Len(table) : table[i] \in Entries
  BY <1>1, LenProperties, ElementOfSeq
<1>3. \A i \in 1..Len(new) : Entry(new[i].chain, new[i].rule) \in Entries
  BY <1>2 DEF Entry, Entries, Copies
<1>4. \A i \in 1..Len(new) : Plus(new[i], table) \in Nat
  <2> SUFFICES ASSUME NEW i \in 1..Len(new) PROVE Plus(new[i], table) \in Nat
    OBVIOUS
  <2>1. new[i].map \in {"NORMAL_MAP", "ZEROED", "NOMAP", "SET"} /\ new[i].cnt \in Nat
    BY <1>2 DEF Copies
  <2>2. CASE new[i].map \in {"NORMAL_MAP", "ZEROED"}
    <3>1. new[i].pos \in 1..Len(table)
      BY <1>1, <2>2 DEF SessionType, Placed
    <3>2. table[new[i].pos].cnt \in Nat
      BY <1>2, <3>1 DEF Entries
    <3>3. QED
      BY <2>1, <2>2, <3>2 DEF Plus
  <2>3. CASE new[i].map \in {"NOMAP", "SET"}
    BY <2>3 DEF Plus
  <2>4. QED
    BY <2>1, <2>2, <2>3
<1>5. /\ v \in Seq(Entries) /\ Len(v) = Len(new)
      /\ \A i \in 1..Len(new) : v[i] = Entry(new[i].chain, new[i].rule)
  <2>1. v = [i \in 1..Len(new) |-> Entry(new[i].chain, new[i].rule)]
    BY <1>2
  <2>2. QED
    BY <1>2, <1>3, <2>1
<1>6. /\ plus \in Seq(Nat) /\ Len(plus) = Len(new)
      /\ \A i \in 1..Len(new) : plus[i] = Plus(new[i], table)
  <2>1. plus = [i \in 1..Len(new) |-> Plus(new[i], table)]
    BY <1>2
  <2>2. QED
    BY <1>2, <1>4, <2>1
<1>7. \A i \in 1..Len(new) : /\ v[i].chain = new[i].chain /\ v[i].rule = new[i].rule
                             /\ v[i].cnt = 0
  <2>1. \A c, r : Entry(c, r).chain = c /\ Entry(c, r).rule = r /\ Entry(c, r).cnt = 0
    BY DEF Entry
  <2>2. QED
    BY <1>5, <2>1
<1>8. SameRules(new, v)
  BY <1>2, <1>5, <1>7 DEF SameRules
<1>9. QED
  BY <1>5, <1>6, <1>7, <1>8

LEMMA AddedIs ==
  ASSUME Types, NEW p \in Procs, Len(session[p].plus) = Len(table)
  PROVE  /\ Added(p) \in Seq(Entries) /\ SameRules(table, Added(p))
         /\ \A i \in 1..Len(table) : /\ Added(p)[i].rule = table[i].rule
                                     /\ Added(p)[i].cnt = table[i].cnt + session[p].plus[i]
<1>1. /\ table \in Seq(Entries) /\ session[p].plus \in Seq(Nat)
  BY DEF Types, Sessions
<1>2. /\ Len(table) \in Nat /\ DOMAIN table = 1..Len(table)
      /\ \A i \in 1..Len(table) : table[i] \in Entries /\ session[p].plus[i] \in Nat
  BY <1>1, LenProperties, ElementOfSeq
<1> DEFINE F(i) == [table[i] EXCEPT !.cnt = @ + session[p].plus[i]]
<1>3. \A i \in 1..Len(table) :
        /\ F(i) \in Entries /\ F(i).chain = table[i].chain /\ F(i).rule = table[i].rule
        /\ F(i).cnt = table[i].cnt + session[p].plus[i]
  BY <1>2 DEF Entries
<1>4. Added(p) = [i \in 1..Len(table) |-> F(i)]
  BY <1>2 DEF Added
<1> HIDE DEF F
<1>5. /\ Added(p) \in Seq(Entries) /\ Len(Added(p)) = Len(table)
      /\ \A i \in 1..Len(table) : Added(p)[i] = F(i)
  BY <1>2, <1>3, <1>4
<1>6. QED
  BY <1>2, <1>3, <1>5 DEF SameRules

LEMMA CountedIs ==
  ASSUME Types, NEW i \in DOMAIN table,
         NEW v, v = [table EXCEPT ![i].cnt = @ + 1]
  PROVE  /\ i \in 1..Len(table) /\ v \in Seq(Entries) /\ SameRules(table, v)
         /\ \A k \in 1..Len(table) : /\ v[k].rule = table[k].rule
                                     /\ v[k].cnt = IF k = i THEN table[k].cnt + 1 ELSE table[k].cnt
<1>1. /\ table \in Seq(Entries) /\ Len(table) \in Nat /\ DOMAIN table = 1..Len(table)
      /\ \A k \in 1..Len(table) : table[k] \in Entries
  BY LenProperties, ElementOfSeq DEF Types
<1> DEFINE e == [table[i] EXCEPT !.cnt = @ + 1]
<1>2. /\ e \in Entries /\ e.chain = table[i].chain /\ e.rule = table[i].rule
      /\ e.cnt = table[i].cnt + 1
  <2> DEFINE x == table[i]
  <2>1. x \in Entries
    BY <1>1
  <2> HIDE DEF x
  <2>2. /\ [x EXCEPT !.cnt = @ + 1] \in Entries
        /\ [x EXCEPT !.cnt = @ + 1].chain = x.chain /\ [x EXCEPT !.cnt = @ + 1].rule = x.rule
        /\ [x EXCEPT !.cnt = @ + 1].cnt = x.cnt + 1
    BY ONLY <2>1 DEF Entries
  <2>3. QED
    BY <2>2 DEF x
<1>3. v = [table EXCEPT ![i] = e]
  OBVIOUS
<1> HIDE DEF e
<1>4. v \in Seq(Entries) /\ Len(v) = Len(table) /\ \A k \in 1..Len(table) : v[k] = IF k = i THEN e ELSE table[k]
  BY <1>1, <1>2, <1>3, ExceptSeq
<1>5. QED
  BY <1>1, <1>2, <1>4 DEF SameRules

LEMMA SessionPut ==
  ASSUME NEW ss \in [Procs -> Sessions], \A p \in Procs : SessionType(ss[p]),
         NEW p \in Procs, NEW e, SessionType(e), NEW st, st = [ss EXCEPT ![p] = e]
  PROVE  /\ st \in [Procs -> Sessions] /\ \A x \in Procs : SessionType(st[x])
         /\ st[p] = e /\ \A x \in Procs : x # p => st[x] = ss[x]
<1>1. e \in Sessions
  BY DEF SessionType
<1>2. QED
  BY <1>1

\* What the parts of a commit do.
LEMMA ReplaceDoes ==
  ASSUME Types, NEW p \in Procs, NEW q \in Procs, q # p, Replace(p)
  PROVE  LET new == session[p].cache IN
         /\ session[p].at = "cached" /\ session[p].num = Len(table) /\ new \in Seq(Copies)
         /\ table' \in Seq(Entries) /\ Len(table') = Len(new) /\ SameRules(new, table')
         /\ \A i \in 1..Len(new) : table'[i].cnt = 0 /\ table'[i].rule = new[i].rule
         /\ session' \in [Procs -> Sessions] /\ \A x \in Procs : SessionType(session'[x])
         /\ Waits(session'[p]) /\ ~session'[p].stale /\ Len(session'[p].plus) = Len(new)
         /\ \A i \in 1..Len(new) : session'[p].plus[i] = Plus(new[i], table)
         /\ session'[q].at = session[q].at /\ (session'[q].stale <=> session[q].at # "idle")
         /\ session[q] = Idle => session'[q] = Idle
         /\ collided' = (collided \/ session[p].stale)
<1> DEFINE new == session[p].cache
           plus == [i \in DOMAIN new |-> Plus(new[i], table)]
           e == [at |-> "adding", cache |-> <<>>, num |-> 0, stale |-> FALSE, plus |-> plus]
           f == [session[q] EXCEPT !.stale = session[q].at # "idle"]
<1>1. /\ session[p].at = "cached" /\ session[p].num = Len(table)
      /\ session \in [Procs -> Sessions] /\ \A x \in Procs : SessionType(session[x])
      /\ session[p] \in Sessions /\ session[q] \in Sessions
  BY DEF Replace, Accepts, Types
<1>2. new \in Seq(Copies)
  BY <1>1 DEF Sessions
<1>3. (CHOOSE x \in Procs : x # p) = q
  BY DEF Procs
<1>4. table' = [i \in DOMAIN new |-> Entry(new[i].chain, new[i].rule)]
  BY DEF Replace
<1>5. session' = [session EXCEPT ![p] = e, ![q].stale = session[q].at # "idle"]
  BY <1>3 DEF Replace
<1>6. collided' = (collided \/ session[p].stale)
  BY <1>1 DEF Replace
<1> HIDE DEF new
<1>7. /\ table' \in Seq(Entries) /\ Len(table') = Len(new) /\ SameRules(new, table')
      /\ \A i \in 1..Len(new) : table'[i].cnt = 0 /\ table'[i].rule = new[i].rule
      /\ plus \in Seq(Nat) /\ Len(plus) = Len(new)
      /\ \A i \in 1..Len(new) : plus[i] = Plus(new[i], table)
  <2>1. new = session[p].cache /\ plus = [i \in DOMAIN new |-> Plus(new[i], table)]
    BY DEF new
  <2> HIDE DEF plus
  <2>2. QED
    <3>1. /\ Types /\ p \in Procs /\ session[p].at = "cached" /\ session[p].num = Len(table)
          /\ new = session[p].cache
          /\ table' = [i \in DOMAIN new |-> Entry(new[i].chain, new[i].rule)]
          /\ plus = [i \in DOMAIN new |-> Plus(new[i], table)]
      BY <1>1, <1>4, <2>1
    <3>2. /\ table' \in Seq(Entries) /\ Len(table') = Len(new) /\ SameRules(new, table')
          /\ \A i \in 1..Len(new) : table'[i].cnt = 0 /\ table'[i].rule = new[i].rule
      BY ONLY <3>1, ReplacedIs
    <3>3. /\ plus \in Seq(Nat) /\ Len(plus) = Len(new)
          /\ \A i \in 1..Len(new) : plus[i] = Plus(new[i], table)
      BY ONLY <3>1, ReplacedIs
    <3>4. QED
      BY ONLY <3>2, <3>3
<1> HIDE DEF plus
<1>8. e \in Sessions /\ SessionType(e)
  <2>1. <<>> \in Seq(Copies)
    BY EmptySeq
  <2>2. e \in Sessions
    BY <1>7, <2>1 DEF Sessions
  <2>3. QED
    BY <2>2 DEF SessionType, Placed
<1>9. /\ f \in Sessions /\ f.at = session[q].at /\ f.cache = session[q].cache
      /\ f.num = session[q].num /\ (f.stale <=> session[q].at # "idle")
  BY <1>1 DEF Sessions
<1>10. session[q] = Idle => f = Idle
  <2> SUFFICES ASSUME session[q] = Idle PROVE f = Idle
    OBVIOUS
  <2>1. f = [Idle EXCEPT !.stale = FALSE]
    BY IdleIs
  <2>2. [Idle EXCEPT !.stale = FALSE] = Idle
    <3> DEFINE D == {"at", "cache", "num", "stale", "plus"}
    <3>1. Idle.stale = FALSE /\ Idle = [x \in D |-> Idle[x]]
      BY DEF Idle
    <3>2. [Idle EXCEPT !.stale = FALSE] = [x \in D |-> IF x = "stale" THEN FALSE ELSE Idle[x]]
      BY <3>1
    <3>3. QED
      BY <3>1, <3>2
  <2>3. QED
    BY <2>1, <2>2
<1>11. SessionType(f)
  <2>1. SessionType(session[q])
    BY <1>1
  <2> HIDE DEF f
  <2>2. QED
    BY <1>9, <1>10, <2>1 DEF SessionType, Placed
<1>12. session'[p] = e /\ session'[q] = f /\ session' \in [Procs -> Sessions]
  BY <1>1, <1>5, <1>8, <1>9
<1>13. \A x \in Procs : x = p \/ x = q
  BY ProcsAre
<1>14. Waits(e) /\ ~e.stale /\ e.plus = plus
  BY DEF Waits
<1> HIDE DEF e, f
<1>15. QED
  BY <1>1, <1>2, <1>6, <1>7, <1>8, <1>9, <1>10, <1>11, <1>12, <1>13, <1>14 DEF new

LEMMA AddingDoes ==
  ASSUME Types, NEW p \in Procs, AddCounters(p)
  PROVE  /\ session[p].at = "adding" /\ Len(session[p].plus) = Len(table)
         /\ table' \in Seq(Entries) /\ SameRules(table, table')
         /\ \A i \in 1..Len(table) : /\ table'[i].rule = table[i].rule
                                     /\ table'[i].cnt = table[i].cnt + session[p].plus[i]
         /\ session' \in [Procs -> Sessions] /\ \A x \in Procs : SessionType(session'[x])
         /\ session'[p] = Idle /\ \A x \in Procs : x # p => session'[x] = session[x]
         /\ collided' = (collided \/ session[p].stale)
<1>1. /\ session[p].at = "adding" /\ Len(session[p].plus) = Len(table)
      /\ table' = Added(p) /\ session' = [session EXCEPT ![p] = Idle]
      /\ collided' = (collided \/ session[p].stale)
  BY DEF AddCounters
<1>2. /\ table' \in Seq(Entries) /\ SameRules(table, table')
      /\ \A i \in 1..Len(table) : /\ table'[i].rule = table[i].rule
                                  /\ table'[i].cnt = table[i].cnt + session[p].plus[i]
  BY <1>1, AddedIs
<1>3. /\ session' \in [Procs -> Sessions] /\ \A x \in Procs : SessionType(session'[x])
      /\ session'[p] = Idle /\ \A x \in Procs : x # p => session'[x] = session[x]
  BY <1>1, IdleIs, SessionPut DEF Types
<1>4. QED
  BY <1>1, <1>2, <1>3

LEMMA RefusedDoes ==
  ASSUME Types, NEW p \in Procs, Refused(p)
  PROVE  /\ session[p].at \in {"cached", "adding"}
         /\ session' \in [Procs -> Sessions] /\ \A x \in Procs : SessionType(session'[x])
         /\ session'[p] = Idle /\ \A x \in Procs : x # p => session'[x] = session[x]
         /\ UNCHANGED <<table, foreign, hits, blind, budget>> /\ collided' \in BOOLEAN
         /\ ~collided' => session[p].at = "cached" /\ collided' = collided
<1>1. /\ session[p].at \in {"cached", "adding"} /\ session' = [session EXCEPT ![p] = Idle]
      /\ UNCHANGED <<table, foreign, hits, blind, budget>> /\ collided' \in BOOLEAN
      /\ ~collided' => session[p].at = "cached" /\ collided' = collided
  BY DEF Refused, Types
<1>2. /\ session' \in [Procs -> Sessions] /\ \A x \in Procs : SessionType(session'[x])
      /\ session'[p] = Idle /\ \A x \in Procs : x # p => session'[x] = session[x]
  BY <1>1, IdleIs, SessionPut DEF Types
<1>3. QED
  BY <1>1, <1>2

\* The script after a command.
LEMMA NextScript ==
  ASSUME Bounds, script \in ScriptStates, ScriptOK(script),
         script.step \in {"new", "link", "flush", "append"},
         NEW s, s = NextCommand \/ s = ExitWith("failed")
  PROVE  s \in ScriptStates /\ ScriptOK(s)
<1>1. /\ script.kind = "apply" => /\ script.uid \in Uids /\ Len(Ports[script.uid]) \in Nat
                                  /\ Len(Ports[script.uid]) > 0
      /\ script.k \in Nat
  <2>1. script.kind = "apply" => /\ script.uid \in Uids
                                 /\ Ports[script.uid] \in Seq(Nat) /\ Ports[script.uid] # <<>>
    BY DEF ScriptOK, Bounds
  <2>2. QED
    BY <2>1, LenProperties, EmptySeq DEF ScriptStates
<1>2. \A st \in {"ok", "failed"} : ExitWith(st) \in ScriptStates /\ ScriptOK(ExitWith(st))
  BY DEF ExitWith, ScriptStates, ScriptOK
<1>3. CASE script.step = "new" /\ s = [script EXCEPT !.step = "grep"]
  BY <1>3 DEF ScriptStates, ScriptOK
<1>4. CASE script.step = "link" /\ s = [script EXCEPT !.step = "flush"]
  BY <1>4 DEF ScriptStates, ScriptOK
<1>5. CASE script.step = "flush" /\ script.kind = "apply" /\ s = [script EXCEPT !.step = "append"]
  BY <1>1, <1>5 DEF ScriptStates, ScriptOK
<1>6. CASE /\ script.step = "append" /\ script.k < Len(Ports[script.uid])
           /\ s = [script EXCEPT !.k = @ + 1]
  BY <1>1, <1>6 DEF ScriptStates, ScriptOK
<1>7. CASE s \in {ExitWith("ok"), ExitWith("failed")}
  BY <1>2, <1>7
<1>8. QED
  <2>1. CASE s = ExitWith("failed")
    BY <1>7, <2>1
  <2>2. CASE s = NextCommand
    BY <1>3, <1>4, <1>5, <1>6, <1>7, <2>2, Zenon DEF NextCommand
  <2>3. QED
    BY <2>1, <2>2

Budgets == [scripts : Nat, failures : Nat, edits : Nat, packets : 0..MaxPackets]

LEMMA Spent ==
  ASSUME Bounds, budget \in Budgets
  PROVE  /\ \A w \in {"scripts", "failures", "edits"} :
              Spend(w) => budget' \in Budgets /\ budget'.packets = budget.packets
         /\ Spend("packets") /\ budget.packets < MaxPackets =>
              budget' \in Budgets /\ budget'.packets = budget.packets + 1
BY DEF Bounds, Budgets, Spend

\* Every step leaves things of their types.
LEMMA TypesStep ==
  ASSUME Bounds, IInv, Step
  PROVE  Types'
<1>1. /\ table \in Seq(Entries)
      /\ session \in [Procs -> Sessions] /\ \A p \in Procs : SessionType(session[p])
      /\ script \in ScriptStates /\ ScriptOK(script)
      /\ script.step \in {"find", "grep", "end"} => session["recorder"] = Idle
      /\ foreign \in Other \cup {None} /\ budget \in Budgets
      /\ hits \in [Rules \cup {Policy} -> Nat]
      /\ \A r \in Rules \cup {Policy} : hits[r] <= budget.packets
      /\ collided \in BOOLEAN /\ blind \in BOOLEAN
  BY DEF IInv, Types, Budgets
<1>2. Types /\ ~collided /\ Safe /\ Next
  BY DEF IInv, Step
<1>3. "recorder" \in Procs /\ "other" \in Procs /\ "recorder" # "other"
  BY ProcsAre
<1>4. /\ \A r : hits' = hits /\ budget'.packets = budget.packets /\ hits[r] <= budget.packets
                  => hits'[r] <= budget'.packets
      /\ Waits(Idle) = FALSE
  BY IdleIs DEF Waits
<1>5. Safe => Formed(table) /\ OneOwner(table) /\ Once(table, Other)
  BY DEF Safe, TableOK
<1>6. ASSUME NEW kind \in {"apply", "remove"}, NEW u \in Uids \cup {0},
             kind = "apply" => u \in Uids, Start(kind, u)
      PROVE  Types'
  <2>1. script' \in ScriptStates /\ ScriptOK(script')
    BY <1>6 DEF Start, ScriptStates, ScriptOK
  <2>2. session["recorder"] = Idle
    BY <1>1, <1>6 DEF Start
  <2>3. budget' \in Budgets /\ budget'.packets = budget.packets
    BY <1>1, <1>6, Spent DEF Start
  <2>4. UNCHANGED <<table, session, foreign, hits, collided, blind>>
    BY <1>6 DEF Start
  <2>5. QED
    BY <1>1, <2>1, <2>2, <2>3, <2>4 DEF Types, Budgets
<1>7. CASE Find \/ Grep
  <2>1. session["recorder"] = Idle /\ script.k = 1
    BY <1>1, <1>7 DEF Find, Grep, At, ScriptOK
  <2>2. script' \in ScriptStates /\ ScriptOK(script')
    BY <1>1, <1>7, <2>1 DEF Find, Grep, At, ScriptStates, ScriptOK
  <2>3. UNCHANGED <<table, session, foreign, hits, collided, blind, budget>>
    BY <1>7 DEF Find, Grep
  <2>4. QED
    BY <1>1, <2>1, <2>2, <2>3 DEF Types, Budgets
<1>8. ASSUME NEW p \in Procs, NEW c \in Seq(Copies), Carried(table, c),
             session' = [session EXCEPT ![p] = Cached(c)]
      PROVE  session' \in [Procs -> Sessions] /\ \A x \in Procs : SessionType(session'[x])
  <2>1. Len(table) \in Nat /\ Len(c) \in Nat /\ <<>> \in Seq(Nat)
    BY <1>1, LenProperties, EmptySeq
  <2>2. Cached(c) \in Sessions /\ Cached(c).at = "cached" /\ Cached(c).cache = c
        /\ Cached(c).num = Len(table)
    BY <2>1 DEF Cached, Sessions
  <2>3. SessionType(Cached(c))
    BY <1>8, <2>1, <2>2, CarriedPlaces DEF SessionType, Placed
  <2>4. QED
    BY <1>1, <1>8, <2>3, SessionPut
<1>9. CASE Edits
  <2> DEFINE c == Edit(Parse(table))
  <2>1. script.step \in {"new", "link", "flush", "append"} /\ Possible
        /\ session["recorder"] = Idle
    BY <1>9 DEF Edits, At
  <2>2. Promised(script, blind, table, FALSE)
    BY <1>2, <1>4, <2>1 DEF Safe
  <2>3. c \in Seq(Copies) /\ Carried(table, c)
    BY <1>1, <1>2, <1>5, <2>1, <2>2, RecorderEdits DEF RecorderCopy
  <2>4. /\ session' = [session EXCEPT !["recorder"] = Cached(c)]
        /\ UNCHANGED <<table, script, foreign, hits, collided, blind, budget>>
    BY <1>9 DEF Edits
  <2> HIDE DEF c
  <2>5. session' \in [Procs -> Sessions] /\ \A x \in Procs : SessionType(session'[x])
    BY <1>3, <1>8, <2>3, <2>4
  <2>6. QED
    BY <1>1, <2>1, <2>4, <2>5 DEF Types, Budgets
<1>10. CASE OtherEdits
  <2>1. PICK c \in OtherTables(Parse(table)) : session' = [session EXCEPT !["other"] = Cached(c)]
    BY <1>10, Zenon DEF OtherEdits, OtherTables
  <2>2. c \in Seq(Copies) /\ Carried(table, c)
    BY <1>1, <1>2, <1>5, OtherCopies DEF OtherCopy
  <2>3. session' \in [Procs -> Sessions] /\ \A x \in Procs : SessionType(session'[x])
    BY <1>3, <1>8, <2>1, <2>2
  <2>4. session'["recorder"] = session["recorder"]
    BY <1>1, <1>3, <2>1
  <2>5. UNCHANGED <<table, script, foreign, hits, collided, blind>> /\ Spend("edits")
    BY <1>10 DEF OtherEdits
  <2>6. budget' \in Budgets /\ budget'.packets = budget.packets
    BY <1>1, <2>5, Spent
  <2>7. QED
    BY <1>1, <2>3, <2>4, <2>5, <2>6 DEF Types, Budgets
<1>11. CASE Done \/ NotDone
  <2>1. session["recorder"].at \in {"cached", "adding"}
    BY <1>11 DEF Done, NotDone, AddCounters, Refused
  <2>2. script.step \in {"new", "link", "flush", "append"}
    <3>1. script.step \notin {"find", "grep", "end"}
      BY <1>1, <2>1, IdleIs
    <3>2. QED
      BY <1>1, <3>1 DEF ScriptStates
  <2>3. script' \in ScriptStates /\ ScriptOK(script')
    BY <1>1, <1>11, <2>2, NextScript DEF Done, NotDone
  <2>4. /\ table' \in Seq(Entries)
        /\ session' \in [Procs -> Sessions] /\ \A x \in Procs : SessionType(session'[x])
        /\ session'["recorder"] = Idle /\ collided' \in BOOLEAN
    <3>1. CASE Done
      BY <1>1, <1>2, <1>3, <3>1, AddingDoes DEF Done, AddCounters
    <3>2. CASE NotDone
      BY <1>1, <1>2, <1>3, <3>2, RefusedDoes DEF NotDone
    <3>3. QED
      BY <1>11, <3>1, <3>2
  <2>5. UNCHANGED <<foreign, hits, blind, budget>>
    BY <1>11 DEF Done, NotDone, AddCounters, Refused
  <2>6. QED
    BY <1>1, <2>3, <2>4, <2>5 DEF Types, Budgets
<1>12. CASE OtherDone
  <2>1. /\ table' \in Seq(Entries)
        /\ session' \in [Procs -> Sessions] /\ \A x \in Procs : SessionType(session'[x])
        /\ session'["recorder"] = session["recorder"] /\ collided' \in BOOLEAN
    <3>1. CASE AddCounters("other")
      BY <1>1, <1>2, <1>3, <3>1, AddingDoes DEF AddCounters
    <3>2. CASE Refused("other")
      BY <1>1, <1>2, <1>3, <3>2, RefusedDoes
    <3>3. QED
      BY <1>12, <3>1, <3>2 DEF OtherDone
  <2>2. UNCHANGED <<script, foreign, hits, blind, budget>>
    BY <1>12 DEF OtherDone, AddCounters, Refused
  <2>3. QED
    BY <1>1, <2>1, <2>2 DEF Types, Budgets
<1>13. CASE Fails
  <2>1. session' = [session EXCEPT !["recorder"] = Idle]
        /\ UNCHANGED <<table, foreign, hits, collided>> /\ blind' \in BOOLEAN
    BY <1>1, <1>13 DEF Fails
  <2>2. /\ session' \in [Procs -> Sessions] /\ \A x \in Procs : SessionType(session'[x])
        /\ session'["recorder"] = Idle
    BY <1>1, <1>3, <2>1, IdleIs, SessionPut
  <2>3. script' \in ScriptStates /\ ScriptOK(script')
    BY <1>1, <1>13, Zenon DEF Fails, ExitWith, ScriptStates, ScriptOK
  <2>4. budget' \in Budgets /\ budget'.packets = budget.packets
    BY <1>1, <1>13, Spent DEF Fails
  <2>5. QED
    BY <1>1, <2>1, <2>2, <2>3, <2>4 DEF Types, Budgets
<1>14. ASSUME NEW p \in Procs, Replace(p)
       PROVE  Types'
  <2>1. PICK q \in Procs : q # p
    BY <1>3
  <2>2. /\ session[p].at = "cached" /\ table' \in Seq(Entries)
        /\ session' \in [Procs -> Sessions] /\ \A x \in Procs : SessionType(session'[x])
        /\ collided' = (collided \/ session[p].stale)
        /\ session[q] = Idle => session'[q] = Idle
    BY <1>2, <1>14, <2>1, ReplaceDoes
  <2>3. script.step \in {"find", "grep", "end"} => session'["recorder"] = Idle
    <3>1. session["recorder"] = Idle => p # "recorder"
      BY <2>2, IdleIs
    <3>2. session["recorder"] = Idle => q = "recorder"
      BY <2>1, <3>1, ProcsAre
    <3>3. QED
      BY <1>1, <2>2, <3>2
  <2>4. collided' \in BOOLEAN
    <3>1. session[p].stale \in BOOLEAN
      BY <1>1 DEF Sessions
    <3>2. QED
      BY <1>1, <2>2, <3>1
  <2>5. UNCHANGED <<script, blind, budget>>
    BY <1>14 DEF Replace
  <2>6. /\ hits' \in [Rules \cup {Policy} -> Nat]
        /\ \A r \in Rules \cup {Policy} : hits'[r] <= budget.packets
    <3> DEFINE B == RuleSet(table) \cap RuleSet(session[p].cache)
    <3>1. hits' = [r \in DOMAIN hits |-> IF r \in B THEN hits[r] ELSE 0]
      BY <1>14 DEF Replace
    <3> HIDE DEF B
    <3>2. budget.packets \in Nat
      BY <1>1 DEF Budgets, Bounds
    <3>3. QED
      BY <1>1, <3>1, <3>2
  <2>7. foreign' \in Other \cup {None}
    <3> DEFINE T == RuleSet(session[p].cache)
    <3>1. foreign' = IF p = "recorder" THEN foreign
                     ELSE IF T \cap Other = {} THEN None ELSE CHOOSE r \in Other : r \in T
      BY <1>14 DEF Replace
    <3> HIDE DEF T
    <3>2. QED
      BY <1>1, <3>1
  <2>8. QED
    BY <1>1, <2>2, <2>3, <2>4, <2>5, <2>6, <2>7 DEF Types, Budgets
<1>15. ASSUME NEW i \in DOMAIN table, Packet(i)
       PROVE  Types'
  <2>1. /\ table' = [table EXCEPT ![i].cnt = @ + 1]
        /\ hits' = [hits EXCEPT ![table[i].rule] = @ + 1]
        /\ Spend("packets") /\ budget.packets < MaxPackets
        /\ UNCHANGED <<session, script, foreign, collided, blind>>
    BY <1>15 DEF Packet
  <2>2. table' \in Seq(Entries)
    BY <1>2, <2>1, CountedIs
  <2>3. budget' \in Budgets /\ budget'.packets = budget.packets + 1 /\ budget.packets \in Nat
    BY <1>1, <2>1, Spent DEF Budgets
  <2>4. /\ hits' \in [Rules \cup {Policy} -> Nat]
        /\ \A r \in Rules \cup {Policy} : hits'[r] <= budget.packets + 1
    <3> DEFINE R == Rules \cup {Policy}
               x == table[i].rule
    <3>1. hits' = [hits EXCEPT ![x] = @ + 1] /\ hits \in [R -> Nat] /\ x \in R
      BY <1>1, <1>15, <2>1 DEF Packet
    <3>2. \A r \in R : hits[r] \in Nat /\ hits[r] <= budget.packets
      BY <1>1
    <3> HIDE DEF R, x
    <3>3. hits' \in [R -> Nat] /\ \A r \in R : hits'[r] = hits[r] \/ hits'[r] = hits[r] + 1
      <4>1. \A r \in R : hits'[r] = IF r = x THEN hits[r] + 1 ELSE hits[r]
        BY <3>1
      <4>2. DOMAIN hits' = R /\ hits' = [r \in R |-> hits'[r]]
        BY <3>1
      <4>3. \A r \in R : hits'[r] \in Nat
        BY <3>2, <4>1
      <4>4. QED
        BY <4>1, <4>2, <4>3
    <3>4. \A r \in R : hits'[r] <= budget.packets + 1
      BY <2>3, <3>2, <3>3
    <3>5. QED
      BY <3>3, <3>4 DEF R
  <2>5. QED
    BY <1>1, <2>1, <2>2, <2>3, <2>4 DEF Types, Budgets
<1>16. QED
  <2>1. CASE \E u \in Uids : Start("apply", u)
    BY <1>6, <2>1
  <2>2. CASE Start("remove", 0)
    BY <1>6, <2>2
  <2>3. QED
    BY <1>2, <1>7, <1>9, <1>10, <1>11, <1>12, <1>13, <1>14, <1>15, <2>1, <2>2 DEF Next

\* What a script may rely on after a command of its own.
LEMMA PromisedNext ==
  ASSUME Bounds, script \in ScriptStates, ScriptOK(script),
         script.step \in {"new", "link", "flush", "append"},
         NEW t, Promised(script, blind, t, TRUE)
  PROVE  Promised(NextCommand, blind, t, FALSE)
<1> DEFINE s == NextCommand
<1>1. ~blind => Once(t, {Jump})
  BY DEF Promised
<1>2. CASE script.step = "new"
  <2>1. s = [script EXCEPT !.step = "grep"]
    BY <1>2 DEF NextCommand
  <2>2. s.step = "grep" /\ s.status # "ok"
    BY <1>2, <2>1 DEF ScriptStates, ScriptOK
  <2> HIDE DEF s
  <2>3. Promised(s, blind, t, FALSE)
    BY <1>1, <2>2 DEF Promised
  <2>4. QED
    BY <2>3 DEF s
<1>3. CASE script.step = "link"
  <2>1. s = [script EXCEPT !.step = "flush"]
    BY <1>3 DEF NextCommand
  <2>2. s.step = "flush" /\ s.status # "ok"
    BY <1>3, <2>1 DEF ScriptStates, ScriptOK
  <2>3. HasRule(t, Jump)
    BY <1>3 DEF Promised
  <2> HIDE DEF s
  <2>4. Promised(s, blind, t, FALSE)
    BY <1>1, <2>2, <2>3 DEF Promised
  <2>5. QED
    BY <2>4 DEF s
<1>4. CASE script.step = "flush" /\ script.kind = "apply"
  <2>1. s = [script EXCEPT !.step = "append"]
    BY <1>4 DEF NextCommand
  <2>2. s.step = "append" /\ s.status # "ok" /\ s.uid = script.uid /\ s.k = 1
    BY <1>4, <2>1 DEF ScriptStates, ScriptOK
  <2>3. HasRule(t, Jump) /\ Bodied(t, script.uid, 0)
    BY <1>4 DEF Promised
  <2> HIDE DEF s
  <2>4. Promised(s, blind, t, FALSE)
    <3>1. s.k - 1 = 0
      BY <2>2
    <3>2. QED
      BY <1>1, <2>2, <2>3, <3>1 DEF Promised
  <2>5. QED
    BY <2>4 DEF s
<1>5. CASE script.step = "append" /\ script.k < Len(Ports[script.uid])
  <2>1. s = [script EXCEPT !.k = @ + 1]
    BY <1>5 DEF NextCommand
  <2>2. /\ s.step = "append" /\ s.status # "ok" /\ s.uid = script.uid
        /\ s.k = script.k + 1 /\ script.k \in Nat
    BY <1>5, <2>1 DEF ScriptStates, ScriptOK
  <2>3. HasRule(t, Jump) /\ Bodied(t, script.uid, script.k)
    BY <1>5 DEF Promised
  <2> HIDE DEF s
  <2>4. Promised(s, blind, t, FALSE)
    <3>1. s.k - 1 = script.k
      BY <2>2
    <3>2. QED
      BY <1>1, <2>2, <2>3, <3>1 DEF Promised
  <2>5. QED
    BY <2>4 DEF s
<1>6. CASE /\ ~(script.step = "flush" /\ script.kind = "apply")
           /\ ~(script.step = "append" /\ script.k < Len(Ports[script.uid]))
           /\ script.step \in {"flush", "append"}
  <2>1. s = ExitWith("ok")
    BY <1>6 DEF NextCommand
  <2>2. s.step = "end" /\ s.kind = script.kind /\ s.uid = script.uid
    BY <2>1 DEF ExitWith, ScriptStates
  <2>3. IF s.kind = "apply" THEN HasRule(t, Jump) /\ Bodied(t, s.uid, Len(Ports[s.uid]))
        ELSE Bare(t)
    <3>1. CASE script.step = "flush"
      <4>1. script.kind # "apply" /\ Bodied(t, script.uid, 0)
        BY <1>6, <3>1 DEF Promised
      <4>2. QED
        BY <2>2, <4>1, BodyOwned
    <3>2. CASE script.step = "append"
      <4>1. script.kind = "apply" /\ HasRule(t, Jump) /\ Bodied(t, script.uid, script.k)
        BY <3>2 DEF Promised, ScriptOK
      <4>2. script.k = Len(Ports[script.uid])
        <5>1. Len(Ports[script.uid]) \in Nat
          <6>1. Ports[script.uid] \in Seq(Nat)
            BY <4>1 DEF ScriptOK, Bounds
          <6>2. QED
            BY <6>1, LenProperties
        <5>2. script.k \in 1..Len(Ports[script.uid])
          BY <3>2 DEF ScriptOK
        <5>3. QED
          BY <1>6, <3>2, <5>1, <5>2
      <4>3. QED
        BY <2>2, <4>1, <4>2
    <3>3. QED
      BY <1>6, <3>1, <3>2
  <2> HIDE DEF s
  <2>4. Promised(s, blind, t, FALSE)
    BY <1>1, <2>2, <2>3 DEF Promised
  <2>5. QED
    BY <2>4 DEF s
<1>7. QED
  BY <1>2, <1>3, <1>4, <1>5, <1>6

\* One rule of the other program is in the table it writes.
LEMMA OtherRule ==
  ASSUME NEW t \in Seq(Copies), Once(t, Other),
         NEW f, f = IF RuleSet(t) \cap Other = {} THEN None ELSE CHOOSE r \in Other : r \in RuleSet(t)
  PROVE  \A r \in Other : HasRule(t, r) <=> r = f
<1>1. \A r : r \in RuleSet(t) <=> HasRule(t, r)
  BY RuleSetIs
<1>2. \A r, s \in Other : HasRule(t, r) /\ HasRule(t, s) => r = s
  BY DEF HasRule, Once
<1>3. CASE RuleSet(t) \cap Other = {}
  BY <1>1, <1>3, KindsDiffer
<1>4. CASE RuleSet(t) \cap Other # {}
  <2>1. f = CHOOSE r \in Other : HasRule(t, r)
    BY <1>1, <1>4
  <2>2. \E r \in Other : HasRule(t, r)
    BY <1>1, <1>4
  <2>3. f \in Other /\ HasRule(t, f)
    BY <2>1, <2>2
  <2>4. QED
    BY <1>2, <2>3
<1>5. QED
  BY <1>3, <1>4

\* Every step that is not a collision keeps the table in shape, and what the programs
\* rely on true.
LEMMA SafeStep ==
  ASSUME Bounds, IInv, Step, ~collided'
  PROVE  Safe'
<1>1. Types /\ ~collided /\ Safe /\ Next
  BY DEF IInv, Step
<1>2. /\ table \in Seq(Entries)
      /\ session \in [Procs -> Sessions] /\ \A p \in Procs : SessionType(session[p])
      /\ script \in ScriptStates /\ ScriptOK(script)
      /\ script.step \in {"find", "grep", "end"} => session["recorder"] = Idle
  BY <1>1 DEF Types
<1>3. /\ "recorder" \in Procs /\ "other" \in Procs /\ "recorder" # "other"
      /\ \A p \in Procs : p = "recorder" \/ p = "other"
  BY ProcsAre
<1>4. /\ TableOK(table, foreign)
      /\ Promised(script, blind, table, Waits(session["recorder"]))
      /\ \A p \in Procs : SessionOK(p, session[p], script, blind, table)
  BY <1>1 DEF Safe
<1>5. /\ Waits(Idle) = FALSE
      /\ \A p, s, bl, t : SessionOK(p, Idle, s, bl, t)
  BY IdleIs DEF Waits
<1>6. \A e, s, bl, m, bm, t : SessionOK("other", e, s, bl, t) => SessionOK("other", e, m, bm, t)
  BY DEF SessionOK
<1>7. \A d : Promised(script, blind, table, d) => (~blind => Once(table, {Jump}))
  BY DEF Promised
\* A script goes on, and nothing else does.
<1>8. ASSUME session["recorder"].at # "adding", session'["recorder"] = Idle,
             session'["other"] = session["other"], UNCHANGED <<table, foreign>>,
             Promised(script', blind', table, FALSE)
      PROVE  Safe'
  <2>1. \A p \in Procs : SessionOK(p, session'[p], script', blind', table')
    BY <1>3, <1>4, <1>5, <1>6, <1>8
  <2>2. QED
    BY <1>4, <1>5, <1>8, <2>1 DEF Safe
<1>9. ASSUME NEW kind, NEW u, Start(kind, u)
      PROVE  Safe'
  <2>1. session["recorder"] = Idle /\ UNCHANGED <<table, session, foreign, blind>>
    BY <1>2, <1>9 DEF Start
  <2>2. script'.step = "find" /\ script'.status = "running"
    BY <1>9 DEF Start
  <2>3. Promised(script', blind', table, FALSE)
    BY <1>4, <1>7, <2>1, <2>2 DEF Promised
  <2>4. QED
    BY <1>5, <1>8, <2>1, <2>3 DEF Waits
<1>10. CASE Find \/ Grep
  <2>1. session["recorder"] = Idle /\ UNCHANGED <<table, session, foreign, blind>>
        /\ script.step \in {"find", "grep"}
    BY <1>10 DEF Find, Grep, At
  <2>2. script.status # "ok" /\ (script.step = "grep" => script.kind = "apply")
    BY <1>2, <2>1 DEF ScriptOK, ScriptStates
  <2>3. Promised(script', blind', table, FALSE)
    <3>1. CASE Find
      <4>1. /\ script'.step \in {"flush", "grep", "new"} /\ script'.status # "ok"
            /\ (script'.step = "flush" => script'.kind = "remove")
        BY <1>2, <2>2, <3>1 DEF Find, ScriptStates
      <4>2. QED
        BY <1>4, <1>7, <2>1, <4>1 DEF Promised
    <3>2. CASE Grep
      <4>1. /\ script'.step \in {"flush", "link"} /\ script'.status # "ok"
            /\ (script'.step = "flush" <=> Jump \in RuleSet(table))
        BY <1>2, <2>2, <3>2 DEF Grep, ScriptStates
      <4>2. Jump \in RuleSet(table) <=> HasRule(table, Jump)
        BY <1>2, RuleSetIs
      <4>3. QED
        BY <1>4, <1>7, <2>1, <4>1, <4>2 DEF Promised
    <3>3. QED
      BY <1>10, <3>1, <3>2
  <2>4. QED
    BY <1>5, <1>8, <2>1, <2>3 DEF Waits
<1>11. CASE Fails
  <2>1. /\ session["recorder"].at # "adding" /\ UNCHANGED <<table, foreign>>
        /\ session' = [session EXCEPT !["recorder"] = Idle]
        /\ script.step # "end" /\ blind' = (blind \/ script.step = "grep")
    BY <1>11 DEF Fails
  <2>2. session'["recorder"] = Idle /\ session'["other"] = session["other"]
    BY <1>2, <1>3, <2>1
  <2>3. /\ script'.step \in {"new", "link", "end"} /\ script'.status # "ok"
        /\ (script'.step = "link" => blind')
    <3>1. script.status = "running"
      BY <1>2, <2>1 DEF ScriptOK, ScriptStates
    <3>2. CASE script.step = "find" /\ script.kind = "apply"
      <4>1. script' = [script EXCEPT !.step = "new"]
        BY <1>11, <3>2 DEF Fails
      <4>2. QED
        BY <1>2, <3>1, <4>1 DEF ScriptStates
    <3>3. CASE script.step = "grep"
      <4>1. script' = [script EXCEPT !.step = "link"]
        BY <1>11, <3>3 DEF Fails
      <4>2. QED
        BY <1>2, <2>1, <3>1, <3>3, <4>1 DEF ScriptStates
    <3>4. CASE ~(script.step = "find" /\ script.kind = "apply") /\ script.step # "grep"
      <4>1. script' = ExitWith("failed")
        BY <1>11, <3>4 DEF Fails
      <4>2. QED
        BY <1>2, <4>1 DEF ExitWith, ScriptStates
    <3>5. QED
      BY <3>2, <3>3, <3>4
  <2>4. Promised(script', blind', table, FALSE)
    BY <1>4, <1>7, <2>1, <2>3 DEF Promised
  <2>5. QED
    BY <1>8, <2>1, <2>2, <2>4
<1>12. CASE NotDone
  <2>1. /\ session["recorder"].at # "adding" /\ UNCHANGED <<table, foreign, blind>>
        /\ session'["recorder"] = Idle /\ session'["other"] = session["other"]
    BY <1>1, <1>3, <1>12, RefusedDoes DEF NotDone
  <2>2. script'.step = "end" /\ script'.status = "failed"
    BY <1>2, <1>12 DEF NotDone, ExitWith, ScriptStates
  <2>3. Promised(script', blind', table, FALSE)
    BY <1>4, <1>7, <2>1, <2>2 DEF Promised
  <2>4. QED
    BY <1>8, <2>1, <2>3
<1>13. CASE Edits
  <2> DEFINE c == Edit(Parse(table))
  <2>1. script.step \in {"new", "link", "flush", "append"} /\ Possible
        /\ session["recorder"] = Idle
    BY <1>13 DEF Edits, At
  <2>2. Formed(table) /\ OneOwner(table) /\ Promised(script, blind, table, FALSE)
    BY <1>4, <1>5, <2>1 DEF TableOK
  <2>3. RecorderCopy(script, blind, table, c)
    BY <1>2, <2>1, <2>2, RecorderEdits
  <2>4. /\ session' = [session EXCEPT !["recorder"] = Cached(c)]
        /\ UNCHANGED <<table, script, foreign, blind>>
    BY <1>13 DEF Edits
  <2> HIDE DEF c
  <2>5. session'["recorder"] = Cached(c) /\ session'["other"] = session["other"]
    BY <1>2, <1>3, <2>4
  <2>6. /\ Waits(Cached(c)) = FALSE
        /\ SessionOK("recorder", Cached(c), script, blind, table)
    BY <2>3 DEF Cached, Waits, SessionOK
  <2>7. \A p \in Procs : SessionOK(p, session'[p], script', blind', table')
    BY <1>3, <1>4, <2>4, <2>5, <2>6
  <2>8. QED
    BY <1>4, <2>2, <2>4, <2>5, <2>6, <2>7 DEF Safe
<1>14. CASE OtherEdits
  <2>1. PICK c \in OtherTables(Parse(table)) : session' = [session EXCEPT !["other"] = Cached(c)]
    BY <1>14, Zenon DEF OtherEdits, OtherTables
  <2>2. OtherCopy(table, c)
    BY <1>2, <1>4, OtherCopies DEF TableOK
  <2>3. session'["other"] = Cached(c) /\ session'["recorder"] = session["recorder"]
    BY <1>2, <1>3, <2>1
  <2>4. SessionOK("other", Cached(c), script, blind, table)
    BY <2>2 DEF Cached, SessionOK
  <2>5. UNCHANGED <<table, script, foreign, blind>>
    BY <1>14 DEF OtherEdits
  <2>6. \A p \in Procs : SessionOK(p, session'[p], script', blind', table')
    BY <1>3, <1>4, <2>3, <2>4, <2>5
  <2>7. QED
    BY <1>4, <2>3, <2>5, <2>6 DEF Safe
\* Counters change, and nothing else of the table.
<1>15. ASSUME SameRules(table, table')
       PROVE  /\ TableOK(table', foreign)
              /\ \A s, bl, d : Promised(s, bl, table, d) => Promised(s, bl, table', d)
              /\ \A p \in Procs : SessionOK(p, session[p], script, blind, table')
  <2>1. \A p \in Procs : session[p] \in Sessions
    BY <1>2
  <2>2. QED
    BY <1>4, <1>15, <2>1, KeptWithRules
<1>16. CASE Done
  <2>1. /\ session["recorder"].at = "adding" /\ SameRules(table, table')
        /\ session'["recorder"] = Idle /\ session'["other"] = session["other"]
        /\ UNCHANGED <<foreign, blind>> /\ script' = NextCommand
    BY <1>1, <1>3, <1>16, AddingDoes DEF Done, AddCounters
  <2>2. script.step \in {"new", "link", "flush", "append"}
    <3>1. script.step \notin {"find", "grep", "end"}
      BY <1>2, <1>5, <2>1 DEF Waits
    <3>2. QED
      BY <1>2, <3>1 DEF ScriptStates
  <2>3. Promised(script, blind, table, TRUE)
    <3>1. Waits(session["recorder"]) = TRUE
      BY <2>1 DEF Waits
    <3>2. QED
      BY <1>4, <3>1
  <2>4. Promised(script', blind', table', FALSE)
    BY <1>2, <1>15, <2>1, <2>2, <2>3, PromisedNext
  <2>5. \A p \in Procs : SessionOK(p, session'[p], script', blind', table')
    BY <1>3, <1>5, <1>6, <1>15, <2>1
  <2>6. QED
    BY <1>5, <1>15, <2>1, <2>4, <2>5 DEF Safe
<1>17. CASE OtherDone
  <2>1. UNCHANGED <<foreign, blind, script>>
    BY <1>17 DEF OtherDone, AddCounters, Refused
  <2>2. session'["other"] = Idle /\ session'["recorder"] = session["recorder"]
    BY <1>1, <1>3, <1>17, AddingDoes, RefusedDoes DEF OtherDone
  <2>3. SameRules(table, table')
    <3>1. CASE AddCounters("other")
      BY <1>1, <1>3, <3>1, AddingDoes
    <3>2. CASE Refused("other")
      <4>1. table' = table /\ Len(table) \in Nat
        BY <1>2, <3>2, LenProperties DEF Refused
      <4>2. QED
        BY <4>1 DEF SameRules
    <3>3. QED
      BY <1>17, <3>1, <3>2 DEF OtherDone
  <2>4. \A p \in Procs : SessionOK(p, session'[p], script', blind', table')
    BY <1>3, <1>5, <1>15, <2>1, <2>2, <2>3
  <2>5. QED
    BY <1>4, <1>15, <2>1, <2>2, <2>3, <2>4 DEF Safe
<1>18. ASSUME NEW i \in DOMAIN table, Packet(i)
       PROVE  Safe'
  <2>1. UNCHANGED <<session, script, foreign, blind>> /\ table' = [table EXCEPT ![i].cnt = @ + 1]
    BY <1>18 DEF Packet
  <2>2. SameRules(table, table')
    BY <1>1, <2>1, CountedIs
  <2>3. QED
    BY <1>4, <1>15, <2>1, <2>2 DEF Safe
<1>19. ASSUME NEW p \in Procs, Replace(p)
       PROVE  Safe'
  <2> DEFINE new == session[p].cache
  <2>1. PICK q \in Procs : q # p
    BY <1>3
  <2>2. /\ session[p].at = "cached" /\ new \in Seq(Copies)
        /\ Len(table') = Len(new) /\ SameRules(new, table')
        /\ Waits(session'[p]) /\ Len(session'[p].plus) = Len(new)
        /\ session'[q].at = session[q].at /\ (session'[q].stale <=> session[q].at # "idle")
        /\ session[q] = Idle => session'[q] = Idle
        /\ collided' = (collided \/ session[p].stale)
    BY <1>1, <1>19, <2>1, ReplaceDoes
  <2>3. ~session[p].stale /\ UNCHANGED <<script, blind>>
    BY <1>19, <2>2 DEF Replace
  <2>4. SessionOK(p, session'[p], script', blind', table')
    BY <2>2 DEF SessionOK, Waits
  <2>5. SessionOK(q, session'[q], script', blind', table')
    <3>1. CASE session[q].at = "idle"
      <4>1. session'[q] = Idle
        BY <1>2, <2>2, <3>1 DEF SessionType
      <4>2. QED
        BY <1>5, <4>1
    <3>2. CASE session[q].at # "idle"
      BY <2>2, <3>2 DEF SessionOK
    <3>3. QED
      BY <3>1, <3>2
  <2>6. SessionOK(p, session[p], script, blind, table)
    BY <1>4
  <2> HIDE DEF new
  <2>7. TableOK(new, foreign') /\ Promised(script, blind, new, Waits(session'["recorder"]))
    <3>1. CASE p = "recorder"
      <4>1. RecorderCopy(script, blind, table, new)
        BY <2>2, <2>3, <2>6, <3>1 DEF SessionOK, new
      <4>2. TableOK(new, foreign)
        BY <1>4, <4>1 DEF RecorderCopy, TableOK, OthersAlike
      <4>3. foreign' = foreign /\ Waits(session'["recorder"]) = TRUE
        BY <1>19, <2>2, <3>1 DEF Replace, Waits
      <4>4. QED
        BY <4>1, <4>2, <4>3 DEF RecorderCopy
    <3>2. CASE p = "other"
      <4>1. OtherCopy(table, new)
        BY <2>2, <2>3, <2>6, <3>2 DEF SessionOK, new
      <4>2. Alike(table, new) /\ Once(new, Other)
        BY <4>1 DEF OtherCopy
      <4>3. Formed(new) /\ OneOwner(new)
        BY <1>4, <4>2, AlikeNetrec DEF TableOK
      <4>4. foreign' = IF RuleSet(new) \cap Other = {} THEN None
                       ELSE CHOOSE r \in Other : r \in RuleSet(new)
        BY <1>19, <3>2 DEF Replace, new
      <4>5. \A r \in Other : HasRule(new, r) <=> r = foreign'
        BY <2>2, <4>2, <4>4, OtherRule
      <4>6. Waits(session'["recorder"]) = Waits(session["recorder"])
        <5>1. q = "recorder"
          BY <1>3, <2>1, <3>2
        <5>2. QED
          BY <2>2, <5>1 DEF Waits
      <4>7. Promised(script, blind, new, Waits(session["recorder"]))
        BY <1>4, <4>2, PromisedAlike
      <4>8. QED
        BY <4>2, <4>3, <4>5, <4>6, <4>7 DEF TableOK
    <3>3. QED
      BY <1>3, <3>1, <3>2
  <2>8. TableOK(table', foreign')
        /\ Promised(script', blind', table', Waits(session'["recorder"]))
    BY <2>2, <2>3, <2>7, KeptWithRules
  <2>9. \A x \in Procs : SessionOK(x, session'[x], script', blind', table')
    BY <1>3, <2>1, <2>4, <2>5
  <2>10. QED
    BY <2>8, <2>9 DEF Safe
<1>20. QED
  BY <1>1, <1>9, <1>10, <1>11, <1>12, <1>13, <1>14, <1>16, <1>17, <1>18, <1>19 DEF Next

\* What is due to the entries of a table.
LEMMA DueIs ==
  ASSUME NEW t \in Seq(Entries), NEW e \in Sessions, NEW f \in Sessions,
         Waits(e) => Len(e.plus) = Len(t), Waits(f) => Len(f.plus) = Len(t)
  PROVE  /\ \A i \in 1..Len(t) : /\ t[i].cnt \in Nat /\ Due(t, e, f, i) \in Nat
                                 /\ Coming(e, i) \in Nat /\ Coming(f, i) \in Nat
         /\ \A r : /\ DueFor(r, t, e, f) \in Seq(Nat) /\ Len(DueFor(r, t, e, f)) = Len(t)
                   /\ \A i \in 1..Len(t) :
                        DueFor(r, t, e, f)[i] = IF t[i].rule = r THEN Due(t, e, f, i) ELSE 0
<1>1. /\ Len(t) \in Nat /\ e.plus \in Seq(Nat) /\ f.plus \in Seq(Nat)
      /\ \A i \in 1..Len(t) : t[i] \in Entries
  BY LenProperties, ElementOfSeq DEF Sessions
<1>2. /\ \A i \in 1..Len(e.plus) : e.plus[i] \in Nat
      /\ \A i \in 1..Len(f.plus) : f.plus[i] \in Nat
  BY <1>1, ElementOfSeq
<1>3. \A i \in 1..Len(t) : t[i].cnt \in Nat /\ Coming(e, i) \in Nat /\ Coming(f, i) \in Nat
  BY <1>1, <1>2 DEF Coming, Entries
<1>4. \A i \in 1..Len(t) : Due(t, e, f, i) \in Nat
  BY <1>3 DEF Due
<1>5. ASSUME NEW r
      PROVE  /\ DueFor(r, t, e, f) \in Seq(Nat) /\ Len(DueFor(r, t, e, f)) = Len(t)
             /\ \A i \in 1..Len(t) :
                  DueFor(r, t, e, f)[i] = IF t[i].rule = r THEN Due(t, e, f, i) ELSE 0
  <2> DEFINE F(i) == IF t[i].rule = r THEN Due(t, e, f, i) ELSE 0
  <2>1. DueFor(r, t, e, f) = [i \in 1..Len(t) |-> F(i)]
    BY DEF DueFor
  <2>2. \A i \in 1..Len(t) : F(i) \in Nat
    BY <1>4
  <2> HIDE DEF F
  <2>3. /\ DueFor(r, t, e, f) \in Seq(Nat) /\ Len(DueFor(r, t, e, f)) = Len(t)
        /\ \A i \in 1..Len(t) : DueFor(r, t, e, f)[i] = F(i)
    BY <1>1, <2>1, <2>2
  <2>4. QED
    BY <2>3 DEF F
<1>6. QED
  BY <1>3, <1>4, <1>5

\* The counts of a table that is edited and written come with it.
LEMMA CarriedTotals ==
  ASSUME NEW t \in Seq(Entries), NEW new \in Seq(Copies), Carried(t, new), NEW r \in Rules,
         NEW v \in Seq(Nat), Len(v) = Len(t),
         \A i \in 1..Len(t) : v[i] = IF t[i].rule = r THEN t[i].cnt ELSE 0,
         NEW w \in Seq(Nat), Len(w) = Len(new),
         \A i \in 1..Len(new) : w[i] = IF new[i].rule = r THEN Plus(new[i], t) ELSE 0
  PROVE  Total(w) = IF HasRule(t, r) /\ HasRule(new, r) THEN Total(v) ELSE 0
<1>1. Len(t) \in Nat /\ Len(new) \in Nat
  BY LenProperties
<1>2. CASE ~HasRule(new, r)
  <2>1. \A n \in 1..Len(w) : w[n] = 0
    BY <1>2 DEF HasRule
  <2>2. QED
    BY <1>2, <2>1, TotalOfNothing
<1>3. CASE HasRule(new, r)
  <2>1. PICK g : CarriedBy(t, new, g)
    BY DEF Carried
  <2>2. g \in [0..Len(w) -> 0..Len(v)] /\ g[0] = 0 /\ g[Len(w)] = Len(v)
    BY <2>1 DEF CarriedBy
  <2>3. ASSUME NEW j \in 1..Len(w)
        PROVE  \/ w[j] = 0 /\ g[j] = g[j - 1]
               \/ /\ w[j] = v[g[j]] /\ g[j - 1] < g[j]
                  /\ \A n \in (g[j - 1] + 1)..(g[j] - 1) : v[n] = 0
    <3>1. g[j] \in 0..Len(t) /\ g[j - 1] \in 0..Len(t) /\ j \in 1..Len(new)
      <4>1. j \in 0..Len(w) /\ j - 1 \in 0..Len(w)
        BY <1>1
      <4>2. QED
        BY <2>2, <4>1
    <3>2. CASE new[j].map = "SET" /\ g[j] = g[j - 1]
      <4>1. Plus(new[j], t) = 0
        BY <3>2 DEF Plus
      <4>2. QED
        BY <3>1, <3>2, <4>1
    <3>3. CASE /\ new[j].rule = t[g[j]].rule /\ new[j].pos = g[j]
               /\ new[j].map = MapOf(t[g[j]].rule) /\ g[j - 1] < g[j]
               /\ \A n \in (g[j - 1] + 1)..(g[j] - 1) : ~HasRule(new, t[n].rule)
      <4>1. g[j] \in 1..Len(t) /\ \A n \in (g[j - 1] + 1)..(g[j] - 1) : n \in 1..Len(t)
        <5>1. g[j - 1] < g[j]
          BY <3>3
        <5>2. QED
          <6>1. /\ Len(t) \in Nat /\ g[j] \in 0..Len(t) /\ g[j - 1] \in 0..Len(t)
                /\ g[j - 1] < g[j]
            BY <1>1, <3>1, <5>1
          <6> DEFINE y == g[j - 1]
                     z == g[j]
          <6>2. /\ Len(t) \in Nat /\ z \in 0..Len(t) /\ y \in 0..Len(t) /\ y < z
            BY <6>1
          <6> HIDE DEF y, z
          <6>3. z \in 1..Len(t) /\ \A n \in (y + 1)..(z - 1) : n \in 1..Len(t)
            BY ONLY <6>2
          <6>4. QED
            BY <6>3 DEF y, z
      <4>2. new[j].rule = r => Plus(new[j], t) = t[g[j]].cnt
        <5>1. new[j].rule = r => new[j].map = "NORMAL_MAP"
          BY <3>3 DEF MapOf
        <5>2. QED
          BY <3>3, <5>1 DEF Plus
      <4>3. w[j] = v[g[j]]
        BY <3>1, <3>3, <4>1, <4>2
      <4>4. \A n \in (g[j - 1] + 1)..(g[j] - 1) : v[n] = 0
        BY <1>3, <3>3, <4>1
      <4>5. QED
        BY <3>3, <4>3, <4>4
    <3>4. QED
      BY <2>1, <3>1, <3>2, <3>3 DEF CarriedBy
  <2>4. \A n \in (g[Len(w)] + 1)..Len(v) : v[n] = 0
    BY <1>1, <2>2
  <2>5. Total(w) = Total(v)
    BY <2>2, <2>3, <2>4, TotalOfMoved
  <2>6. CASE ~HasRule(t, r)
    <3>1. \A n \in 1..Len(v) : v[n] = 0
      BY <2>6 DEF HasRule
    <3>2. QED
      BY <2>5, <2>6, <3>1, TotalOfNothing
  <2>7. QED
    BY <1>3, <2>5, <2>6
<1>4. QED
  BY <1>2, <1>3

LEMMA CarriedPolicy ==
  ASSUME NEW t \in Seq(Entries), NEW new \in Seq(Copies), Carried(t, new),
         NEW j \in 1..Len(new), new[j].rule = Policy
  PROVE  \/ Plus(new[j], t) = 0
         \/ \E i \in 1..Len(t) : t[i].rule = Policy /\ Plus(new[j], t) <= t[i].cnt
<1>1. /\ Len(t) \in Nat /\ Len(new) \in Nat /\ new[j] \in Copies
      /\ \A i \in 1..Len(t) : t[i] \in Entries
  BY LenProperties, ElementOfSeq
<1>2. new[j].map \in {"NORMAL_MAP", "ZEROED", "NOMAP", "SET"} /\ new[j].cnt \in Nat
  BY <1>1 DEF Copies
<1>3. CASE new[j].map \in {"NOMAP", "SET"}
  BY <1>3 DEF Plus
<1>4. CASE new[j].map \in {"NORMAL_MAP", "ZEROED"}
  <2>1. new[j].pos \in 1..Len(t) /\ t[new[j].pos].rule = Policy
    BY <1>1, <1>4, CarriedPlaces
  <2>2. PICK c \in Nat, d \in Nat : c = t[new[j].pos].cnt /\ d = new[j].cnt
    BY <1>1, <1>2, <2>1 DEF Entries
  <2>3. Plus(new[j], t) = c \/ Plus(new[j], t) = IF c >= d THEN c - d ELSE 0
    BY <1>4, <2>2 DEF Plus
  <2>4. Plus(new[j], t) <= c
    BY <2>2, <2>3
  <2>5. QED
    BY <2>1, <2>2, <2>4
<1>5. QED
  BY <1>2, <1>3, <1>4

LEMMA CountingStep ==
  ASSUME Bounds, IInv, Step, ~collided'
  PROVE  Counting(table', session'["recorder"], session'["other"], hits')
<1> DEFINE Fresh(e) == Waits(e) => ~e.stale
<1>1. Types /\ ~collided /\ Safe /\ Next
      /\ Counting(table, session["recorder"], session["other"], hits)
  BY DEF IInv, Step
<1>2. /\ table \in Seq(Entries)
      /\ session \in [Procs -> Sessions] /\ \A p \in Procs : SessionType(session[p])
      /\ hits \in [Rules \cup {Policy} -> Nat]
  BY <1>1 DEF Types
<1>3. /\ "recorder" \in Procs /\ "other" \in Procs /\ "recorder" # "other"
      /\ \A p \in Procs : p = "recorder" \/ p = "other"
  BY ProcsAre
<1>4. ~Waits(Idle)
  BY IdleIs
<1>5. \A p \in Procs : /\ session[p] \in Sessions /\ SessionOK(p, session[p], script, blind, table)
                       /\ Fresh(session[p]) /\ Waits(session[p]) => Len(session[p].plus) = Len(table)
  BY <1>1, <1>2 DEF Safe, SessionOK, Waits
<1>6. Len(table) \in Nat
  BY <1>2, LenProperties
\* What is due to the entries, before the step.
<1>7. ASSUME \A p \in Procs : Fresh(session[p])
      PROVE  /\ \A r \in Rules : Total(DueFor(r, table, session["recorder"], session["other"])) = hits[r]
             /\ \A i \in 1..Len(table) :
                  /\ Due(table, session["recorder"], session["other"], i) \in Nat
                  /\ table[i].rule = Policy =>
                       Due(table, session["recorder"], session["other"], i) <= hits[Policy]
             /\ \A r : LET w == DueFor(r, table, session["recorder"], session["other"]) IN
                  /\ w \in Seq(Nat) /\ Len(w) = Len(table)
                  /\ \A i \in 1..Len(table) :
                       w[i] = IF table[i].rule = r
                              THEN Due(table, session["recorder"], session["other"], i) ELSE 0
  <2>1. /\ Fresh(session["recorder"]) /\ Fresh(session["other"])
        /\ session["recorder"] \in Sessions /\ session["other"] \in Sessions
        /\ Waits(session["recorder"]) => Len(session["recorder"].plus) = Len(table)
        /\ Waits(session["other"]) => Len(session["other"].plus) = Len(table)
    BY <1>3, <1>5, <1>7
  <2>2. QED
    BY <1>1, <1>2, <2>1, DueIs DEF Counting
\* The same is due after the step.
<1>8. ASSUME UNCHANGED hits, Len(table') = Len(table),
             \A p \in Procs : Fresh(session'[p]) => Fresh(session[p]),
             (\A p \in Procs : Fresh(session[p])) =>
               \A i \in 1..Len(table) :
                 /\ table'[i].rule = table[i].rule
                 /\ Due(table', session'["recorder"], session'["other"], i)
                      = Due(table, session["recorder"], session["other"], i)
      PROVE  Counting(table', session'["recorder"], session'["other"], hits')
  <2> SUFFICES ASSUME Fresh(session'["recorder"]), Fresh(session'["other"])
               PROVE  /\ \A r \in Rules :
                           Total(DueFor(r, table', session'["recorder"], session'["other"])) = hits[r]
                      /\ \A i \in 1..Len(table) : table'[i].rule = Policy =>
                           Due(table', session'["recorder"], session'["other"], i) <= hits[Policy]
    BY <1>8 DEF Counting
  <2>1. \A p \in Procs : Fresh(session[p])
    BY <1>3, <1>8
  <2>2. \A r : DueFor(r, table', session'["recorder"], session'["other"])
                 = DueFor(r, table, session["recorder"], session["other"])
    BY <1>8, <2>1 DEF DueFor
  <2>3. QED
    BY <1>7, <1>8, <2>1, <2>2
\* Nobody waits for something else than before.
<1>9. ASSUME UNCHANGED <<table, hits>>,
             \A p \in Procs : \/ session'[p] = session[p]
                              \/ ~Waits(session[p]) /\ ~Waits(session'[p])
      PROVE  Counting(table', session'["recorder"], session'["other"], hits')
  <2>1. \A p \in Procs : Fresh(session'[p]) => Fresh(session[p])
    BY <1>9
  <2>2. \A p \in Procs : \A i : Coming(session'[p], i) = Coming(session[p], i)
    BY <1>9 DEF Coming
  <2>3. \A i : Due(table', session'["recorder"], session'["other"], i)
                 = Due(table, session["recorder"], session["other"], i)
    BY <1>3, <1>9, <2>2 DEF Due
  <2>4. QED
    BY <1>8, <1>9, <2>1, <2>3
<1>10. ASSUME NEW kind, NEW u, Start(kind, u)
       PROVE  Counting(table', session'["recorder"], session'["other"], hits')
  BY <1>9, <1>10 DEF Start
<1>11. CASE Find \/ Grep
  BY <1>9, <1>11 DEF Find, Grep
<1>12. CASE Edits
  <2>1. UNCHANGED <<table, hits>> /\ session["recorder"] = Idle
        /\ session' = [session EXCEPT !["recorder"] = Cached(Edit(Parse(table)))]
    BY <1>12 DEF Edits, At
  <2>2. ~Waits(Cached(Edit(Parse(table))))
    BY DEF Cached, Waits
  <2>3. QED
    BY <1>2, <1>4, <1>9, <2>1, <2>2
<1>13. CASE OtherEdits
  <2>1. PICK c \in OtherTables(Parse(table)) : session' = [session EXCEPT !["other"] = Cached(c)]
    BY <1>13, Zenon DEF OtherEdits, OtherTables
  <2>2. UNCHANGED <<table, hits>> /\ session["other"] = Idle
    BY <1>13 DEF OtherEdits
  <2>3. ~Waits(Cached(c))
    BY DEF Cached, Waits
  <2>4. QED
    BY <1>2, <1>4, <1>9, <2>1, <2>2, <2>3
<1>14. CASE Fails
  <2>1. UNCHANGED <<table, hits>> /\ ~Waits(session["recorder"])
        /\ session' = [session EXCEPT !["recorder"] = Idle]
    BY <1>14 DEF Fails, Waits
  <2>2. QED
    BY <1>2, <1>4, <1>9, <2>1
<1>15. ASSUME NEW p \in Procs, Refused(p)
       PROVE  Counting(table', session'["recorder"], session'["other"], hits')
  <2>1. UNCHANGED <<table, hits>> /\ ~Waits(session[p]) /\ session'[p] = Idle
        /\ \A x \in Procs : x # p => session'[x] = session[x]
    BY <1>1, <1>15, RefusedDoes DEF Waits
  <2>2. QED
    BY <1>4, <1>9, <2>1
<1>16. ASSUME NEW p \in Procs, AddCounters(p)
       PROVE  Counting(table', session'["recorder"], session'["other"], hits')
  <2>1. /\ Waits(session[p]) /\ Len(session[p].plus) = Len(table) /\ SameRules(table, table')
        /\ \A i \in 1..Len(table) : /\ table'[i].rule = table[i].rule
                                    /\ table'[i].cnt = table[i].cnt + session[p].plus[i]
        /\ session'[p] = Idle /\ \A x \in Procs : x # p => session'[x] = session[x]
        /\ ~session[p].stale /\ UNCHANGED hits
    BY <1>1, <1>16, AddingDoes DEF Waits, AddCounters
  <2>2. \A x \in Procs : Fresh(session'[x]) => Fresh(session[x])
    BY <1>4, <2>1
  <2>3. ASSUME \A x \in Procs : Fresh(session[x]), NEW i \in 1..Len(table)
        PROVE  Due(table', session'["recorder"], session'["other"], i)
                 = Due(table, session["recorder"], session["other"], i)
    <3>1. \A x \in Procs : Coming(session[x], i) \in Nat /\ table[i].cnt \in Nat
      <4> DEFINE e == session["recorder"]
                 f == session["other"]
      <4>1. /\ e \in Sessions /\ f \in Sessions
            /\ Waits(e) => Len(e.plus) = Len(table)
            /\ Waits(f) => Len(f.plus) = Len(table)
        BY <1>3, <1>5, <2>3
      <4> HIDE DEF e, f
      <4>2. table[i].cnt \in Nat /\ Coming(e, i) \in Nat /\ Coming(f, i) \in Nat
        BY <1>2, <4>1, DueIs
      <4>3. QED
        BY <1>3, <4>2 DEF e, f
    <3>2. /\ Coming(session[p], i) = session[p].plus[i] /\ Coming(session'[p], i) = 0
          /\ \A x \in Procs : x # p => Coming(session'[x], i) = Coming(session[x], i)
      BY <1>4, <2>1 DEF Coming
    <3>3. table'[i].cnt = table[i].cnt + Coming(session[p], i)
      BY <2>1, <3>2
    <3>4. PICK a \in Nat, b \in Nat, c \in Nat :
            /\ a = table[i].cnt /\ b = Coming(session["recorder"], i)
            /\ c = Coming(session["other"], i)
      BY <1>3, <3>1
    <3>5. CASE p = "recorder"
      <4>1. /\ table'[i].cnt = a + b /\ Coming(session'["recorder"], i) = 0
            /\ Coming(session'["other"], i) = c
        BY <1>3, <3>2, <3>3, <3>4, <3>5
      <4>2. QED
        BY <3>4, <4>1 DEF Due
    <3>6. CASE p = "other"
      <4>1. /\ table'[i].cnt = a + c /\ Coming(session'["other"], i) = 0
            /\ Coming(session'["recorder"], i) = b
        BY <1>3, <3>2, <3>3, <3>4, <3>6
      <4>2. QED
        BY <3>4, <4>1 DEF Due
    <3>7. QED
      BY <1>3, <3>5, <3>6
  <2>4. Len(table') = Len(table)
    BY <2>1 DEF SameRules
  <2>5. QED
    BY <1>8, <2>1, <2>2, <2>3, <2>4
<1>17. ASSUME NEW i \in DOMAIN table, Packet(i)
       PROVE  Counting(table', session'["recorder"], session'["other"], hits')
  <2> DEFINE e == session["recorder"]
             f == session["other"]
             x == table[i].rule
  <2>1. /\ UNCHANGED session /\ x \in Rules \cup {Policy}
        /\ hits' = [hits EXCEPT ![x] = @ + 1]
        /\ table' = [table EXCEPT ![i].cnt = @ + 1]
    BY <1>17 DEF Packet
  <2>2. /\ i \in 1..Len(table) /\ table' \in Seq(Entries) /\ Len(table') = Len(table)
        /\ \A k \in 1..Len(table) :
             /\ table'[k].rule = table[k].rule
             /\ table'[k].cnt = IF k = i THEN table[k].cnt + 1 ELSE table[k].cnt
    <3>1. /\ i \in 1..Len(table) /\ table' \in Seq(Entries) /\ SameRules(table, table')
          /\ \A k \in 1..Len(table) :
               /\ table'[k].rule = table[k].rule
               /\ table'[k].cnt = IF k = i THEN table[k].cnt + 1 ELSE table[k].cnt
      <4>1. /\ Types /\ i \in DOMAIN table
            /\ table' = [table EXCEPT ![i].cnt = @ + 1]
        BY <1>1, <2>1
      <4>2. i \in 1..Len(table) /\ table' \in Seq(Entries) /\ SameRules(table, table')
        BY <4>1, CountedIs
      <4>3. \A k \in 1..Len(table) : table'[k].rule = table[k].rule
        BY <4>1, CountedIs
      <4>4. \A k \in 1..Len(table) :
              table'[k].cnt = IF k = i THEN table[k].cnt + 1 ELSE table[k].cnt
        BY <4>1, CountedIs
      <4>5. QED
        BY <4>2, <4>3, <4>4
    <3>2. QED
      BY <3>1 DEF SameRules
  <2> HIDE DEF e, f, x
  <2>3. SUFFICES ASSUME Fresh(e), Fresh(f)
                 PROVE  /\ \A r \in Rules : Total(DueFor(r, table', e, f)) = hits'[r]
                        /\ \A k \in 1..Len(table) : table'[k].rule = Policy =>
                             Due(table', e, f, k) <= hits'[Policy]
    BY <2>1, <2>2 DEF Counting, e, f
  <2>4. /\ \A r \in Rules : Total(DueFor(r, table, e, f)) = hits[r]
        /\ \A k \in 1..Len(table) : /\ Due(table, e, f, k) \in Nat
                                    /\ table[k].rule = Policy => Due(table, e, f, k) <= hits[Policy]
        /\ \A r : /\ DueFor(r, table, e, f) \in Seq(Nat)
                  /\ Len(DueFor(r, table, e, f)) = Len(table)
                  /\ \A k \in 1..Len(table) :
                       DueFor(r, table, e, f)[k] = IF table[k].rule = r THEN Due(table, e, f, k) ELSE 0
    <3>1. \A p \in Procs : Fresh(session[p])
      BY <1>3, <2>3 DEF e, f
    <3>2. QED
      BY <1>7, <3>1 DEF e, f
  <2>5. /\ e \in Sessions /\ f \in Sessions
        /\ (Waits(e) => Len(e.plus) = Len(table)) /\ (Waits(f) => Len(f.plus) = Len(table))
    BY <1>3, <1>5, <2>3 DEF e, f
  <2>6. /\ \A k \in 1..Len(table) : table[k].cnt \in Nat /\ Coming(e, k) \in Nat /\ Coming(f, k) \in Nat
        /\ \A r : /\ DueFor(r, table', e, f) \in Seq(Nat)
                  /\ Len(DueFor(r, table', e, f)) = Len(table)
                  /\ \A k \in 1..Len(table) : DueFor(r, table', e, f)[k]
                       = IF table'[k].rule = r THEN Due(table', e, f, k) ELSE 0
    <3>1. /\ Waits(e) => Len(e.plus) = Len(table')
          /\ Waits(f) => Len(f.plus) = Len(table')
      BY <2>2, <2>5
    <3>2. \A r : /\ DueFor(r, table', e, f) \in Seq(Nat)
                 /\ Len(DueFor(r, table', e, f)) = Len(table')
                 /\ \A k \in 1..Len(table') : DueFor(r, table', e, f)[k]
                       = IF table'[k].rule = r THEN Due(table', e, f, k) ELSE 0
      BY <2>2, <2>5, <3>1, DueIs
    <3>3. \A k \in 1..Len(table) : table[k].cnt \in Nat /\ Coming(e, k) \in Nat /\ Coming(f, k) \in Nat
      BY <1>2, <2>5, <3>1, DueIs
    <3>4. QED
      BY <2>2, <3>2, <3>3
  <2>7. \A k \in 1..Len(table) :
          Due(table', e, f, k) = IF k = i THEN Due(table, e, f, k) + 1 ELSE Due(table, e, f, k)
    <3> SUFFICES ASSUME NEW k \in 1..Len(table)
                 PROVE  Due(table', e, f, k)
                          = IF k = i THEN Due(table, e, f, k) + 1 ELSE Due(table, e, f, k)
      OBVIOUS
    <3>1. PICK a \in Nat, b \in Nat, c \in Nat :
            a = table[k].cnt /\ b = Coming(e, k) /\ c = Coming(f, k)
      BY <2>6
    <3>2. table'[k].cnt = IF k = i THEN a + 1 ELSE a
      BY <2>2, <3>1
    <3>3. QED
      BY <3>1, <3>2 DEF Due
  <2>8. \A r \in Rules \cup {Policy} : hits'[r] = IF r = x THEN hits[r] + 1 ELSE hits[r]
    BY <1>2, <2>1
  <2>9. ASSUME NEW r \in Rules
        PROVE  Total(DueFor(r, table', e, f)) = hits'[r]
    <3> DEFINE v == DueFor(r, table', e, f)
               w == DueFor(r, table, e, f)
    <3>1. /\ v \in Seq(Nat) /\ w \in Seq(Nat) /\ Len(v) = Len(table) /\ Len(w) = Len(table)
          /\ \A k \in 1..Len(table) :
               v[k] = IF k = i /\ r = x THEN w[k] + 1 ELSE w[k]
      <4>1. /\ v \in Seq(Nat) /\ w \in Seq(Nat) /\ Len(v) = Len(table) /\ Len(w) = Len(table)
            /\ \A k \in 1..Len(table) :
                 /\ v[k] = IF table[k].rule = r THEN Due(table', e, f, k) ELSE 0
                 /\ w[k] = IF table[k].rule = r THEN Due(table, e, f, k) ELSE 0
        <5>1. /\ w \in Seq(Nat) /\ Len(w) = Len(table)
              /\ \A k \in 1..Len(table) :
                   w[k] = IF table[k].rule = r THEN Due(table, e, f, k) ELSE 0
          BY <2>4
        <5>2. /\ v \in Seq(Nat) /\ Len(v) = Len(table)
              /\ \A k \in 1..Len(table) :
                   v[k] = IF table'[k].rule = r THEN Due(table', e, f, k) ELSE 0
          BY <2>6
        <5> HIDE DEF v, w
        <5>3. QED
          BY <2>2, <5>1, <5>2
      <4> HIDE DEF v, w
      <4>2. QED
        BY <2>7, <4>1 DEF x
    <3>2. Total(w) = hits[r]
      BY <2>4
    <3> HIDE DEF v, w
    <3>3. CASE r = x
      <4>1. \A k \in 1..Len(w) : v[k] = IF k = i THEN w[k] + 1 ELSE w[k]
        BY <3>1, <3>3
      <4>2. Total(v) = Total(w) + 1
        <5>1. /\ v \in Seq(Nat) /\ w \in Seq(Nat) /\ Len(v) = Len(w) /\ i \in 1..Len(w)
          BY <2>2, <3>1
        <5>2. QED
          BY ONLY <4>1, <5>1, TotalOfOneMore
      <4>3. QED
        BY <2>8, <3>2, <3>3, <4>2 DEF v
    <3>4. CASE r # x
      <4>1. v = w
        <5>1. \A k \in 1..Len(v) : v[k] = w[k]
          BY <3>1, <3>4
        <5>2. QED
          BY <3>1, <5>1, SeqEqual
      <4>2. QED
        BY <2>8, <3>2, <3>4, <4>1 DEF v
    <3>5. QED
      BY <3>3, <3>4
  <2>10. ASSUME NEW k \in 1..Len(table), table'[k].rule = Policy
         PROVE  Due(table', e, f, k) <= hits'[Policy]
    <3>1. PICK d \in Nat, h \in Nat : d = Due(table, e, f, k) /\ h = hits[Policy]
      BY <1>2, <2>4
    <3>2. d <= h
      BY <2>2, <2>4, <2>10, <3>1
    <3>3. CASE k = i
      <4>1. x = Policy
        BY <2>2, <2>10, <3>3 DEF x
      <4>2. hits'[Policy] = h + 1 /\ Due(table', e, f, k) = d + 1
        BY <2>7, <2>8, <3>1, <3>3, <4>1
      <4>3. QED
        BY <3>1, <3>2, <4>2
    <3>4. CASE k # i
      <4>1. Due(table', e, f, k) = d /\ (hits'[Policy] = h \/ hits'[Policy] = h + 1)
        BY <2>7, <2>8, <3>1, <3>4
      <4>2. QED
        BY <3>1, <3>2, <4>1
    <3>5. QED
      BY <3>3, <3>4
  <2>11. QED
    BY <2>9, <2>10
<1>18. ASSUME NEW p \in Procs, Replace(p)
       PROVE  Counting(table', session'["recorder"], session'["other"], hits')
  <2> DEFINE new == session[p].cache
             e == session'["recorder"]
             f == session'["other"]
  <2>1. PICK q \in Procs : q # p
    BY <1>3
  <2>2. /\ session[p].at = "cached" /\ new \in Seq(Copies)
        /\ table' \in Seq(Entries) /\ Len(table') = Len(new) /\ SameRules(new, table')
        /\ \A i \in 1..Len(new) : table'[i].cnt = 0 /\ table'[i].rule = new[i].rule
        /\ session' \in [Procs -> Sessions]
        /\ Waits(session'[p]) /\ ~session'[p].stale /\ Len(session'[p].plus) = Len(new)
        /\ \A i \in 1..Len(new) : session'[p].plus[i] = Plus(new[i], table)
        /\ session'[q].at = session[q].at /\ (session'[q].stale <=> session[q].at # "idle")
        /\ collided' = (collided \/ session[p].stale)
    BY <1>1, <1>18, <2>1, ReplaceDoes
  <2>3. hits' = [r \in DOMAIN hits |->
                   IF r \in RuleSet(table) \cap RuleSet(new) THEN hits[r] ELSE 0]
    BY <1>18 DEF Replace
  <2>4. Carried(table, new)
    <3>1. SessionOK(p, session[p], script, blind, table) /\ ~session[p].stale
      BY <1>5, <2>2
    <3>2. QED
      BY <1>3, <2>2, <3>1 DEF SessionOK, RecorderCopy, OtherCopy
  <2>5. \A r : (r \in RuleSet(table) <=> HasRule(table, r)) /\ (r \in RuleSet(new) <=> HasRule(new, r))
    BY <1>2, <2>2, RuleSetIs
  <2> HIDE DEF new, e, f
  <2>6. \A r \in Rules \cup {Policy} :
          hits'[r] = IF HasRule(table, r) /\ HasRule(new, r) THEN hits[r] ELSE 0
    BY <1>2, <2>3, <2>5
  <2>7. SUFFICES ASSUME Fresh(e), Fresh(f)
                 PROVE  /\ \A r \in Rules : Total(DueFor(r, table', e, f)) = hits'[r]
                        /\ \A k \in 1..Len(new) : new[k].rule = Policy =>
                             Due(table', e, f, k) <= hits'[Policy]
    BY <2>2 DEF Counting, e, f
  <2>8. ~Waits(session'[q]) /\ ~Waits(session[q]) /\ ~Waits(session[p])
    <3>1. Fresh(session'[q])
      BY <1>3, <2>7 DEF e, f
    <3>2. QED
      BY <2>2, <3>1 DEF Waits
  <2>9. \A x \in Procs : Fresh(session[x]) /\ ~Waits(session[x])
    BY <1>3, <2>1, <2>8
  <2>10. \A i \in 1..Len(table) :
           Due(table, session["recorder"], session["other"], i) = table[i].cnt
    <3>1. \A i : Coming(session["recorder"], i) = 0 /\ Coming(session["other"], i) = 0
      BY <1>3, <2>9 DEF Coming
    <3>2. \A i \in 1..Len(table) : table[i].cnt \in Nat
      <4>1. \A i \in 1..Len(table) : table[i] \in Entries
        BY <1>2, ElementOfSeq
      <4>2. QED
        BY <4>1 DEF Entries
    <3>3. QED
      BY <3>1, <3>2 DEF Due
  <2>11. \A k \in 1..Len(new) : /\ Due(table', e, f, k) = Plus(new[k], table)
                                /\ Plus(new[k], table) \in Nat
    <3> SUFFICES ASSUME NEW k \in 1..Len(new)
                 PROVE  Due(table', e, f, k) = Plus(new[k], table) /\ Plus(new[k], table) \in Nat
      OBVIOUS
    <3>1. Coming(session'[p], k) = Plus(new[k], table) /\ Coming(session'[q], k) = 0
      BY <2>2, <2>8 DEF Coming
    <3>2. Plus(new[k], table) \in Nat
      <4>1. session'[p].plus \in Seq(Nat)
        BY <2>2 DEF Sessions
      <4>2. QED
        BY <2>2, <4>1, ElementOfSeq
    <3>3. table'[k].cnt = 0
      BY <2>2
    <3>4. \/ Coming(e, k) = Plus(new[k], table) /\ Coming(f, k) = 0
          \/ Coming(e, k) = 0 /\ Coming(f, k) = Plus(new[k], table)
      BY <1>3, <2>1, <3>1 DEF e, f
    <3>5. QED
      BY <3>2, <3>3, <3>4 DEF Due
  <2>12. /\ e \in Sessions /\ f \in Sessions
         /\ (Waits(e) => Len(e.plus) = Len(table')) /\ (Waits(f) => Len(f.plus) = Len(table'))
    <3>1. \A x \in Procs : x = p \/ x = q
      BY <1>3, <2>1
    <3>2. \A x \in Procs : session'[x] \in Sessions
                           /\ (Waits(session'[x]) => Len(session'[x].plus) = Len(table'))
      BY <2>2, <2>8, <3>1
    <3>3. QED
      BY <1>3, <3>2 DEF e, f
  <2>13. ASSUME NEW r \in Rules
         PROVE  Total(DueFor(r, table', e, f)) = hits'[r]
    <3> DEFINE v == DueFor(r, table, session["recorder"], session["other"])
               w == DueFor(r, table', e, f)
    <3>1. /\ v \in Seq(Nat) /\ Len(v) = Len(table) /\ Total(v) = hits[r]
          /\ \A i \in 1..Len(table) : v[i] = IF table[i].rule = r THEN table[i].cnt ELSE 0
      BY <1>7, <2>9, <2>10
    <3>2. /\ w \in Seq(Nat) /\ Len(w) = Len(table')
          /\ \A i \in 1..Len(table') : w[i] = IF table'[i].rule = r THEN Due(table', e, f, i) ELSE 0
      BY <2>2, <2>12, DueIs
    <3> HIDE DEF v, w
    <3>3. /\ Len(w) = Len(new)
          /\ \A i \in 1..Len(new) : w[i] = IF new[i].rule = r THEN Plus(new[i], table) ELSE 0
      BY <2>2, <2>11, <3>2
    <3>4. Total(w) = IF HasRule(table, r) /\ HasRule(new, r) THEN Total(v) ELSE 0
      <4>1. table \in Seq(Entries) /\ new \in Seq(Copies) /\ v \in Seq(Nat) /\ w \in Seq(Nat)
        BY <1>2, <2>2, <3>1, <3>2
      <4>2. /\ Len(v) = Len(table) /\ Len(w) = Len(new)
            /\ \A i \in 1..Len(table) : v[i] = IF table[i].rule = r THEN table[i].cnt ELSE 0
            /\ \A i \in 1..Len(new) : w[i] = IF new[i].rule = r THEN Plus(new[i], table) ELSE 0
        BY <3>1, <3>3
      <4>3. QED
        BY <2>4, <4>1, <4>2, CarriedTotals, Zenon
    <3>5. QED
      BY <2>6, <3>1, <3>4 DEF w
  <2>14. ASSUME NEW k \in 1..Len(new), new[k].rule = Policy
         PROVE  Due(table', e, f, k) <= hits'[Policy]
    <3>1. hits'[Policy] \in Nat /\ hits[Policy] \in Nat
      BY <1>2, <2>6
    <3>2. CASE Plus(new[k], table) = 0
      BY <2>11, <3>1, <3>2
    <3>3. ASSUME NEW i \in 1..Len(table), table[i].rule = Policy,
                 Plus(new[k], table) <= table[i].cnt
          PROVE  Due(table', e, f, k) <= hits'[Policy]
      <4>1. HasRule(table, Policy) /\ HasRule(new, Policy)
        BY <2>14, <3>3 DEF HasRule
      <4>2. hits'[Policy] = hits[Policy]
        BY <2>6, <4>1
      <4>3. table[i].cnt <= hits[Policy] /\ table[i].cnt \in Nat
        BY <1>7, <2>9, <2>10, <3>3
      <4>4. QED
        BY <2>11, <3>1, <3>3, <4>2, <4>3
    <3>4. QED
      BY <1>2, <2>2, <2>4, <2>14, <3>2, <3>3, CarriedPolicy
  <2>15. QED
    BY <2>13, <2>14
<1>19. QED
  <2>1. CASE NotDone
    BY <1>3, <1>15, <2>1 DEF NotDone
  <2>2. CASE Done
    BY <1>3, <1>16, <2>2 DEF Done
  <2>3. CASE OtherDone
    BY <1>3, <1>15, <1>16, <2>3 DEF OtherDone
  <2>4. QED
    BY <1>1, <1>10, <1>11, <1>12, <1>13, <1>14, <1>17, <1>18, <2>1, <2>2, <2>3 DEF Next

LEMMA InvInit == Bounds /\ Init => IInv
<1> SUFFICES ASSUME Bounds, Init PROVE IInv
  OBVIOUS
<1> DEFINE first == Entry("OUTPUT", Policy)
           last  == Entry("", <<"error">>)
<1>1. /\ table = <<first, last>> /\ session = [p \in Procs |-> Idle]
      /\ script = [kind |-> "remove", uid |-> 0, step |-> "end", k |-> 0, status |-> "ok"]
      /\ foreign = None /\ hits = [r \in Rules \cup {Policy} |-> 0]
      /\ collided = FALSE /\ blind = FALSE
      /\ budget = [scripts |-> 0, failures |-> 0, edits |-> 0, packets |-> 0]
  BY DEF Init
<1>2. /\ first \in Entries /\ first.chain = "OUTPUT" /\ first.rule = Policy /\ first.cnt = 0
      /\ last \in Entries /\ last.chain = "" /\ last.rule = <<"error">> /\ last.cnt = 0
  BY RuleKinds DEF Entry, Entries, Chains
<1> HIDE DEF first, last
<1>3. /\ table \in Seq(Entries) /\ Len(table) = 2 /\ table[1] = first /\ table[2] = last
  <2>1. first \in Entries /\ last \in Entries
    BY <1>2
  <2>2. <<first, last>> \in Seq(Entries)
    BY <2>1
  <2>3. QED
    BY <1>1, <2>2
<1>4. Shaped(table, 1, 1)
  <2>1. 1 - 1 = 0 /\ 1 + 1 = 2 /\ 1..0 = {} /\ 1 \in Nat /\ 1 <= 1
    OBVIOUS
  <2>2. QED
    BY <1>2, <1>3, <2>1 DEF Shaped
<1>5. \A p \in Procs : session[p] = Idle
  BY <1>1
<1>6. \A r \in Other \cup {Jump} : ~HasRule(table, r)
  <2>1. /\ \A i \in 1..Len(table) : i = 1 \/ i = 2
        /\ \A r \in Other \cup {Jump} : r # Policy /\ r # <<"error">>
    BY <1>3, KindsDiffer DEF Marks
  <2>2. QED
    BY <1>2, <1>3, <2>1 DEF HasRule
<1>7. TableOK(table, foreign)
  <2>1. \A r \in Other : r # foreign
    BY <1>1, KindsDiffer
  <2>2. Formed(table) /\ OneOwner(table)
    BY <1>4, BareOwned DEF Formed, Bare
  <2>3. Once(table, Other)
    BY <1>6 DEF Once, HasRule
  <2>4. QED
    BY <1>6, <2>1, <2>2, <2>3 DEF TableOK
<1>8. Promised(script, blind, table, Waits(session["recorder"]))
  <2>1. Bare(table) /\ Once(table, {Jump})
    BY <1>4, <1>6 DEF Bare, Once, HasRule
  <2>2. script.step = "end" /\ script.kind = "remove"
    BY <1>1
  <2>3. QED
    BY <2>1, <2>2 DEF Promised
<1>9. Safe
  BY <1>5, <1>7, <1>8, IdleIs DEF Safe
<1>10. Counting(table, session["recorder"], session["other"], hits)
  <2> DEFINE e == session["recorder"]
             f == session["other"]
  <2>1. e = Idle /\ f = Idle /\ Idle \in Sessions
    BY <1>5, ProcsAre, IdleIs DEF SessionType
  <2>2. ~Waits(e) /\ ~Waits(f)
    BY <2>1, IdleIs
  <2>3. \A i \in 1..Len(table) : table[i].cnt = 0
    <3>1. \A i \in 1..Len(table) : i = 1 \/ i = 2
      BY <1>3
    <3>2. QED
      BY <1>2, <1>3, <3>1
  <2> HIDE DEF e, f
  <2>4. \A i \in 1..Len(table) : Due(table, e, f, i) = 0
    BY <2>2, <2>3 DEF Due, Coming
  <2>5. ASSUME NEW r \in Rules PROVE Total(DueFor(r, table, e, f)) = hits[r]
    <3>1. /\ DueFor(r, table, e, f) \in Seq(Nat) /\ Len(DueFor(r, table, e, f)) = Len(table)
          /\ \A i \in 1..Len(table) :
               DueFor(r, table, e, f)[i] = IF table[i].rule = r THEN Due(table, e, f, i) ELSE 0
      <4>1. e \in Sessions /\ f \in Sessions
        BY <2>1
      <4>2. table \in Seq(Entries) /\ (Waits(e) => Len(e.plus) = Len(table))
            /\ (Waits(f) => Len(f.plus) = Len(table))
        BY <1>3, <2>2
      <4>3. \A x : /\ DueFor(x, table, e, f) \in Seq(Nat)
                   /\ Len(DueFor(x, table, e, f)) = Len(table)
                   /\ \A i \in 1..Len(table) : DueFor(x, table, e, f)[i]
                        = IF table[i].rule = x THEN Due(table, e, f, i) ELSE 0
        BY <4>1, <4>2, DueIs
      <4>4. QED
        BY <4>3
    <3>2. \A i \in 1..Len(table) : DueFor(r, table, e, f)[i] = 0
      BY <2>4, <3>1
    <3>3. QED
      BY <1>1, <3>1, <3>2, TotalOfNothing
  <2>6. hits[Policy] = 0
    BY <1>1
  <2>7. QED
    BY <2>4, <2>5, <2>6 DEF Counting, e, f
<1>11. Types
  <2>1. session \in [Procs -> Sessions] /\ \A p \in Procs : SessionType(session[p])
    BY <1>1, <1>5, IdleIs DEF SessionType
  <2>2. session["recorder"] = Idle
    BY <1>5, ProcsAre
  <2>3. script \in ScriptStates /\ ScriptOK(script)
    BY <1>1 DEF ScriptStates, ScriptOK
  <2>4. /\ budget \in [scripts : Nat, failures : Nat, edits : Nat, packets : 0..MaxPackets]
        /\ \A r \in Rules \cup {Policy} : hits[r] <= budget.packets
        /\ hits \in [Rules \cup {Policy} -> Nat]
    <3>1. budget.packets = 0 /\ 0 \in 0..MaxPackets
      BY <1>1 DEF Bounds
    <3>2. budget \in [scripts : Nat, failures : Nat, edits : Nat, packets : 0..MaxPackets]
      BY <1>1, <3>1
    <3>3. hits \in [Rules \cup {Policy} -> Nat] /\ \A r \in Rules \cup {Policy} : hits[r] = 0
      BY <1>1
    <3>4. QED
      BY <3>1, <3>2, <3>3
  <2>5. QED
    BY <1>1, <1>3, <2>1, <2>2, <2>3, <2>4 DEF Types
<1>12. QED
  BY <1>9, <1>10, <1>11 DEF IInv

LEMMA InvStep == Bounds /\ IInv /\ [Step]_vars => IInv'
<1>1. ASSUME Bounds, IInv, Step PROVE IInv'
  BY <1>1, TypesStep, SafeStep, CountingStep DEF IInv
<1>2. ASSUME IInv, UNCHANGED vars PROVE IInv'
  BY <1>2 DEF IInv, Types, Safe, vars
<1>3. QED
  BY <1>1, <1>2

-----------------------------------------------------------------------------
(* What follows from the invariant.                                        *)

\* A set of which no two are different has at most one.
LEMMA AtMostOne ==
  ASSUME NEW S, \A x, y \in S : x = y
  PROVE  IsFiniteSet(S) /\ Cardinality(S) \in Nat /\ Cardinality(S) <= 1
<1>1. CASE S = {}
  BY <1>1, FS_EmptySet
<1>2. CASE S # {}
  <2>1. PICK x : S = {x}
    BY <1>2
  <2>2. QED
    BY <2>1, FS_Singleton
<1>3. QED
  BY <1>1, <1>2

LEMMA NetrecIs ==
  ASSUME table \in Seq(Entries), NEW p, NEW q, Shaped(table, p, q)
  PROVE  IF q = p THEN Netrec = <<>>
         ELSE Netrec = [i \in 1..(q - p - 2) |-> table[p + 1 + i].rule]
<1>1. DOMAIN table = 1..Len(table)
  BY LenProperties
<1>2. /\ HasChain(table, "netrec") <=> q # p
      /\ q # p => HeadOf(table, "netrec") = p + 1 /\ FootOf(table, "netrec") = q
  BY <1>1, PlacesFound
<1>3. CASE q = p
  BY <1>2, <1>3 DEF Netrec
<1>4. CASE q # p
  <2>1. q - (p + 1) - 1 = q - p - 2
    BY ShapeBounds
  <2>2. Netrec = [i \in 1..(q - (p + 1) - 1) |-> table[p + 1 + i].rule]
    BY <1>2, <1>4 DEF Netrec
  <2>3. QED
    BY <1>4, <2>1, <2>2
<1>5. QED
  BY <1>3, <1>4

LEMMA InvScripts == Bounds /\ IInv => ScriptsWork
<1> SUFFICES ASSUME Bounds, IInv PROVE ScriptsWork
  OBVIOUS
<1>1. /\ table \in Seq(Entries) /\ script \in ScriptStates /\ ScriptOK(script)
      /\ ~collided => Safe
      /\ DOMAIN table = 1..Len(table) /\ Len(table) \in Nat
  <2>1. /\ table \in Seq(Entries) /\ script \in ScriptStates /\ ScriptOK(script)
        /\ ~collided => Safe
    BY DEF IInv, Types
  <2>2. QED
    BY <2>1, LenProperties
<1>2. ScriptKeepsPromise
  <2> SUFFICES ASSUME script.status = "ok", ~collided
               PROVE  IF script.kind = "apply"
                      THEN /\ Netrec = [k \in DOMAIN Ports[script.uid] |->
                                          <<"redirect", script.uid, Ports[script.uid][k]>>]
                           /\ Times(Jump) > 0
                      ELSE Netrec = <<>>
    BY DEF ScriptKeepsPromise
  <2>1. Promised(script, blind, table, Waits(session["recorder"]))
    BY <1>1 DEF Safe
  <2>2. CASE script.kind = "apply"
    <3> DEFINE u == script.uid
               n == Len(Ports[u])
    <3>1. HasRule(table, Jump) /\ Bodied(table, u, n)
      BY <2>1, <2>2 DEF Promised
    <3>2. Ports[u] \in Seq(Nat) /\ DOMAIN Ports[u] = 1..n /\ n \in Nat
      <4>1. Ports[u] \in Seq(Nat)
        BY <1>1, <2>2 DEF Bounds, ScriptOK
      <4>2. QED
        BY <4>1, LenProperties
    <3> HIDE DEF u, n
    <3>3. PICK p : /\ Shaped(table, p, p + 2 + n)
                   /\ \A i \in 1..n : table[p + 1 + i].rule = <<"redirect", u, Ports[u][i]>>
      BY <3>1 DEF Bodied
    <3>4. p \in Nat /\ p + 2 + n # p /\ (p + 2 + n) - p - 2 = n
      <4>1. p \in Nat
        BY <3>3, ShapeBounds
      <4>2. QED
        BY <3>2, <4>1
    <3>5. Netrec = [i \in 1..n |-> table[p + 1 + i].rule]
      <4>1. Netrec = [i \in 1..((p + 2 + n) - p - 2) |-> table[p + 1 + i].rule]
        BY <1>1, <3>3, <3>4, NetrecIs
      <4>2. QED
        BY <3>4, <4>1
    <3>6. Netrec = [k \in DOMAIN Ports[u] |-> <<"redirect", u, Ports[u][k]>>]
      BY <3>2, <3>3, <3>5
    <3>7. Times(Jump) > 0
      <4> DEFINE S == {i \in DOMAIN table : table[i].rule = Jump}
      <4>1. IsFiniteSet(S) /\ S # {}
        <5>1. S \subseteq 1..Len(table) /\ IsFiniteSet(1..Len(table))
          BY <1>1, FS_Interval
        <5>2. S # {}
          BY <1>1, <3>1 DEF HasRule
        <5>3. QED
          BY <5>1, <5>2, FS_Subset
      <4> HIDE DEF S
      <4>2. Cardinality(S) \in Nat /\ Cardinality(S) # 0
        BY <4>1, FS_EmptySet, FS_CardinalityType
      <4>3. QED
        BY <4>2 DEF Times, S
    <3>8. QED
      BY <2>2, <3>6, <3>7 DEF u
  <2>3. CASE script.kind # "apply"
    <3>1. PICK p, q : Shaped(table, p, q) /\ q \in {p, p + 2}
      BY <2>1, <2>3 DEF Promised, Bare
    <3>2. IF q = p THEN Netrec = <<>>
          ELSE Netrec = [i \in 1..(q - p - 2) |-> table[p + 1 + i].rule]
      BY <1>1, <3>1, NetrecIs
    <3>3. CASE q # p
      <4>1. 1..(q - p - 2) = {}
        BY <3>1, <3>3, ShapeBounds
      <4>2. Netrec = [i \in {} |-> table[p + 1 + i].rule]
        BY <3>2, <3>3, <4>1
      <4>3. QED
        BY <2>3, <4>2
    <3>4. QED
      BY <2>3, <3>2, <3>3
  <2>4. QED
    BY <2>2, <2>3
<1>3. OneUid
  <2> SUFFICES ASSUME ~collided
               PROVE  Cardinality({r[2] : r \in RuleSet(table) \cap Redirect}) <= 1
    BY DEF OneUid
  <2>1. PICK u : \A i \in 1..Len(table) : table[i].rule \in Redirect => table[i].rule[2] = u
    BY <1>1 DEF Safe, TableOK, OneOwner
  <2>2. \A r \in RuleSet(table) \cap Redirect : r[2] = u
    BY <1>1, <2>1 DEF RuleSet
  <2> DEFINE S == {r[2] : r \in RuleSet(table) \cap Redirect}
  <2>3. \A x, y \in S : x = y
    BY <2>2
  <2> HIDE DEF S
  <2>4. Cardinality(S) <= 1
    BY <2>3, AtMostOne
  <2>5. QED
    BY <2>4 DEF S
<1>4. LinkedOnce
  <2> SUFFICES ASSUME ~collided, ~blind PROVE Times(Jump) <= 1
    BY DEF LinkedOnce
  <2>1. Once(table, {Jump})
    BY <1>1 DEF Safe, Promised
  <2> DEFINE S == {i \in DOMAIN table : table[i].rule = Jump}
  <2>2. \A x, y \in S : x = y
    BY <1>1, <2>1 DEF Once
  <2> HIDE DEF S
  <2>3. Cardinality(S) <= 1
    BY <2>2, AtMostOne
  <2>4. QED
    BY <2>3 DEF S, Times
<1>5. QED
  BY <1>2, <1>3, <1>4 DEF ScriptsWork

LEMMA InvCommits == IInv => CommitsMerge
<1> SUFFICES ASSUME IInv PROVE CommitsMerge
  OBVIOUS
<1>1. /\ table \in Seq(Entries) /\ session \in [Procs -> Sessions] /\ foreign \in Other \cup {None}
      /\ ~collided => Safe /\ Counting(table, session["recorder"], session["other"], hits)
  BY DEF IInv, Types
<1>2. Len(table) \in Nat /\ DOMAIN table = 1..Len(table)
      /\ \A i \in 1..Len(table) : table[i] \in Entries
  BY <1>1, LenProperties, ElementOfSeq
<1>3. CountersKept
  <2> SUFFICES ASSUME \A p \in Procs : session[p].at # "adding", ~collided
               PROVE  /\ \A r \in Rules : Counted(r) = hits[r]
                      /\ \A i \in DOMAIN table : table[i].rule = Policy => table[i].cnt <= hits[Policy]
    BY DEF CountersKept
  <2> DEFINE e == session["recorder"]
             f == session["other"]
  <2>1. ~Waits(e) /\ ~Waits(f)
    BY ProcsAre DEF Waits
  <2>2. Counting(table, e, f, hits)
    BY <1>1
  <2> HIDE DEF e, f
  <2>3. /\ \A r \in Rules : Total(DueFor(r, table, e, f)) = hits[r]
        /\ \A i \in 1..Len(table) : table[i].rule = Policy => Due(table, e, f, i) <= hits[Policy]
    BY <2>1, <2>2 DEF Counting
  <2>4. \A i \in 1..Len(table) : Due(table, e, f, i) = table[i].cnt
    <3>1. \A i : Coming(e, i) = 0 /\ Coming(f, i) = 0
      BY <2>1 DEF Coming
    <3>2. \A i \in 1..Len(table) : table[i].cnt \in Nat
      BY <1>2 DEF Entries
    <3>3. QED
      BY <3>1, <3>2 DEF Due
  <2>5. ASSUME NEW r PROVE Counted(r) = Total(DueFor(r, table, e, f))
    <3>1. Counts(r) = DueFor(r, table, e, f)
      BY <2>4 DEF Counts, DueFor
    <3>2. Len(Counts(r)) = Len(table)
      BY <1>2 DEF Counts
    <3>3. Counted(r) = Sums(Counts(r))[Len(Counts(r))]
      BY <3>2 DEF Counted
    <3>4. QED
      BY <3>1, <3>3 DEF Total
  <2>6. QED
    BY <1>2, <2>3, <2>4, <2>5
<1>4. OthersKept
  <2> SUFFICES ASSUME ~collided PROVE RuleSet(table) \cap Other = {foreign} \ {None}
    BY DEF OthersKept
  <2>1. \A r \in Other : HasRule(table, r) <=> r = foreign
    BY <1>1 DEF Safe, TableOK
  <2>2. \A r : r \in RuleSet(table) <=> HasRule(table, r)
    BY <1>1, RuleSetIs
  <2>3. None \notin Other
    BY KindsDiffer
  <2>4. QED
    BY <1>1, <2>1, <2>2, <2>3
<1>5. QED
  BY <1>3, <1>4 DEF CommitsMerge

LEMMA InvTypes == Bounds /\ IInv => TypeOK
<1> SUFFICES ASSUME Bounds, IInv PROVE TypeOK
  OBVIOUS
<1>1. Types
  BY DEF IInv
<1>2. \A i \in DOMAIN table : table[i].rule \in Rules \cup Marks /\ table[i].cnt \in Nat
  <2>1. /\ DOMAIN table = 1..Len(table)
        /\ \A i \in 1..Len(table) : table[i] \in Entries
    BY <1>1, LenProperties, ElementOfSeq DEF Types
  <2>2. QED
    BY <2>1 DEF Entries
<1>3. \A p \in Procs : session[p].at \in {"idle", "cached", "adding"} /\ session[p].plus \in Seq(Nat)
  BY <1>1 DEF Types, Sessions
<1>4. hits \in [Rules \cup {Policy} -> 0..MaxPackets]
  <2> DEFINE R == Rules \cup {Policy}
  <2>1. /\ hits \in [R -> Nat] /\ budget.packets \in 0..MaxPackets /\ MaxPackets \in Nat
        /\ \A r \in R : hits[r] <= budget.packets
    BY <1>1 DEF Types, Bounds
  <2> HIDE DEF R
  <2>2. \A r \in R : hits[r] \in 0..MaxPackets
    BY <2>1
  <2>3. hits \in [R -> 0..MaxPackets]
    BY <2>1, <2>2
  <2>4. QED
    BY <2>3 DEF R
<1>5. script.status \in {"running", "ok", "failed"} /\ foreign \in Other \cup {None}
      /\ collided \in BOOLEAN /\ blind \in BOOLEAN
  BY <1>1 DEF Types, ScriptStates
<1>6. QED
  BY <1>2, <1>3, <1>4, <1>5 DEF TypeOK
=============================================================================
