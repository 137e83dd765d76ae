---------------------------- MODULE HelloProofs -----------------------------
(***************************************************************************)
(* The server and its clients, for every number of clients, every size of  *)
(* the pipes and streams, and every order of their steps: the types, the   *)
(* lines a client sees, and its count.                                     *)
(***************************************************************************)
EXTENDS Hello, SequenceTheorems, WellFoundedInduction, TLAPS

\* Every set of numbers but {} has a least one.
LEMMA Least ==
  ASSUME NEW T \in SUBSET Nat, T # {}
  PROVE  \E x \in T : \A y \in T : ~(y < x)
<1> DEFINE R == OpToRel(<, Nat)
<1>1. IsWellFoundedOn(R, Nat)
  BY NatLessThanWellFounded
<1>2. \A x, y \in Nat : <<y, x>> \in R <=> y < x
  BY DEF OpToRel
<1> HIDE DEF R
<1>3. \E x \in T : \A y \in T : ~(<<y, x>> \in R)
  BY <1>1, WFMin
<1> QED BY <1>2, <1>3

\* What holds of 0, and of n + 1 if of n, holds of all numbers: S is where it holds.
LEMMA Induction ==
  ASSUME NEW S, 0 \in S, \A n \in Nat : n \in S => n + 1 \in S
  PROVE  Nat \subseteq S
<1> DEFINE T == Nat \ S
<1>1. SUFFICES ASSUME T # {} PROVE FALSE
  OBVIOUS
<1>2. PICK x \in T : \A y \in T : ~(y < x)
  BY <1>1, Least
<1>3. x # 0 /\ x - 1 \in Nat /\ x - 1 < x /\ (x - 1) + 1 = x
  BY <1>2
<1> QED BY <1>2, <1>3

\* f starts with v, and G[i] gives its value at i from the one before.
Follows(f, n, v, G) == f = [i \in 0..n |-> IF i = 0 THEN v ELSE G[i][f[i - 1]]]

\* There is such a function.
LEMMA Recursion ==
  ASSUME NEW n \in Nat, NEW V, NEW v \in V, NEW G \in [1..n -> [V -> V]]
  PROVE  \E f \in [0..n -> V] : Follows(f, n, v, G)
<1> DEFINE Upto(f, m) == /\ f \in [0..m -> V] /\ f[0] = v
                         /\ \A i \in 1..m : f[i] = G[i][f[i - 1]]
           S == {m \in Nat : m <= n => \E f : Upto(f, m)}
<1>1. 0 \in S
  <2>1. Upto([i \in 0..0 |-> v], 0)
    OBVIOUS
  <2> QED BY <2>1
<1>2. ASSUME NEW m \in Nat, m \in S PROVE m + 1 \in S
  <2> SUFFICES ASSUME m + 1 <= n PROVE \E f : Upto(f, m + 1)
    OBVIOUS
  <2>1. PICK f : Upto(f, m)
    BY <1>2
  <2> DEFINE g == [i \in 0..(m + 1) |-> IF i = m + 1 THEN G[m + 1][f[m]] ELSE f[i]]
  <2>2. f[m] \in V /\ m + 1 \in 1..n
    BY <2>1
  <2>3. G[m + 1][f[m]] \in V
    BY <2>2
  <2>4. \A i \in 0..(m + 1) : i # m + 1 => i \in 0..m
    OBVIOUS
  <2>5. g \in [0..(m + 1) -> V] /\ g[0] = v
    BY <2>1, <2>3, <2>4
  <2>6. ASSUME NEW i \in 1..(m + 1) PROVE g[i] = G[i][g[i - 1]]
    <3>1. i - 1 \in 0..m /\ i - 1 # m + 1 /\ i - 1 \in 0..(m + 1) /\ i \in 0..(m + 1)
      OBVIOUS
    <3>2. g[i - 1] = f[i - 1]
      BY <3>1
    <3>3. CASE i = m + 1
      BY <3>1, <3>2, <3>3
    <3>4. CASE i # m + 1
      <4>1. i \in 1..m
        BY <3>4
      <4> QED BY <2>1, <3>1, <3>2, <3>4, <4>1
    <3> QED BY <3>3, <3>4
  <2> QED BY <2>5, <2>6
<1>3. n \in S
  <2> HIDE DEF S
  <2> QED BY <1>1, <1>2, Induction
<1>4. PICK f : Upto(f, n)
  BY <1>3
<1>5. \A i \in 0..n : f[i] = IF i = 0 THEN v ELSE G[i][f[i - 1]]
  <2>1. \A i \in 0..n : i # 0 => i \in 1..n
    OBVIOUS
  <2> QED BY <1>4, <2>1
<1>6. f = [i \in 0..n |-> f[i]]
  BY <1>4
<1> HIDE DEF Upto
<1>7. f \in [0..n -> V]
  BY <1>4 DEF Upto
<1> QED BY <1>5, <1>6, <1>7 DEF Follows

-----------------------------------------------------------------------------
(***************************************************************************)
(* Queues: what is left of one when some of its elements are taken out.    *)
(***************************************************************************)
\* Every element of queue t is one of queue s, no two the same one.
Part(t, s) ==
  \E h \in [1..Len(t) -> 1..Len(s)] :
    /\ \A k \in 1..Len(t) : t[k] = s[h[k]]
    /\ \A j, k \in 1..Len(t) : h[j] = h[k] => j = k

\* The queue without its first element.
LEMMA TailIsPart ==
  ASSUME NEW R, NEW s \in Seq(R), s # << >>
  PROVE  Tail(s) \in Seq(R) /\ Part(Tail(s), s)
<1>1. /\ Tail(s) \in Seq(R) /\ Len(Tail(s)) = Len(s) - 1
      /\ \A k \in 1..Len(Tail(s)) : Tail(s)[k] = s[k + 1]
  OBVIOUS
<1>2. PICK t : t = Tail(s)
  OBVIOUS
<1> DEFINE h == [k \in 1..Len(t) |-> k + 1]
<1>3. h \in [1..Len(t) -> 1..Len(s)]
  BY <1>1, <1>2
<1>4. /\ \A k \in 1..Len(t) : t[k] = s[h[k]]
      /\ \A j, k \in 1..Len(t) : h[j] = h[k] => j = k
  BY <1>1, <1>2
<1> HIDE DEF h
<1>5. Part(t, s)
  BY <1>3, <1>4 DEF Part
<1> QED BY <1>1, <1>2, <1>5

\* The queue emptied.
LEMMA EmptyIsPart ==
  ASSUME NEW s
  PROVE  Part(<< >>, s)
<1>1. PICK t : t = << >> /\ 1..Len(t) = {}
  OBVIOUS
<1>2. [k \in 1..Len(t) |-> k] \in [1..Len(t) -> 1..Len(s)]
  BY <1>1
<1>3. Part(t, s)
  BY <1>1, <1>2 DEF Part
<1> QED BY <1>1, <1>3

\* q has only elements that are in S, of the first m of s.
KeptUpTo(q, s, R, S, m) ==
  /\ q \in Seq(R) /\ \A k \in 1..Len(q) : q[k] \in S
  /\ \E h \in [1..Len(q) -> 1..m] :
       /\ \A k \in 1..Len(q) : q[k] = s[h[k]]
       /\ \A j, k \in 1..Len(q) : h[j] = h[k] => j = k

\* Kept gives a part of the queue that is in S.
LEMMA KeptIsPart ==
  ASSUME NEW R, NEW s \in Seq(R), NEW S
  PROVE  /\ Kept(s, S) \in Seq(R) /\ Part(Kept(s, S), s)
         /\ \A k \in 1..Len(Kept(s, S)) : Kept(s, S)[k] \in S
<1>0. PICK n \in Nat : n = Len(s)
  OBVIOUS
<1> DEFINE F(f) == [i \in 0..n |->
                      IF i = 0 THEN << >>
                      ELSE IF s[i] \in S THEN Append(f[i - 1], s[i]) ELSE f[i - 1]]
           kept == CHOOSE f : f = F(f)
           G == [i \in 1..n |->
                   [q \in Seq(R) |-> IF s[i] \in S THEN Append(q, s[i]) ELSE q]]
<1>1. G \in [1..n -> [Seq(R) -> Seq(R)]] /\ << >> \in Seq(R)
  <2>1. \A i \in 1..n : s[i] \in R
    BY <1>0
  <2>2. \A i \in 1..n : \A q \in Seq(R) : Append(q, s[i]) \in Seq(R)
    BY <2>1
  <2> QED BY <2>2
<1>2. PICK f \in [0..n -> Seq(R)] : Follows(f, n, << >>, G)
  <2>1. PICK g \in [1..n -> [Seq(R) -> Seq(R)]], v \in Seq(R) : g = G /\ v = << >>
    BY <1>1, Zenon
  <2>2. \E f \in [0..n -> Seq(R)] : Follows(f, n, v, g)
    BY <1>0, Recursion, Zenon
  <2> HIDE DEF G
  <2> QED BY <2>1, <2>2
<1>3. f = F(f)
  <2>1. ASSUME NEW i \in 0..n, i # 0
        PROVE  G[i][f[i - 1]] = IF s[i] \in S THEN Append(f[i - 1], s[i]) ELSE f[i - 1]
    <3>1. i \in 1..n /\ i - 1 \in 0..n
      BY <2>1
    <3>2. f[i - 1] \in Seq(R)
      BY <1>2, <3>1
    <3> QED BY <3>1, <3>2
  <2> HIDE DEF G
  <2> QED BY <1>2, <2>1 DEF Follows
<1>4. kept = F(kept)
  <2> HIDE DEF F
  <2> QED BY <1>3, Zenon
<1>5. Kept(s, S) = kept[n]
  BY <1>0, Zenon DEF Kept
<1> HIDE DEF kept
<1>6. \A i \in 0..n : kept[i] = IF i = 0 THEN << >>
                                ELSE IF s[i] \in S THEN Append(kept[i - 1], s[i])
                                ELSE kept[i - 1]
  BY <1>4
<1> HIDE DEF F
<1> DEFINE T == {m \in Nat : m <= n => KeptUpTo(kept[m], s, R, S, m)}
<1>7. 0 \in T
  <2>1. kept[0] = << >>
    <3>1. 0 \in 0..n
      OBVIOUS
    <3> QED BY <1>6, <3>1
  <2>2. PICK q \in Seq(R) : q = << >> /\ 1..Len(q) = {}
    <3>1. << >> \in Seq(R) /\ 1..Len(<< >>) = {}
      OBVIOUS
    <3> QED BY <3>1
  <2>3. [k \in 1..Len(q) |-> k] \in [1..Len(q) -> 1..0]
    BY <2>2
  <2>4. KeptUpTo(q, s, R, S, 0)
    BY <2>2, <2>3 DEF KeptUpTo
  <2> QED BY <2>1, <2>2, <2>4
<1>8. ASSUME NEW m \in Nat, m \in T PROVE m + 1 \in T
  <2> SUFFICES ASSUME m + 1 <= n PROVE KeptUpTo(kept[m + 1], s, R, S, m + 1)
    OBVIOUS
  <2>1. m + 1 \in 0..n /\ m + 1 # 0 /\ (m + 1) - 1 = m /\ m + 1 \in 1..n
    OBVIOUS
  <2>2. kept[m + 1] = IF s[m + 1] \in S THEN Append(kept[m], s[m + 1]) ELSE kept[m]
    BY <1>6, <2>1
  <2>3. PICK q : q = kept[m]
    OBVIOUS
  <2>4. KeptUpTo(q, s, R, S, m)
    BY <1>8, <2>1, <2>3
  <2>5. PICK h \in [1..Len(q) -> 1..m] :
          /\ \A k \in 1..Len(q) : q[k] = s[h[k]]
          /\ \A j, k \in 1..Len(q) : h[j] = h[k] => j = k
    BY <2>4 DEF KeptUpTo
  <2>6. CASE s[m + 1] \notin S
    <3>1. h \in [1..Len(q) -> 1..(m + 1)]
      OBVIOUS
    <3>2. KeptUpTo(q, s, R, S, m + 1)
      BY <2>4, <2>5, <3>1 DEF KeptUpTo
    <3> QED BY <2>2, <2>3, <2>6, <3>2
  <2>7. CASE s[m + 1] \in S
    <3>1. PICK l \in Nat : l = Len(q)
      BY <2>4 DEF KeptUpTo
    <3>2. PICK e \in R : e = s[m + 1]
      BY <1>0, <2>1
    <3>3. PICK r : r = Append(q, e)
      OBVIOUS
    <3>4. r \in Seq(R) /\ Len(r) = l + 1 /\ r[l + 1] = e /\ \A k \in 1..l : r[k] = q[k]
      BY <2>4, <3>1, <3>2, <3>3 DEF KeptUpTo
    <3> DEFINE g == [k \in 1..(l + 1) |-> IF k = l + 1 THEN m + 1 ELSE h[k]]
    <3>o. \A k \in 1..l : h[k] \in 1..m
      BY <2>5, <3>1
    <3>5. \A k \in 1..(l + 1) : k # l + 1 => k \in 1..l /\ h[k] \in 1..m
      BY <3>o
    <3>6. g \in [1..(l + 1) -> 1..(m + 1)]
      BY <3>5
    <3>7. \A k \in 1..(l + 1) : r[k] = s[g[k]] /\ r[k] \in S
      BY <2>4, <2>5, <2>7, <3>1, <3>2, <3>4, <3>5 DEF KeptUpTo
    <3>8. \A j, k \in 1..(l + 1) : g[j] = g[k] => j = k
      BY <2>5, <3>1, <3>5
    <3>9. KeptUpTo(r, s, R, S, m + 1)
      <4> HIDE DEF g
      <4>1. 1..Len(r) = 1..(l + 1)
        BY <3>4
      <4>2. g \in [1..Len(r) -> 1..(m + 1)]
        BY <3>6, <4>1
      <4>3. \A k \in 1..Len(r) : r[k] = s[g[k]] /\ r[k] \in S
        BY <3>7, <4>1
      <4>4. \A j, k \in 1..Len(r) : g[j] = g[k] => j = k
        BY <3>8, <4>1
      <4> QED BY <3>4, <4>2, <4>3, <4>4, Zenon DEF KeptUpTo
    <3> QED BY <2>2, <2>3, <2>7, <3>2, <3>3, <3>9
  <2> QED BY <2>6, <2>7
<1>9. KeptUpTo(kept[n], s, R, S, n)
  <2>1. Nat \subseteq T
    <3> HIDE DEF T
    <3> QED BY <1>7, <1>8, Induction
  <2> QED BY <2>1
<1> QED BY <1>0, <1>5, <1>9 DEF Part, KeptUpTo

-----------------------------------------------------------------------------
(***************************************************************************)
(* The string of a count.                                                  *)
(***************************************************************************)
\* What Printed computes of the numbers up to i.
IsDigits(d, i) ==
  /\ d \in [0..i -> Nat]
  /\ \A n \in 0..i : d[n] = IF n < 10 THEN 1 ELSE 1 + d[n \div 10]

\* Every number has its digits.
LEMMA DigitsExist ==
  ASSUME NEW i \in Nat
  PROVE  \E d : IsDigits(d, i)
<1> DEFINE S == {m \in Nat : \E d : IsDigits(d, m)}
<1>1. 0 \in S
  <2>1. IsDigits([n \in 0..0 |-> 1], 0)
    BY DEF IsDigits
  <2> QED BY <2>1
<1>2. ASSUME NEW m \in Nat, m \in S PROVE m + 1 \in S
  <2>1. PICK d : IsDigits(d, m)
    BY <1>2
  <2> DEFINE e == [n \in 0..(m + 1) |->
                     IF n < 10 THEN 1 ELSE IF n = m + 1 THEN 1 + d[n \div 10] ELSE d[n]]
  <2>2. \A n \in 0..(m + 1) : ~(n < 10) => n \div 10 \in 0..m
    OBVIOUS
  <2>3. \A n \in 0..m : d[n] \in Nat /\ d[n] = IF n < 10 THEN 1 ELSE 1 + d[n \div 10]
    BY <2>1 DEF IsDigits
  <2>4. \A n \in 0..(m + 1) : n # m + 1 => n \in 0..m
    OBVIOUS
  <2>5. \A n \in 0..(m + 1) : e[n] = IF n < 10 THEN 1 ELSE 1 + d[n \div 10]
    BY <2>3, <2>4
  <2>6. e \in [0..(m + 1) -> Nat]
    <3>1. \A n \in 0..(m + 1) : e[n] \in Nat
      <4> HIDE DEF e
      <4> QED BY <2>2, <2>3, <2>5
    <3> QED BY <3>1
  <2>7. \A n \in 0..m : e[n] = d[n]
    <3>1. \A n \in 0..m : n \in 0..(m + 1)
      OBVIOUS
    <3> HIDE DEF e
    <3> QED BY <2>3, <2>5, <3>1
  <2>8. \A n \in 0..(m + 1) : e[n] = IF n < 10 THEN 1 ELSE 1 + e[n \div 10]
    <3> HIDE DEF e
    <3> QED BY <2>2, <2>5, <2>7
  <2>9. IsDigits(e, m + 1)
    <3> HIDE DEF e
    <3> QED BY <2>6, <2>8 DEF IsDigits
  <2> QED BY <2>9
<1>3. i \in S
  <2> HIDE DEF S
  <2> QED BY <1>1, <1>2, Induction
<1> QED BY <1>3

\* Numbers ten times as large have one digit more.
LEMMA DigitMore ==
  ASSUME NEW i \in Nat, NEW d, IsDigits(d, i), NEW b \in Nat, NEW k \in Nat, k >= 1,
         \A n \in 0..i : n < b => d[n] <= k
  PROVE  \A n \in 0..i : n < 10 * b => d[n] <= k + 1
<1> SUFFICES ASSUME NEW n \in 0..i, n < 10 * b PROVE d[n] <= k + 1
  OBVIOUS
<1>1. d[n] = IF n < 10 THEN 1 ELSE 1 + d[n \div 10]
  BY DEF IsDigits
<1>2. ~(n < 10) => n \div 10 \in 0..i /\ n \div 10 < b
  OBVIOUS
<1>3. ~(n < 10) => d[n \div 10] \in Nat /\ d[n \div 10] <= k
  BY <1>2 DEF IsDigits
<1> QED BY <1>1, <1>3

\* Printed is the number of digits, and a space.
LEMMA PrintedDigits ==
  ASSUME NEW i \in Nat
  PROVE  \E d : IsDigits(d, i) /\ Printed(i) = d[i] + 1 /\ d[i] >= 1
<1> DEFINE F(f) == [n \in 0..i |-> IF n < 10 THEN 1 ELSE 1 + f[n \div 10]]
           digits == CHOOSE f : f = F(f)
<1>1. PICK e : IsDigits(e, i)
  BY DigitsExist
<1>2. e = F(e)
  <2>1. e = [n \in 0..i |-> e[n]]
    BY <1>1 DEF IsDigits
  <2> QED BY <1>1, <2>1 DEF IsDigits
<1>3. digits = F(digits)
  <2> HIDE DEF F
  <2> QED BY <1>2, Zenon
<1>4. Printed(i) = digits[i] + 1
  BY Zenon DEF Printed
<1> HIDE DEF digits
<1>5. \A n \in 0..i : digits[n] = IF n < 10 THEN 1 ELSE 1 + digits[n \div 10]
  BY <1>3
<1> HIDE DEF F
<1> DEFINE S == {m \in Nat : \A n \in 0..i : n <= m => digits[n] \in Nat /\ digits[n] >= 1}
<1>6. 0 \in S
  BY <1>5
<1>7. ASSUME NEW m \in Nat, m \in S PROVE m + 1 \in S
  <2> SUFFICES ASSUME NEW n \in 0..i, n <= m + 1
               PROVE  digits[n] \in Nat /\ digits[n] >= 1
    OBVIOUS
  <2>1. ~(n < 10) => n \div 10 \in 0..i /\ n \div 10 <= m
    OBVIOUS
  <2>2. ~(n < 10) => digits[n \div 10] \in Nat
    BY <1>7, <2>1
  <2> QED BY <1>5, <2>2
<1>8. \A n \in 0..i : digits[n] \in Nat /\ digits[n] >= 1
  <2>1. i \in S
    <3> HIDE DEF S
    <3> QED BY <1>6, <1>7, Induction
  <2> QED BY <2>1
<1>9. IsDigits(digits, i)
  <2>1. digits = [n \in 0..i |-> digits[n]]
    BY <1>3 DEF F
  <2>2. digits \in [0..i -> Nat]
    BY <1>8, <2>1
  <2> QED BY <1>5, <2>2 DEF IsDigits
<1> QED BY <1>4, <1>8, <1>9

\* The numbers a count goes over have nine digits at most.
LEMMA PrintedIs ==
  ASSUME NEW i \in Nat, i < 1000 * 1000 * 1000
  PROVE  Printed(i) \in 2..10
<1>1. PICK d : IsDigits(d, i) /\ Printed(i) = d[i] + 1 /\ d[i] >= 1
  BY PrintedDigits
<1>2. d[i] \in Nat
  BY <1>1 DEF IsDigits
<1>3. d[i] <= 9
  <2> DEFINE Below(b, k) == \A n \in 0..i : n < b => d[n] <= k
  <2>1. Below(10, 1)
    BY <1>1 DEF IsDigits
  <2>2. ASSUME NEW b \in Nat, NEW k \in Nat, k >= 1, Below(b, k)
        PROVE  Below(10 * b, k + 1)
    BY <1>1, <2>2, DigitMore
  <2> HIDE DEF Below
  <2>3. Below(100, 2)
    BY <2>1, <2>2
  <2>4. Below(1000, 3)
    BY <2>2, <2>3
  <2>5. Below(10 * 1000, 4)
    BY <2>2, <2>4
  <2>6. Below(100 * 1000, 5)
    BY <2>2, <2>5
  <2>7. Below(1000 * 1000, 6)
    BY <2>2, <2>6
  <2>8. Below(10 * 1000 * 1000, 7)
    BY <2>2, <2>7
  <2>9. Below(100 * 1000 * 1000, 8)
    BY <2>2, <2>8
  <2>10. Below(1000 * 1000 * 1000, 9)
    BY <2>2, <2>9
  <2> QED BY <2>10 DEF Below
<1> QED BY <1>1, <1>2, <1>3

\* The characters printed for i.
Width(i) == Printed(i) + (IF NewLine(i) THEN 1 ELSE 0)

\* A number and its line break are two to eleven characters.
LEMMA WidthIs ==
  ASSUME NEW i \in Nat, i < 1000 * 1000 * 1000
  PROVE  Width(i) \in 2..11 /\ Printed(i) \in 2..10
BY PrintedIs DEF Width

\* A number below the modulus is its own remainder.
LEMMA NoWrap ==
  ASSUME NEW w \in Nat \ {0}, NEW x \in Nat
  PROVE  /\ x % w \in 0..(w - 1)
         /\ x < w => x % w = x
OBVIOUS

\* f counts the characters up to each number, as both passes do.
Positions(f, num) ==
  /\ f[0] = 0
  /\ \A i \in 1..num : f[i] \in 0..(11 * i) /\ f[i] = f[i - 1] + Width(i - 1)

\* A pass that adds the characters of each number, modulo Wrap, counts them all.
LEMMA PassCounts ==
  ASSUME NEW num \in Nat, num < 1000 * 1000 * 1000, 11 * num + 1 < Wrap,
         NEW f, f[0] = 0,
         \A i \in 1..num : f[i - 1] \in 0..(11 * (i - 1)) =>
           f[i] = (f[i - 1] + Width(i - 1)) % Wrap
  PROVE  Positions(f, num)
<1> DEFINE S == {m \in Nat : m <= num => f[m] \in 0..(11 * m)}
<1>0. ASSUME NEW m \in Nat, m + 1 <= num, f[m] \in 0..(11 * m)
      PROVE  f[m + 1] = f[m] + Width(m) /\ f[m + 1] \in 0..(11 * (m + 1))
  <2>1. Width(m) \in 2..11
    BY <1>0, WidthIs
  <2>2. m + 1 \in 1..num /\ (m + 1) - 1 = m
    BY <1>0
  <2>3. f[m + 1] = (f[m] + Width(m)) % Wrap
    BY <1>0, <2>2
  <2>4. PICK x \in Nat : x = f[m] + Width(m) /\ x <= 11 * (m + 1)
    BY <1>0, <2>1
  <2>5. x < Wrap
    BY <1>0, <2>4, WrapAssumption
  <2>6. x % Wrap = x
    BY <2>5, WrapAssumption, NoWrap
  <2> QED BY <2>3, <2>4, <2>6
<1>1. 0 \in S
  OBVIOUS
<1>2. ASSUME NEW m \in Nat, m \in S PROVE m + 1 \in S
  BY <1>0, <1>2
<1>3. \A m \in 0..num : f[m] \in 0..(11 * m)
  <2>1. Nat \subseteq S
    <3> HIDE DEF S
    <3> QED BY <1>1, <1>2, Induction
  <2> QED BY <2>1
<1>4. ASSUME NEW i \in 1..num
      PROVE  f[i] \in 0..(11 * i) /\ f[i] = f[i - 1] + Width(i - 1)
  <2>1. i - 1 \in Nat /\ (i - 1) + 1 = i /\ i - 1 \in 0..num
    OBVIOUS
  <2> QED BY <1>0, <1>3, <2>1
<1> QED BY <1>4 DEF Positions

\* Later positions are not before earlier ones.
LEMMA PositionsGrow ==
  ASSUME NEW num \in Nat, num < 1000 * 1000 * 1000, NEW f, Positions(f, num)
  PROVE  \A i \in 0..num : f[i] <= f[num]
<1> DEFINE S == {m \in Nat : m <= num => f[m] \in Nat /\ \A i \in 0..m : f[i] <= f[m]}
<1>1. 0 \in S
  BY DEF Positions
<1>2. ASSUME NEW m \in Nat, m \in S PROVE m + 1 \in S
  <2> SUFFICES ASSUME m + 1 <= num
               PROVE  f[m + 1] \in Nat /\ \A i \in 0..(m + 1) : f[i] <= f[m + 1]
    OBVIOUS
  <2>1. m + 1 \in 1..num /\ (m + 1) - 1 = m
    OBVIOUS
  <2>2. f[m + 1] \in Nat /\ f[m + 1] = f[m] + Width(m)
    BY <2>1 DEF Positions
  <2>3. f[m] \in Nat /\ \A i \in 0..m : f[i] <= f[m]
    BY <1>2
  <2>4. Width(m) \in 2..11
    BY WidthIs
  <2>5. \A i \in 0..m : f[i] \in Nat
    BY DEF Positions
  <2>6. f[m] <= f[m + 1]
    BY <2>2, <2>3, <2>4
  <2>7. ASSUME NEW i \in 0..(m + 1) PROVE f[i] <= f[m + 1]
    <3>1. CASE i = m + 1
      BY <2>2, <3>1
    <3>2. CASE i # m + 1
      <4>1. i \in 0..m
        BY <3>2
      <4> QED BY <2>2, <2>3, <2>5, <2>6, <4>1
    <3> QED BY <3>1, <3>2
  <2> QED BY <2>2, <2>7
<1>3. num \in S
  <2> HIDE DEF S
  <2> QED BY <1>1, <1>2, Induction
<1> QED BY <1>3

\* Two passes over the same numbers agree.
LEMMA PassesAgree ==
  ASSUME NEW num \in Nat, NEW f, Positions(f, num), NEW g, Positions(g, num)
  PROVE  \A i \in 0..num : f[i] = g[i]
<1> DEFINE S == {m \in Nat : m <= num => f[m] = g[m]}
<1>1. 0 \in S
  BY DEF Positions
<1>2. ASSUME NEW m \in Nat, m \in S PROVE m + 1 \in S
  <2> SUFFICES ASSUME m + 1 <= num PROVE f[m + 1] = g[m + 1]
    OBVIOUS
  <2>1. m + 1 \in 1..num /\ (m + 1) - 1 = m
    OBVIOUS
  <2>2. f[m + 1] = f[m] + Width(m) /\ g[m + 1] = g[m] + Width(m)
    BY <2>1 DEF Positions
  <2> QED BY <1>2, <2>2
<1>3. Nat \subseteq S
  <2> HIDE DEF S
  <2> QED BY <1>1, <1>2, Induction
<1> QED BY <1>3

\* What one pass does for one number stays below Wrap.
LEMMA StepIs ==
  ASSUME NEW i \in Nat, NEW v \in 0..(Wrap - 1)
  PROVE  /\ Printed(i) \in Nat
         /\ (v + Printed(i) + (IF NewLine(i) THEN 1 ELSE 0)) % Wrap \in 0..(Wrap - 1)
         /\ (v + Printed(i)) % Wrap \in 0..(Wrap - 1)
         /\ (v + 1) % Wrap \in 0..(Wrap - 1)
<1>1. Printed(i) \in Nat
  <2>1. PICK d : IsDigits(d, i) /\ Printed(i) = d[i] + 1
    BY PrintedDigits
  <2>2. d[i] \in Nat
    BY <2>1 DEF IsDigits
  <2> QED BY <2>1, <2>2
<1>2. PICK w \in Nat \ {0} : w = Wrap
  BY WrapAssumption
<1>3. PICK x \in Nat, y \in Nat, z \in Nat :
        /\ x = v + Printed(i) + (IF NewLine(i) THEN 1 ELSE 0)
        /\ y = v + Printed(i) /\ z = v + 1
  BY <1>1, <1>2
<1>4. x % w \in 0..(w - 1) /\ y % w \in 0..(w - 1) /\ z % w \in 0..(w - 1)
  BY NoWrap
<1> QED BY <1>1, <1>2, <1>3, <1>4

\* The first pass: what is allocated.
LEMMA SizeIs ==
  ASSUME NEW num \in Nat
  PROVE  \E f : /\ Size(num) = (f[num] + 1) % Wrap
                /\ f[0] = 0
                /\ \A i \in 1..num : f[i] = (f[i - 1] + Printed(i - 1)
                                              + (IF NewLine(i - 1) THEN 1 ELSE 0)) % Wrap
<1> DEFINE W(v, i) == (v + Printed(i - 1) + (IF NewLine(i - 1) THEN 1 ELSE 0)) % Wrap
           F(f) == [i \in 0..num |-> IF i = 0 THEN 0 ELSE W(f[i - 1], i)]
           size == CHOOSE f : f = F(f)
           V == 0..(Wrap - 1)
           G == [i \in 1..num |-> [v \in V |-> W(v, i)]]
<1>1. \E f : f = F(f)
  <2>1. \A i \in 1..num : \A v \in V : W(v, i) \in V
    <3> SUFFICES ASSUME NEW i \in 1..num, NEW v \in V PROVE W(v, i) \in V
      OBVIOUS
    <3>1. i - 1 \in Nat
      OBVIOUS
    <3> QED BY <3>1, StepIs
  <2>2. G \in [1..num -> [V -> V]] /\ 0 \in V
    <3>1. 0 \in V
      BY WrapAssumption
    <3> HIDE DEF V, W
    <3> QED BY <2>1, <3>1
  <2>3. PICK f \in [0..num -> V] : Follows(f, num, 0, G)
    <3> HIDE DEF G, V
    <3> QED BY <2>2, Recursion, Zenon
  <2>4. ASSUME NEW i \in 0..num, i # 0 PROVE G[i][f[i - 1]] = W(f[i - 1], i)
    <3>1. i \in 1..num /\ i - 1 \in 0..num
      BY <2>4
    <3>2. f[i - 1] \in V
      BY <2>3, <3>1
    <3> HIDE DEF V, W
    <3> QED BY <3>1, <3>2
  <2> HIDE DEF V, W, G
  <2>5. f = F(f)
    BY <2>3, <2>4 DEF Follows
  <2> QED BY <2>5
<1>2. size = F(size)
  <2> HIDE DEF F
  <2> QED BY <1>1, Zenon
<1>3. Size(num) = (size[num] + 1) % Wrap
  BY Zenon DEF Size
<1> HIDE DEF size
<1>4. \A i \in 0..num : size[i] = IF i = 0 THEN 0 ELSE W(size[i - 1], i)
  <2> HIDE DEF W
  <2> QED BY <1>2
<1>5. \A i \in 1..num : i \in 0..num /\ i # 0
  OBVIOUS
<1> QED BY <1>3, <1>4, <1>5

\* The second pass: where it writes.
LEMMA PtrIs ==
  ASSUME NEW num \in Nat
  PROVE  /\ Ptr(num)[0] = 0
         /\ \A i \in 1..num :
              Ptr(num)[i] =
                IF NewLine(i - 1)
                THEN (((Ptr(num)[i - 1] + Printed(i - 1)) % Wrap) + 1) % Wrap
                ELSE (Ptr(num)[i - 1] + Printed(i - 1)) % Wrap
<1> DEFINE W(v, i) == LET after == (v + Printed(i - 1)) % Wrap
                      IN  IF NewLine(i - 1) THEN (after + 1) % Wrap ELSE after
           F(f) == [i \in 0..num |-> IF i = 0 THEN 0 ELSE W(f[i - 1], i)]
           ptr == CHOOSE f : f = F(f)
           V == 0..(Wrap - 1)
           G == [i \in 1..num |-> [v \in V |-> W(v, i)]]
<1>1. \E f : f = F(f)
  <2>1. \A i \in 1..num : \A v \in V : W(v, i) \in V
    <3> SUFFICES ASSUME NEW i \in 1..num, NEW v \in V PROVE W(v, i) \in V
      OBVIOUS
    <3>1. i - 1 \in Nat
      OBVIOUS
    <3>2. PICK a \in V : a = (v + Printed(i - 1)) % Wrap
      BY <3>1, StepIs
    <3>3. (a + 1) % Wrap \in V
      BY <3>1, StepIs
    <3> QED BY <3>2, <3>3
  <2>2. G \in [1..num -> [V -> V]] /\ 0 \in V
    <3>1. 0 \in V
      BY WrapAssumption
    <3> HIDE DEF V, W
    <3> QED BY <2>1, <3>1
  <2>3. PICK f \in [0..num -> V] : Follows(f, num, 0, G)
    <3> HIDE DEF G, V
    <3> QED BY <2>2, Recursion, Zenon
  <2>4. ASSUME NEW i \in 0..num, i # 0 PROVE G[i][f[i - 1]] = W(f[i - 1], i)
    <3>1. i \in 1..num /\ i - 1 \in 0..num
      BY <2>4
    <3>2. f[i - 1] \in V
      BY <2>3, <3>1
    <3> HIDE DEF V, W
    <3> QED BY <3>1, <3>2
  <2> HIDE DEF V, W, G
  <2>5. f = F(f)
    BY <2>3, <2>4 DEF Follows
  <2> QED BY <2>5
<1>2. ptr = F(ptr)
  <2> HIDE DEF F
  <2> QED BY <1>1, Zenon
<1>3. Ptr(num) = ptr
  BY Zenon DEF Ptr
<1> HIDE DEF ptr
<1>4. \A i \in 0..num : ptr[i] = IF i = 0 THEN 0 ELSE W(ptr[i - 1], i)
  <2> HIDE DEF W
  <2> QED BY <1>2
<1>5. \A i \in 1..num : i \in 0..num /\ i # 0
  OBVIOUS
<1> QED BY <1>3, <1>4, <1>5

\* Neither pass wraps: the string of a count fits its buffer and fills it.
LEMMA CountFits ==
  ASSUME NEW num \in Nat, num < 1000 * 1000 * 1000, 11 * num + 1 < Wrap
  PROVE  Fits(num)
<1>1. PICK f : /\ Size(num) = (f[num] + 1) % Wrap
               /\ f[0] = 0
               /\ \A i \in 1..num : f[i] = (f[i - 1] + Printed(i - 1)
                                             + (IF NewLine(i - 1) THEN 1 ELSE 0)) % Wrap
  BY SizeIs
<1>2. Positions(f, num)
  <2>1. ASSUME NEW i \in 1..num, f[i - 1] \in 0..(11 * (i - 1))
        PROVE  f[i] = (f[i - 1] + Width(i - 1)) % Wrap
    <3>1. i - 1 \in Nat /\ i - 1 < 1000 * 1000 * 1000
      OBVIOUS
    <3>2. PICK b \in Nat, c \in {0, 1} : /\ b = Printed(i - 1)
                                        /\ c = IF NewLine(i - 1) THEN 1 ELSE 0
      BY <3>1, WidthIs
    <3>3. f[i] = (f[i - 1] + b + c) % Wrap /\ Width(i - 1) = b + c
      BY <1>1, <3>2 DEF Width
    <3>4. f[i - 1] + b + c = f[i - 1] + (b + c)
      BY <2>1
    <3> QED BY <3>3, <3>4
  <2> QED BY <1>1, <2>1, PassCounts
<1> DEFINE p == Ptr(num)
<1>3. Positions(p, num)
  <2>1. ASSUME NEW i \in 1..num, p[i - 1] \in 0..(11 * (i - 1))
        PROVE  p[i] = (p[i - 1] + Width(i - 1)) % Wrap
    <3>1. i - 1 \in Nat /\ i - 1 < 1000 * 1000 * 1000
      OBVIOUS
    <3>2. Printed(i - 1) \in 2..10
      BY <3>1, WidthIs
    <3>3. PICK x \in Nat : x = p[i - 1] + Printed(i - 1) /\ x < Wrap
      BY <2>1, <3>2, WrapAssumption
    <3>4. x % Wrap = x
      BY <3>3, NoWrap, WrapAssumption
    <3>5. p[i] = IF NewLine(i - 1) THEN ((x % Wrap) + 1) % Wrap ELSE x % Wrap
      BY <3>3, PtrIs
    <3>6. p[i - 1] + Width(i - 1) = x + IF NewLine(i - 1) THEN 1 ELSE 0
      BY <2>1, <3>2, <3>3 DEF Width
    <3> HIDE DEF p
    <3>7. CASE NewLine(i - 1)
      BY <3>4, <3>5, <3>6, <3>7
    <3>8. CASE ~NewLine(i - 1)
      BY <3>4, <3>5, <3>6, <3>8
    <3> QED BY <3>7, <3>8
  <2>2. p[0] = 0
    BY PtrIs
  <2> HIDE DEF p
  <2> QED BY <2>1, <2>2, PassCounts
<1> HIDE DEF p
<1>4. \A i \in 0..num : p[i] = f[i] /\ f[i] <= f[num]
  BY <1>2, <1>3, PassesAgree, PositionsGrow
<1>5. f[num] \in 0..(11 * num)
  <2>1. num = 0 \/ num \in 1..num
    OBVIOUS
  <2> QED BY <1>2, <2>1 DEF Positions
<1>6. Size(num) = f[num] + 1
  <2>1. PICK x \in Nat : x = f[num] + 1 /\ x < Wrap
    BY <1>5, WrapAssumption
  <2>2. x % Wrap = x
    <3>1. x < Wrap
      BY <2>1
    <3> QED BY <3>1, NoWrap, WrapAssumption
  <2> QED BY <1>1, <2>1, <2>2
<1>7. p[num] + 1 = Size(num)
  BY <1>4, <1>6
<1>8. ASSUME NEW i \in 0..(num - 1) PROVE End(p[i], i) <= Size(num)
  <2>1. i + 1 \in 1..num /\ (i + 1) - 1 = i /\ i + 1 \in 0..num /\ i \in 0..num /\ i \in Nat
    OBVIOUS
  <2>2. f[i + 1] = f[i] + Width(i) /\ f[i + 1] <= f[num] /\ p[i] = f[i]
    BY <1>2, <1>4, <2>1 DEF Positions
  <2>3. f[i] \in Nat
    <3>1. i = 0 \/ i \in 1..num
      OBVIOUS
    <3> QED BY <1>2, <3>1 DEF Positions
  <2>4. Printed(i) \in 2..10
    BY <2>1, WidthIs
  <2>5. End(p[i], i) = f[i + 1] + 1
    BY <2>2, <2>3, <2>4 DEF End, Width
  <2>6. f[i + 1] \in Nat
    BY <1>2, <2>1 DEF Positions
  <2> QED BY <1>5, <1>6, <2>2, <2>5, <2>6
<1> QED BY <1>7, <1>8 DEF Fits, p

-----------------------------------------------------------------------------
(***************************************************************************)
(* The invariant.  For each client: its state s, what is on its way to the *)
(* server in the queue q, its hello_request h, the lines i written for it  *)
(* and those in its pipe p.                                                *)
(***************************************************************************)
HelloAnswers == {"fd", "error"}

ClientStates ==
  [at : {"off", "watch", "notify", "count", "idle"}, waiting : BOOLEAN,
   left : 0..Notifies, count_to : Int, count_progression : Int,
   count_timer : BOOLEAN, pending : {"none", "sent", "done"},
   replies : Seq({"watch", "notify", "count", "fd", "error"}), fd : BOOLEAN,
   stream : Seq(Nat), printed : Nat]

HelloStates == {"none", "deferred", "stalled", "open", "freed"}

Types ==
  /\ up \in BOOLEAN /\ inbox \in Seq(Requests) /\ watched \subseteq Clients
  /\ hello \in [Clients -> HelloStates]
  /\ idx \in [Clients -> Nat] /\ writing \in 0..MaxClients
  /\ clients \in 0..MaxClients
  /\ client \in [Clients -> ClientStates] /\ pipe \in [Clients -> Seq(Nat)]

\* Request r is a synchronous call that client c may be in at `at`.
Asks(r, c, at) ==
  /\ r.from = c
  /\ \/ r.method \in {"notify", "count"}
     \/ r.method = "watch" /\ at = "watch"

\* A client is in one synchronous call at most: its request or the answer to it may
\* be on its way, not both, and nothing is on its way that it does not wait for.
Call(s, c, q) ==
  /\ s.waiting => /\ s.at \in {"watch", "notify", "count"}
                  /\ s.at = "notify" => s.left > 0
  /\ \A k \in 1..Len(q) : Asks(q[k], c, s.at) =>
       /\ s.waiting /\ q[k].method = s.at
       /\ \A j \in 1..Len(q) : Asks(q[j], c, s.at) => j = k
       /\ \A j \in 1..Len(s.replies) : s.replies[j] \in HelloAnswers
  /\ \A k \in 1..Len(s.replies) : s.replies[k] \notin HelloAnswers =>
       /\ s.waiting /\ s.replies[k] = s.at
       /\ \A j \in 1..Len(s.replies) : s.replies[j] \notin HelloAnswers => j = k

SaysHello(r, c) == r.from = c /\ r.method = "hello"

\* A client says hello once.
HelloQueue(s, c, h, q) ==
  \A k \in 1..Len(q) : SaysHello(q[k], c) =>
    /\ h = "none" /\ (s.at = "off" \/ s.pending # "none")
    /\ \A j \in 1..Len(q) : SaysHello(q[j], c) => j = k

OneOfEach(s, c, h, q) == Call(s, c, q) /\ HelloQueue(s, c, h, q)

FromStarted(q) == \A k \in 1..Len(q) : q[k].from <= clients

\* q holds the lines behind line b.
InOrder(q, b) == \A k \in 1..Len(q) : q[k] = b + k

\* The lines read and not printed and those in the pipe are those from the last
\* printed to the last written, in order.
Lines(s, i, p) ==
  /\ Len(p) <= PipeLines /\ Len(s.stream) < StreamLines
  /\ i = s.printed + Len(s.stream) + Len(p)
  /\ InOrder(s.stream, s.printed) /\ InOrder(p, s.printed + Len(s.stream))

\* The count is a number of steps from each of its ends.
InSteps(s) ==
  /\ s.count_progression \in {PROGRESSION, -PROGRESSION}
  /\ \E k, m \in Nat : /\ s.count_to = COUNT_TO_MIN + k * PROGRESSION
                       /\ COUNT_TO_MAX = s.count_to + m * PROGRESSION

Local(s, c, h, i, p) ==
  /\ h # "none" => s.at = "off" \/ s.pending # "none"
  /\ i <= MaxLines /\ (h \in {"none", "deferred"} => i = 0)
  /\ IF s.at = "off" THEN p = << >> /\ s.stream = << >> ELSE Lines(s, i, p)
  /\ InSteps(s)
  /\ c > clients => s.at = "off" /\ h = "none" /\ i = 0

\* A blocked write is one of an open request, and not past the bound.
BlockedOpen == writing # 0 => hello[writing] = "open" /\ idx[writing] < MaxLines

HelloInv ==
  /\ Types /\ FromStarted(inbox) /\ BlockedOpen
  /\ \A c \in Clients : /\ OneOfEach(client[c], c, hello[c], inbox)
                         /\ Local(client[c], c, hello[c], idx[c], pipe[c])

\* Taking requests out of a queue spoils nothing.
LEMMA OneOfEachPart ==
  ASSUME NEW s, NEW c, NEW h, NEW q, NEW t, OneOfEach(s, c, h, q), Part(t, q)
  PROVE  OneOfEach(s, c, h, t)
<1>1. PICK f \in [1..Len(t) -> 1..Len(q)] :
        /\ \A k \in 1..Len(t) : t[k] = q[f[k]]
        /\ \A j, k \in 1..Len(t) : f[j] = f[k] => j = k
  BY DEF Part
<1>2. \A k \in 1..Len(t) : f[k] \in 1..Len(q)
  BY <1>1
<1>3. Call(s, c, t)
  <2>1. \A k \in 1..Len(t) : Asks(t[k], c, s.at) =>
          /\ s.waiting /\ t[k].method = s.at
          /\ \A j \in 1..Len(t) : Asks(t[j], c, s.at) => j = k
          /\ \A j \in 1..Len(s.replies) : s.replies[j] \in HelloAnswers
    <3> SUFFICES ASSUME NEW k \in 1..Len(t), Asks(t[k], c, s.at)
                 PROVE  /\ s.waiting /\ t[k].method = s.at
                        /\ \A j \in 1..Len(t) : Asks(t[j], c, s.at) => j = k
                        /\ \A j \in 1..Len(s.replies) : s.replies[j] \in HelloAnswers
      OBVIOUS
    <3>1. f[k] \in 1..Len(q) /\ Asks(q[f[k]], c, s.at)
      BY <1>1, <1>2
    <3>2. /\ s.waiting /\ q[f[k]].method = s.at
          /\ \A j \in 1..Len(q) : Asks(q[j], c, s.at) => j = f[k]
          /\ \A j \in 1..Len(s.replies) : s.replies[j] \in HelloAnswers
      BY <3>1 DEF OneOfEach, Call
    <3>3. ASSUME NEW j \in 1..Len(t), Asks(t[j], c, s.at) PROVE j = k
      <4>1. f[j] \in 1..Len(q) /\ Asks(q[f[j]], c, s.at)
        BY <1>1, <1>2, <3>3
      <4>2. f[j] = f[k]
        BY <3>2, <4>1
      <4> QED BY <1>1, <4>2
    <3> QED BY <1>1, <3>2, <3>3
  <2> QED BY <2>1 DEF OneOfEach, Call
<1>4. HelloQueue(s, c, h, t)
  BY <1>1, <1>2 DEF OneOfEach, HelloQueue
<1> QED BY <1>3, <1>4 DEF OneOfEach

\* t is q, or q with r behind it.
Grown(t, q, r) ==
  \/ t = q
  \/ /\ Len(t) = Len(q) + 1 /\ t[Len(q) + 1] = r
     /\ \A k \in 1..Len(q) : t[k] = q[k]

\* Nor does a request of another client.
LEMMA OneOfEachOther ==
  ASSUME NEW s, NEW c, NEW h, NEW q, NEW t, NEW r, NEW R, q \in Seq(R),
         OneOfEach(s, c, h, q), Grown(t, q, r), r.from # c
  PROVE  OneOfEach(s, c, h, t)
<1>1. CASE t = q
  BY <1>1
<1>2. CASE t # q
  <2>1. PICK n \in Nat : /\ Len(q) = n /\ Len(t) = n + 1 /\ t[n + 1] = r
                         /\ \A k \in 1..n : t[k] = q[k]
    BY <1>2 DEF Grown
  <2>2. ~SaysHello(r, c) /\ \A at : ~Asks(r, c, at)
    BY DEF SaysHello, Asks
  <2>3. \A k \in 1..(n + 1) : k = n + 1 \/ k \in 1..n
    OBVIOUS
  <2>4. Call(s, c, t)
    BY <2>1, <2>2, <2>3 DEF OneOfEach, Call
  <2>5. HelloQueue(s, c, h, t)
    BY <2>1, <2>2, <2>3 DEF OneOfEach, HelloQueue
  <2> QED BY <2>4, <2>5 DEF OneOfEach
<1> QED BY <1>1, <1>2

\* A request is sent only to a server that runs.
LEMMA SentGrows ==
  ASSUME HelloInv, NEW c \in Clients, client[c].at # "off",
         NEW m \in {"watch", "notify", "count", "hello"}, Sent(c, m)
  PROVE  /\ inbox' \in Seq(Requests) /\ FromStarted(inbox')
         /\ Grown(inbox', inbox, [from |-> c, method |-> m])
         /\ \A d \in Clients : d # c => OneOfEach(client[d], d, hello[d], inbox')
<1>1. PICK r \in Requests : r = [from |-> c, method |-> m] /\ r.from = c
  <2>1. [from |-> c, method |-> m] \in Requests
    BY DEF Requests
  <2> QED BY <2>1
<1>2. inbox \in Seq(Requests) /\ FromStarted(inbox) /\ c <= clients
  BY DEF HelloInv, Types, Local, Clients
<1>3. PICK t : t = inbox'
  OBVIOUS
<1>4. t \in Seq(Requests) /\ Grown(t, inbox, r)
  BY <1>1, <1>2, <1>3 DEF Sent, Grown
<1>5. FromStarted(t)
  <2>1. CASE t = inbox
    BY <1>2, <2>1
  <2>2. CASE t # inbox
    <3>1. PICK n \in Nat : /\ Len(inbox) = n /\ Len(t) = n + 1 /\ t[n + 1] = r
                           /\ \A k \in 1..n : t[k] = inbox[k]
      BY <1>2, <1>4, <2>2 DEF Grown
    <3>2. \A k \in 1..(n + 1) : k = n + 1 \/ k \in 1..n
      OBVIOUS
    <3> QED BY <1>1, <1>2, <3>1, <3>2 DEF FromStarted
  <2> QED BY <2>1, <2>2
<1>6. ASSUME NEW d \in Clients, d # c PROVE OneOfEach(client[d], d, hello[d], t)
  <2>1. OneOfEach(client[d], d, hello[d], inbox)
    BY DEF HelloInv
  <2>2. r.from # d
    BY <1>1, <1>6
  <2> QED BY <1>2, <1>4, <2>1, <2>2, OneOfEachOther
<1> QED BY <1>1, <1>3, <1>4, <1>5, <1>6

\* Requests are dropped, or one is served.
LEMMA PartOfInbox ==
  ASSUME HelloInv, NEW t \in Seq(Requests), Part(t, inbox)
  PROVE  /\ FromStarted(t)
         /\ \A d \in Clients : OneOfEach(client[d], d, hello[d], t)
<1>1. FromStarted(t)
  BY DEF HelloInv, FromStarted, Part
<1> QED BY <1>1, OneOfEachPart DEF HelloInv

\* A client goes on as s.
LEMMA Becoming ==
  ASSUME Types, NEW c \in Clients, NEW s \in ClientStates, Becomes(c, s)
  PROVE  /\ client' \in [Clients -> ClientStates] /\ client'[c] = s
         /\ \A d \in Clients : d # c => client'[d] = client[d]
BY DEF Types, Becomes

\* A step of client c that leaves the server and the pipes alone.
LEMMA ClientOnly ==
  ASSUME HelloInv, NEW c \in Clients, NEW x \in ClientStates, x = client[c],
         NEW s \in ClientStates, Becomes(c, s),
         UNCHANGED <<serverVars, clients, pipe>>,
         s.at = "off" <=> x.at = "off",
         s.stream = x.stream, s.printed = x.printed,
         x.pending # "none" => s.pending # "none",
         InSteps(s),
         inbox' \in Seq(Requests), FromStarted(inbox'),
         \A d \in Clients : d # c => OneOfEach(client[d], d, hello[d], inbox'),
         OneOfEach(s, c, hello[c], inbox')
  PROVE  HelloInv'
<1>1. /\ up' = up /\ watched' = watched /\ hello' = hello /\ idx' = idx
      /\ writing' = writing /\ clients' = clients /\ pipe' = pipe
  BY DEF serverVars
<1>2. /\ client' \in [Clients -> ClientStates] /\ client'[c] = s
      /\ \A d \in Clients : d # c => client'[d] = client[d]
  BY Becoming DEF HelloInv
<1>3. Types' /\ FromStarted(inbox)' /\ BlockedOpen'
  BY <1>1, <1>2 DEF HelloInv, Types, FromStarted, BlockedOpen
<1>4. ASSUME NEW d \in Clients, d # c
      PROVE  /\ OneOfEach(client[d], d, hello[d], inbox)'
             /\ Local(client[d], d, hello[d], idx[d], pipe[d])'
  BY <1>1, <1>2, <1>4 DEF HelloInv, Local
<1>5. OneOfEach(client[c], c, hello[c], inbox)'
  BY <1>1, <1>2
<1>6. Local(client[c], c, hello[c], idx[c], pipe[c])'
  <2>1. Local(x, c, hello[c], idx[c], pipe[c])
    BY DEF HelloInv
  <2>2. x.at # "off" => Lines(s, idx[c], pipe[c])
    BY <2>1 DEF Local, Lines
  <2>3. /\ hello[c] # "none" => s.at = "off" \/ s.pending # "none"
        /\ idx[c] <= MaxLines /\ (hello[c] \in {"none", "deferred"} => idx[c] = 0)
        /\ IF s.at = "off" THEN pipe[c] = << >> /\ s.stream = << >>
           ELSE Lines(s, idx[c], pipe[c])
        /\ InSteps(s)
        /\ c > clients => s.at = "off" /\ hello[c] = "none" /\ idx[c] = 0
    BY <2>1, <2>2 DEF Local
  <2> QED BY <1>1, <1>2, <2>3 DEF Local
<1> QED BY <1>3, <1>4, <1>5, <1>6 DEF HelloInv

\* A state in which a client waits for nothing, and nothing is on its way to it.
LEMMA CallNone ==
  ASSUME NEW s, NEW c, NEW q, ~s.waiting,
         \A k \in 1..Len(q) : ~Asks(q[k], c, s.at),
         \A k \in 1..Len(s.replies) : s.replies[k] \in HelloAnswers
  PROVE  Call(s, c, q)
BY DEF Call

\* A client that does not wait has no call under way.
LEMMA NotWaiting ==
  ASSUME NEW s, NEW c, NEW q, Call(s, c, q), ~s.waiting
  PROVE  /\ \A k \in 1..Len(q) : ~Asks(q[k], c, s.at)
         /\ \A k \in 1..Len(s.replies) : s.replies[k] \in HelloAnswers
BY DEF Call

\* A client that did not wait sends a request and waits.
LEMMA CallSent ==
  ASSUME NEW x \in ClientStates, NEW c, NEW q \in Seq(Requests), NEW h,
         OneOfEach(x, c, h, q), ~x.waiting,
         NEW m \in {"watch", "notify", "count"}, m = "watch" => x.at = "watch",
         NEW s \in ClientStates, s.waiting, s.at = m, s.at = "notify" => s.left > 0,
         s.replies = x.replies, s.pending = x.pending, x.at # "off",
         NEW t, Grown(t, q, [from |-> c, method |-> m])
  PROVE  OneOfEach(s, c, h, t)
<1>1. /\ \A k \in 1..Len(q) : ~Asks(q[k], c, x.at)
      /\ \A k \in 1..Len(s.replies) : s.replies[k] \in HelloAnswers
  BY NotWaiting DEF OneOfEach
<1>2. \A k \in 1..Len(q) : ~Asks(q[k], c, m)
  BY <1>1 DEF Asks
<1>3. PICK r : r = [from |-> c, method |-> m] /\ r.method = m /\ ~SaysHello(r, c)
  BY DEF SaysHello
<1>4. PICK n \in Nat : n = Len(q)
  OBVIOUS
<1>5. HelloQueue(s, c, h, q)
  BY DEF OneOfEach, HelloQueue
<1>6. CASE t = q
  <2>1. Call(s, c, t)
    BY <1>1, <1>2, <1>6 DEF Call
  <2> QED BY <1>5, <1>6, <2>1 DEF OneOfEach
<1>7. CASE Len(t) = n + 1 /\ t[n + 1] = r /\ \A k \in 1..n : t[k] = q[k]
  <2>1. \A k \in 1..(n + 1) : k = n + 1 \/ k \in 1..n
    OBVIOUS
  <2>2. \A k \in 1..n : ~Asks(t[k], c, s.at)
    BY <1>2, <1>4, <1>7
  <2>3. Call(s, c, t)
    BY <1>1, <1>3, <1>7, <2>1, <2>2 DEF Call
  <2>4. HelloQueue(s, c, h, t)
    BY <1>3, <1>4, <1>5, <1>7, <2>1 DEF HelloQueue
  <2> QED BY <2>3, <2>4 DEF OneOfEach
<1> QED BY <1>3, <1>4, <1>6, <1>7 DEF Grown

\* InvokeWatch.
LEMMA InvokeWatchStep ==
  ASSUME HelloInv, NEW c \in Clients, InvokeWatch(c)
  PROVE  HelloInv'
<1>1. PICK x \in ClientStates : x = client[c]
  BY DEF HelloInv, Types
<1>2. PICK s : s = [x EXCEPT !.waiting = TRUE]
  OBVIOUS
<1>3. /\ s \in ClientStates /\ s.waiting /\ s.at = x.at /\ s.left = x.left
      /\ s.replies = x.replies /\ s.pending = x.pending /\ s.stream = x.stream
      /\ s.printed = x.printed /\ s.count_to = x.count_to
      /\ s.count_progression = x.count_progression
  BY <1>2 DEF ClientStates
<1>4. /\ x.at = "watch" /\ ~x.waiting /\ Sent(c, "watch") /\ Becomes(c, s)
      /\ UNCHANGED <<serverVars, clients, pipe>>
  BY <1>1, <1>2 DEF InvokeWatch
<1>5. /\ inbox' \in Seq(Requests) /\ FromStarted(inbox')
      /\ Grown(inbox', inbox, [from |-> c, method |-> "watch"])
      /\ \A d \in Clients : d # c => OneOfEach(client[d], d, hello[d], inbox')
  BY <1>1, <1>4, SentGrows
<1>6. OneOfEach(x, c, hello[c], inbox) /\ InSteps(x) /\ inbox \in Seq(Requests)
  BY <1>1 DEF HelloInv, Local, Types
<1>7. OneOfEach(s, c, hello[c], inbox')
  BY <1>3, <1>4, <1>5, <1>6, CallSent
<1>8. InSteps(s)
  BY <1>3, <1>6 DEF InSteps
<1> QED BY <1>1, <1>3, <1>4, <1>5, <1>7, <1>8, ClientOnly

\* What is on the way of a client that does not wait, and stays so.
LEMMA StaysFree ==
  ASSUME NEW x, NEW c, NEW h, NEW q, OneOfEach(x, c, h, q), ~x.waiting, x.at # "off",
         NEW s, ~s.waiting, s.at = "watch" => x.at = "watch", s.replies = x.replies,
         x.pending # "none" => s.pending # "none"
  PROVE  OneOfEach(s, c, h, q)
<1>1. /\ \A k \in 1..Len(q) : ~Asks(q[k], c, x.at)
      /\ \A k \in 1..Len(s.replies) : s.replies[k] \in HelloAnswers
  BY NotWaiting DEF OneOfEach
<1>2. \A k \in 1..Len(q) : ~Asks(q[k], c, s.at)
  BY <1>1 DEF Asks
<1>3. Call(s, c, q)
  BY <1>1, <1>2, CallNone
<1>4. HelloQueue(s, c, h, q)
  BY DEF OneOfEach, HelloQueue
<1> QED BY <1>3, <1>4 DEF OneOfEach

\* The inbox as it was.
LEMMA SameInbox ==
  ASSUME HelloInv
  PROVE  /\ inbox \in Seq(Requests) /\ FromStarted(inbox)
         /\ \A d \in Clients : OneOfEach(client[d], d, hello[d], inbox)
BY DEF HelloInv, Types

\* test_client_notify_cb, one notification.
LEMMA UbusNotifyStep ==
  ASSUME HelloInv, NEW c \in Clients, UbusNotify(c)
  PROVE  HelloInv'
<1>1. PICK x \in ClientStates : x = client[c]
  BY DEF HelloInv, Types
<1>2. /\ x.at = "notify" /\ ~x.waiting /\ x.left > 0
      /\ UNCHANGED <<serverVars, clients, pipe>>
  BY <1>1 DEF UbusNotify
<1>3. OneOfEach(x, c, hello[c], inbox) /\ InSteps(x) /\ inbox \in Seq(Requests)
  BY <1>1 DEF HelloInv, Local, Types
<1>4. CASE Sent(c, "notify") /\ Becomes(c, [x EXCEPT !.waiting = TRUE])
  <2>1. PICK s : s = [x EXCEPT !.waiting = TRUE]
    OBVIOUS
  <2>2. /\ s \in ClientStates /\ s.waiting /\ s.at = x.at /\ s.left = x.left
        /\ s.replies = x.replies /\ s.pending = x.pending /\ s.stream = x.stream
        /\ s.printed = x.printed /\ s.count_to = x.count_to
        /\ s.count_progression = x.count_progression
    BY <2>1 DEF ClientStates
  <2>3. /\ inbox' \in Seq(Requests) /\ FromStarted(inbox')
        /\ Grown(inbox', inbox, [from |-> c, method |-> "notify"])
        /\ \A d \in Clients : d # c => OneOfEach(client[d], d, hello[d], inbox')
    BY <1>1, <1>2, <1>4, SentGrows
  <2>4. OneOfEach(s, c, hello[c], inbox')
    BY <1>2, <1>3, <2>2, <2>3, CallSent
  <2>5. InSteps(s)
    BY <1>3, <2>2 DEF InSteps
  <2> QED BY <1>1, <1>2, <1>4, <2>1, <2>2, <2>3, <2>4, <2>5, ClientOnly
<1>5. CASE Becomes(c, [x EXCEPT !.left = @ - 1]) /\ UNCHANGED inbox
  <2>1. PICK s : s = [x EXCEPT !.left = @ - 1]
    OBVIOUS
  <2>2. /\ s \in ClientStates /\ s.waiting = x.waiting /\ s.at = x.at
        /\ s.replies = x.replies /\ s.pending = x.pending /\ s.stream = x.stream
        /\ s.printed = x.printed /\ s.count_to = x.count_to
        /\ s.count_progression = x.count_progression
    <3>1. PICK n, m \in Nat : n = x.left /\ m = Notifies /\ n <= m /\ n > 0
      <4>1. x.left \in 0..Notifies /\ Notifies \in Nat
        BY HelloAssumption DEF ClientStates
      <4> QED BY <1>2, <4>1
    <3>2. n - 1 \in 0..m
      BY <3>1
    <3> QED BY <2>1, <3>1, <3>2 DEF ClientStates
  <2>3. OneOfEach(s, c, hello[c], inbox)
    BY <1>2, <1>3, <2>2, StaysFree
  <2>4. InSteps(s)
    BY <1>3, <2>2 DEF InSteps
  <2> QED BY <1>1, <1>2, <1>5, <2>1, <2>2, <2>3, <2>4, SameInbox, ClientOnly
<1> QED BY <1>1, <1>4, <1>5 DEF UbusNotify

\* Its end: the first one says hello.
LEMMA NotifyEndStep ==
  ASSUME HelloInv, NEW c \in Clients, NotifyEnd(c)
  PROVE  HelloInv'
<1>1. PICK x \in ClientStates : x = client[c]
  BY DEF HelloInv, Types
<1>2. /\ x.at = "notify" /\ ~x.waiting
      /\ UNCHANGED <<serverVars, clients, pipe>>
  BY <1>1 DEF NotifyEnd
<1>3. /\ OneOfEach(x, c, hello[c], inbox) /\ InSteps(x) /\ inbox \in Seq(Requests)
      /\ Local(x, c, hello[c], idx[c], pipe[c])
  BY <1>1 DEF HelloInv, Local, Types
<1>4. CASE /\ x.pending = "none" /\ Sent(c, "hello")
           /\ Becomes(c, [x EXCEPT !.at = "idle", !.pending = "sent", !.count_timer = TRUE])
  <2>1. PICK s : s = [x EXCEPT !.at = "idle", !.pending = "sent", !.count_timer = TRUE]
    OBVIOUS
  <2>2. /\ s \in ClientStates /\ s.waiting = x.waiting /\ s.at = "idle"
        /\ s.replies = x.replies /\ s.pending = "sent" /\ s.stream = x.stream
        /\ s.printed = x.printed /\ s.count_to = x.count_to
        /\ s.count_progression = x.count_progression
    BY <2>1 DEF ClientStates
  <2>3. /\ inbox' \in Seq(Requests) /\ FromStarted(inbox')
        /\ Grown(inbox', inbox, [from |-> c, method |-> "hello"])
        /\ \A d \in Clients : d # c => OneOfEach(client[d], d, hello[d], inbox')
    BY <1>1, <1>2, <1>4, SentGrows
  <2>4. hello[c] = "none" /\ \A k \in 1..Len(inbox) : ~SaysHello(inbox[k], c)
    BY <1>2, <1>3, <1>4 DEF Local, OneOfEach, HelloQueue
  <2>5. OneOfEach(s, c, hello[c], inbox)
    BY <1>2, <1>3, <2>2, StaysFree
  <2>6. OneOfEach(s, c, hello[c], inbox')
    <3>1. CASE inbox' = inbox
      BY <2>5, <3>1
    <3>2. CASE inbox' # inbox
      <4>0. PICK n \in Nat : n = Len(inbox)
        BY <1>3
      <4>1. PICK t, r : /\ t = inbox' /\ r = [from |-> c, method |-> "hello"]
                        /\ Len(inbox) = n /\ Len(t) = n + 1 /\ t[n + 1] = r
                        /\ \A k \in 1..n : t[k] = inbox[k]
        BY <2>3, <3>2, <4>0 DEF Grown
      <4>2. \A k \in 1..(n + 1) : k = n + 1 \/ k \in 1..n
        OBVIOUS
      <4>3. ~Asks(r, c, s.at)
        BY <4>1 DEF Asks
      <4>4. /\ \A k \in 1..Len(inbox) : ~Asks(inbox[k], c, s.at)
            /\ \A k \in 1..Len(s.replies) : s.replies[k] \in HelloAnswers
        BY <1>2, <2>2, <2>5, NotWaiting DEF OneOfEach
      <4>5. \A k \in 1..Len(t) : ~Asks(t[k], c, s.at)
        BY <4>1, <4>2, <4>3, <4>4
      <4>6. Call(s, c, t)
        BY <1>2, <2>2, <4>4, <4>5, CallNone
      <4>7. HelloQueue(s, c, hello[c], t)
        BY <2>2, <2>4, <4>1, <4>2 DEF HelloQueue
      <4> QED BY <4>1, <4>6, <4>7 DEF OneOfEach
    <3> QED BY <3>1, <3>2
  <2>7. InSteps(s)
    BY <1>3, <2>2 DEF InSteps
  <2> QED BY <1>1, <1>2, <1>4, <2>1, <2>2, <2>3, <2>6, <2>7, ClientOnly
<1>5. CASE Becomes(c, [x EXCEPT !.at = "idle"]) /\ UNCHANGED inbox
  <2>1. PICK s : s = [x EXCEPT !.at = "idle"]
    OBVIOUS
  <2>2. /\ s \in ClientStates /\ s.waiting = x.waiting /\ s.at = "idle"
        /\ s.replies = x.replies /\ s.pending = x.pending /\ s.stream = x.stream
        /\ s.printed = x.printed /\ s.count_to = x.count_to
        /\ s.count_progression = x.count_progression
    BY <2>1 DEF ClientStates
  <2>3. OneOfEach(s, c, hello[c], inbox)
    BY <1>2, <1>3, <2>2, StaysFree
  <2>4. InSteps(s)
    BY <1>3, <2>2 DEF InSteps
  <2> QED BY <1>1, <1>2, <1>5, <2>1, <2>2, <2>3, <2>4, SameInbox, ClientOnly
<1> QED BY <1>1, <1>4, <1>5 DEF NotifyEnd

\* The timer of the notifications.
LEMMA NotifyTimerStep ==
  ASSUME HelloInv, NEW c \in Clients, NotifyTimer(c)
  PROVE  HelloInv'
<1>1. PICK x \in ClientStates : x = client[c]
  BY DEF HelloInv, Types
<1>2. PICK s : s = [x EXCEPT !.at = "notify", !.left = Notifies]
  OBVIOUS
<1>3. /\ x.at = "idle" /\ Becomes(c, s) /\ UNCHANGED inbox
      /\ UNCHANGED <<serverVars, clients, pipe>>
  BY <1>1, <1>2 DEF NotifyTimer
<1>4. OneOfEach(x, c, hello[c], inbox) /\ InSteps(x)
  BY <1>1 DEF HelloInv, Local
<1>5. ~x.waiting
  BY <1>3, <1>4 DEF OneOfEach, Call
<1>6. /\ s \in ClientStates /\ s.waiting = x.waiting /\ s.at = "notify"
      /\ s.replies = x.replies /\ s.pending = x.pending /\ s.stream = x.stream
      /\ s.printed = x.printed /\ s.count_to = x.count_to
      /\ s.count_progression = x.count_progression
  <2>1. Notifies \in 0..Notifies
    BY HelloAssumption
  <2> QED BY <1>2, <2>1 DEF ClientStates
<1>7. OneOfEach(s, c, hello[c], inbox)
  BY <1>3, <1>4, <1>5, <1>6, StaysFree
<1>8. InSteps(s)
  BY <1>4, <1>6 DEF InSteps
<1> QED BY <1>1, <1>3, <1>6, <1>7, <1>8, SameInbox, ClientOnly

\* The count turns at its ends, so the next step stays between them.
LEMMA ProgressionSteps ==
  ASSUME NEW x \in ClientStates, InSteps(x),
         NEW s, s.count_progression = Progression(x),
         s.count_to = x.count_to + Progression(x)
  PROVE  InSteps(s) /\ s.count_to \in Int /\ s.count_progression \in Int
<1>1. PICK k \in Nat, m \in Nat : /\ x.count_to = COUNT_TO_MIN + k * PROGRESSION
                                  /\ COUNT_TO_MAX = x.count_to + m * PROGRESSION
  BY DEF InSteps
<1>2. PICK P \in Nat \ {0}, lo \in Nat, hi \in Nat :
        P = PROGRESSION /\ lo = COUNT_TO_MIN /\ hi = COUNT_TO_MAX /\ lo < hi
  BY HelloAssumption
<1>3. PICK n \in Int : n = x.count_to
  BY DEF ClientStates
<1>4. n = lo + k * P /\ hi = n + m * P /\ k * P \in Nat /\ m * P \in Nat
  BY <1>1, <1>2, <1>3
<1>8. ASSUME NEW q \in Int, q = Progression(x), q = P \/ q = -P,
             NEW i \in Nat, NEW j \in Nat, n + q = lo + i * P, hi = (n + q) + j * P
      PROVE  InSteps(s) /\ s.count_to \in Int /\ s.count_progression \in Int
  <2>1. s.count_to = n + q /\ s.count_progression = q /\ n + q \in Int
    BY <1>3, <1>8
  <2> QED BY <1>2, <1>8, <2>1 DEF InSteps
<1>5. CASE Progression(x) = P /\ n < hi
  <2>1. m # 0
    BY <1>4, <1>5
  <2>2. k + 1 \in Nat /\ m - 1 \in Nat
    BY <2>1
  <2>3. n + P = lo + (k + 1) * P /\ hi = (n + P) + (m - 1) * P
    BY <1>4
  <2>4. P \in Int
    OBVIOUS
  <2> QED BY <1>5, <1>8, <2>2, <2>3, <2>4
<1>6. CASE Progression(x) = -P /\ n > lo
  <2>1. k # 0
    BY <1>4, <1>6
  <2>2. k - 1 \in Nat /\ m + 1 \in Nat
    BY <2>1
  <2>3. n + (-P) = lo + (k - 1) * P /\ hi = (n + (-P)) + (m + 1) * P
    BY <1>4
  <2>4. -P \in Int
    OBVIOUS
  <2> QED BY <1>6, <1>8, <2>2, <2>3, <2>4
<1> QED BY <1>2, <1>3, <1>5, <1>6 DEF Progression, InSteps

\* count_timer runs out.
LEMMA CountTimerStep ==
  ASSUME HelloInv, NEW c \in Clients, CountTimer(c)
  PROVE  HelloInv'
<1>1. PICK x \in ClientStates : x = client[c]
  BY DEF HelloInv, Types
<1>2. PICK y : y = [x EXCEPT !.count_progression = Progression(x),
                             !.count_to = @ + Progression(x), !.count_timer = FALSE]
  OBVIOUS
<1>3. /\ x.at = "idle" /\ UNCHANGED <<serverVars, clients, pipe>>
      /\ \/ Sent(c, "count") /\ Becomes(c, [y EXCEPT !.at = "count", !.waiting = TRUE])
         \/ Becomes(c, y) /\ UNCHANGED inbox
  BY <1>1, <1>2 DEF CountTimer
<1>4. OneOfEach(x, c, hello[c], inbox) /\ InSteps(x) /\ inbox \in Seq(Requests)
  BY <1>1 DEF HelloInv, Local, Types
<1>5. ~x.waiting
  BY <1>3, <1>4 DEF OneOfEach, Call
<1>6. /\ y.count_progression = Progression(x) /\ y.count_to = x.count_to + Progression(x)
      /\ y.at = x.at /\ y.waiting = x.waiting /\ y.replies = x.replies
      /\ y.pending = x.pending /\ y.stream = x.stream /\ y.printed = x.printed
  BY <1>2 DEF ClientStates
<1>7. InSteps(y) /\ y.count_to \in Int /\ y.count_progression \in Int
  BY <1>4, <1>6, ProgressionSteps
<1>8. y \in ClientStates
  BY <1>2, <1>6, <1>7 DEF ClientStates
<1>9. CASE Sent(c, "count") /\ Becomes(c, [y EXCEPT !.at = "count", !.waiting = TRUE])
  <2>1. PICK s : s = [y EXCEPT !.at = "count", !.waiting = TRUE]
    OBVIOUS
  <2>2. /\ s \in ClientStates /\ s.waiting /\ s.at = "count"
        /\ s.replies = x.replies /\ s.pending = x.pending /\ s.stream = x.stream
        /\ s.printed = x.printed /\ s.count_to = y.count_to
        /\ s.count_progression = y.count_progression
    BY <1>6, <1>8, <2>1 DEF ClientStates
  <2>3. /\ inbox' \in Seq(Requests) /\ FromStarted(inbox')
        /\ Grown(inbox', inbox, [from |-> c, method |-> "count"])
        /\ \A d \in Clients : d # c => OneOfEach(client[d], d, hello[d], inbox')
    BY <1>1, <1>3, <1>9, SentGrows
  <2>4. OneOfEach(s, c, hello[c], inbox')
    BY <1>3, <1>4, <1>5, <2>2, <2>3, CallSent
  <2>5. InSteps(s)
    BY <1>7, <2>2 DEF InSteps
  <2> QED BY <1>1, <1>3, <1>9, <2>1, <2>2, <2>3, <2>4, <2>5, ClientOnly
<1>10. CASE Becomes(c, y) /\ UNCHANGED inbox
  <2>1. OneOfEach(y, c, hello[c], inbox)
    BY <1>3, <1>4, <1>5, <1>6, StaysFree
  <2> QED BY <1>1, <1>3, <1>6, <1>7, <1>8, <1>10, <2>1, SameInbox, ClientOnly
<1> QED BY <1>3, <1>9, <1>10

\* A synchronous call of a client returns.
LEMMA ReturnedIs ==
  ASSUME NEW x \in ClientStates, x.at \in {"watch", "notify", "count"},
         x.at = "notify" => x.left > 0,
         NEW s, s = Returned(x)
  PROVE  /\ s \in ClientStates /\ ~s.waiting /\ s.at \in {"notify", "idle"}
         /\ s.replies = x.replies /\ s.pending = x.pending /\ s.stream = x.stream
         /\ s.printed = x.printed /\ s.count_to = x.count_to
         /\ s.count_progression = x.count_progression
<1>1. CASE x.at = "watch"
  <2>1. s = [x EXCEPT !.waiting = FALSE, !.at = "notify", !.left = Notifies]
    BY <1>1 DEF Returned
  <2>2. Notifies \in 0..Notifies
    BY HelloAssumption
  <2> QED BY <2>1, <2>2 DEF ClientStates
<1>2. CASE x.at = "notify"
  <2>1. s = [x EXCEPT !.waiting = FALSE, !.left = @ - 1]
    BY <1>2 DEF Returned
  <2>2. PICK n, m \in Nat : n = x.left /\ m = Notifies /\ n <= m /\ n > 0
    <3>1. x.left \in 0..Notifies /\ Notifies \in Nat
      BY HelloAssumption DEF ClientStates
    <3> QED BY <1>2, <3>1
  <2>3. n - 1 \in 0..m
    BY <2>2
  <2> QED BY <1>2, <2>1, <2>2, <2>3 DEF ClientStates
<1>3. CASE x.at = "count"
  <2>1. s = [x EXCEPT !.waiting = FALSE, !.at = "idle", !.count_timer = TRUE]
    BY <1>3 DEF Returned
  <2> QED BY <2>1 DEF ClientStates
<1> QED BY <1>1, <1>2, <1>3

\* A client takes the first of its answers.
LEMMA ClientReceiveStep ==
  ASSUME HelloInv, NEW c \in Clients, ClientReceive(c)
  PROVE  HelloInv'
<1>1. PICK x \in ClientStates : x = client[c]
  BY DEF HelloInv, Types
<1>2. PICK y : y = [x EXCEPT !.replies = Tail(@)]
  OBVIOUS
<1>3. PICK r : r = Head(x.replies)
  OBVIOUS
<1>4. PICK s : s = Received(y, r)
  OBVIOUS
<1>5. /\ x.replies # << >> /\ Becomes(c, s) /\ UNCHANGED inbox
      /\ UNCHANGED <<serverVars, clients, pipe>> /\ (x.waiting \/ x.at = "idle")
  BY <1>1, <1>2, <1>3, <1>4 DEF ClientReceive
<1>t. PICK t : t = Tail(x.replies)
  OBVIOUS
<1>6. PICK m \in Nat :
        /\ t \in Seq({"watch", "notify", "count", "fd", "error"})
        /\ m = Len(t) /\ Len(x.replies) = m + 1 /\ x.replies[1] = r
        /\ \A k \in 1..m : t[k] = x.replies[k + 1]
  <2>1. x.replies \in Seq({"watch", "notify", "count", "fd", "error"})
    BY DEF ClientStates
  <2>2. PICK w : w = x.replies /\ w # << >>
              /\ w \in Seq({"watch", "notify", "count", "fd", "error"})
    BY <1>5, <2>1
  <2>3. /\ Tail(w) \in Seq({"watch", "notify", "count", "fd", "error"})
        /\ Len(Tail(w)) \in Nat /\ Len(w) = Len(Tail(w)) + 1 /\ w[1] = Head(w)
        /\ \A k \in 1..Len(Tail(w)) : Tail(w)[k] = w[k + 1]
    BY <2>2
  <2> QED BY <1>3, <1>t, <2>2, <2>3
<1>7. /\ y \in ClientStates /\ y.at = x.at /\ y.waiting = x.waiting /\ y.replies = t
      /\ y.left = x.left /\ y.pending = x.pending /\ y.stream = x.stream
      /\ y.printed = x.printed /\ y.count_to = x.count_to
      /\ y.count_progression = x.count_progression
  BY <1>2, <1>t, <1>6 DEF ClientStates
<1>8. OneOfEach(x, c, hello[c], inbox) /\ InSteps(x)
  BY <1>1 DEF HelloInv, Local
<1>9. Call(x, c, inbox) /\ HelloQueue(x, c, hello[c], inbox)
  BY <1>8 DEF OneOfEach
<1>10. \A k \in 1..m : k + 1 \in 1..(m + 1)
  OBVIOUS
<1>11. CASE r \in HelloAnswers
  <2>1. /\ s \in ClientStates /\ s.at = y.at /\ s.waiting = y.waiting
        /\ s.replies = t /\ s.left = y.left /\ s.stream = y.stream /\ s.pending = "done"
        /\ s.printed = y.printed /\ s.count_to = y.count_to
        /\ s.count_progression = y.count_progression
    <3>0. y.at # "fd" /\ y.at # "error"
      BY <1>7 DEF ClientStates
    <3>1. CASE r = "fd"
      <4>1. s = [y EXCEPT !.fd = TRUE, !.pending = "done"]
        BY <1>4, <3>0, <3>1 DEF Received
      <4> QED BY <1>7, <4>1 DEF ClientStates
    <3>2. CASE r = "error"
      <4>1. s = [y EXCEPT !.pending = "done"]
        BY <1>4, <3>0, <3>2 DEF Received
      <4> QED BY <1>7, <4>1 DEF ClientStates
    <3> QED BY <1>11, <3>1, <3>2 DEF HelloAnswers
  <2>2. Call(s, c, inbox)
    <3>1. \A k \in 1..Len(inbox) : Asks(inbox[k], c, s.at) =>
            /\ s.waiting /\ inbox[k].method = s.at
            /\ \A j \in 1..Len(inbox) : Asks(inbox[j], c, s.at) => j = k
            /\ \A j \in 1..m : t[j] \in HelloAnswers
      <4> SUFFICES ASSUME NEW k \in 1..Len(inbox), Asks(inbox[k], c, s.at)
                   PROVE  /\ s.waiting /\ inbox[k].method = s.at
                          /\ \A j \in 1..Len(inbox) : Asks(inbox[j], c, s.at) => j = k
                          /\ \A j \in 1..m : t[j] \in HelloAnswers
        OBVIOUS
      <4>1. /\ s.waiting /\ inbox[k].method = s.at
            /\ \A j \in 1..Len(inbox) : Asks(inbox[j], c, s.at) => j = k
            /\ \A j \in 1..Len(x.replies) : x.replies[j] \in HelloAnswers
        BY <1>7, <1>9, <2>1 DEF Call
      <4>2. \A j \in 1..m : t[j] \in HelloAnswers
        BY <1>6, <1>10, <4>1
      <4> QED BY <4>1, <4>2
    <3>2. \A k \in 1..m : t[k] \notin HelloAnswers =>
            /\ s.waiting /\ t[k] = s.at
            /\ \A j \in 1..m : t[j] \notin HelloAnswers => j + 1 = k + 1
      <4> SUFFICES ASSUME NEW k \in 1..m, t[k] \notin HelloAnswers
                   PROVE  /\ s.waiting /\ t[k] = s.at
                          /\ \A j \in 1..m : t[j] \notin HelloAnswers => j + 1 = k + 1
        OBVIOUS
      <4>1. k + 1 \in 1..Len(x.replies) /\ x.replies[k + 1] \notin HelloAnswers
        BY <1>6, <1>10
      <4>2. /\ x.waiting /\ x.replies[k + 1] = x.at
            /\ \A j \in 1..Len(x.replies) : x.replies[j] \notin HelloAnswers => j = k + 1
        BY <1>9, <4>1 DEF Call
      <4>3. \A j \in 1..m : t[j] \notin HelloAnswers => j + 1 = k + 1
        BY <1>6, <1>10, <4>2
      <4> QED BY <1>6, <1>7, <2>1, <4>2, <4>3
    <3>3. \A k \in 1..m : t[k] \notin HelloAnswers =>
            /\ s.waiting /\ t[k] = s.at
            /\ \A j \in 1..m : t[j] \notin HelloAnswers => j = k
      BY <3>2
    <3>4. s.waiting => /\ s.at \in {"watch", "notify", "count"}
                       /\ s.at = "notify" => s.left > 0
      BY <1>7, <1>9, <2>1 DEF Call
    <3> QED BY <1>6, <2>1, <3>1, <3>3, <3>4 DEF Call
  <2>3. HelloQueue(s, c, hello[c], inbox)
    BY <1>7, <1>9, <2>1 DEF HelloQueue
  <2>4. InSteps(s)
    BY <1>7, <1>8, <2>1 DEF InSteps
  <2>5. OneOfEach(s, c, hello[c], inbox)
    BY <2>2, <2>3 DEF OneOfEach
  <2> QED BY <1>1, <1>5, <1>7, <2>1, <2>4, <2>5, SameInbox, ClientOnly
<1>12. CASE r \notin HelloAnswers
  <2>1. /\ x.waiting /\ r = x.at
        /\ \A j \in 1..(m + 1) : x.replies[j] \notin HelloAnswers => j = 1
    <3>1. 1 \in 1..(m + 1)
      OBVIOUS
    <3> QED BY <1>6, <1>9, <1>12, <3>1 DEF Call
  <2>2. /\ y.at \in {"watch", "notify", "count"} /\ (y.at = "notify" => y.left > 0)
        /\ y.at = r
    BY <1>7, <1>9, <2>1 DEF Call
  <2>3. s = Returned(y)
    BY <1>4, <2>2 DEF Received
  <2>4. /\ s \in ClientStates /\ ~s.waiting /\ s.at \in {"notify", "idle"}
        /\ s.replies = t /\ s.pending = x.pending /\ s.stream = x.stream
        /\ s.printed = x.printed /\ s.count_to = x.count_to
        /\ s.count_progression = x.count_progression
    BY <1>7, <2>2, <2>3, ReturnedIs
  <2>5. \A k \in 1..m : t[k] \in HelloAnswers
    <3>1. \A k \in 1..m : x.replies[k + 1] \notin HelloAnswers => k + 1 = 1
      BY <1>10, <2>1
    <3>2. \A k \in 1..m : k + 1 # 1
      OBVIOUS
    <3> QED BY <1>6, <3>1, <3>2
  <2>6. \A k \in 1..Len(inbox) : ~Asks(inbox[k], c, s.at)
    <3>1. \A k \in 1..Len(inbox) : ~Asks(inbox[k], c, x.at)
      <4>1. 1 \in 1..Len(x.replies)
        BY <1>6
      <4> QED BY <1>6, <1>9, <1>12, <4>1 DEF Call
    <3> QED BY <2>4, <3>1 DEF Asks
  <2>7. Call(s, c, inbox)
    BY <1>6, <2>4, <2>5, <2>6, CallNone
  <2>8. HelloQueue(s, c, hello[c], inbox)
    BY <1>9, <2>1, <2>2, <2>4 DEF HelloQueue
  <2>9. InSteps(s)
    BY <1>8, <2>4 DEF InSteps
  <2>10. OneOfEach(s, c, hello[c], inbox)
    BY <2>7, <2>8 DEF OneOfEach
  <2>11. s.at # "off" /\ x.at # "off"
    BY <1>7, <2>2, <2>4
  <2> QED BY <1>1, <1>5, <2>4, <2>9, <2>10, <2>11, SameInbox, ClientOnly
<1> QED BY <1>11, <1>12

\* What is dropped with client c.
LEMMA WithoutCallerIs ==
  ASSUME HelloInv, NEW c \in Clients, NEW t, t = WithoutCaller(c)
  PROVE  /\ t \in Seq(Requests) /\ Part(t, inbox)
         /\ \A k \in 1..Len(t) : t[k].from = c => t[k].method \in {"watch", "hello"}
<1>1. inbox \in Seq(Requests)
  BY DEF HelloInv, Types
<1>2. PICK S : S = {r \in Requests : r.from # c \/ r.method \in {"watch", "hello"}}
  OBVIOUS
<1>3. t = Kept(inbox, S)
  BY <1>2 DEF WithoutCaller
<1>4. t \in Seq(Requests) /\ Part(t, inbox) /\ \A k \in 1..Len(t) : t[k] \in S
  BY <1>1, <1>3, KeptIsPart
<1> QED BY <1>2, <1>4

\* A synchronous call times out.
LEMMA CallTimeoutStep ==
  ASSUME HelloInv, NEW c \in Clients, CallTimeout(c)
  PROVE  HelloInv'
<1>1. PICK x \in ClientStates : x = client[c]
  BY DEF HelloInv, Types
<1>2. PICK y : y = Returned(x)
  OBVIOUS
<1>3. PICK v : v = Kept(y.replies, HelloAnswers)
  OBVIOUS
<1>4. PICK s : s = [y EXCEPT !.replies = v]
  OBVIOUS
<1>5. /\ x.waiting /\ UNCHANGED <<serverVars, clients, pipe>>
      /\ Becomes(c, s) /\ inbox' = WithoutCaller(c)
  BY <1>1, <1>2, <1>3, <1>4 DEF CallTimeout, HelloAnswers
<1>6. Call(x, c, inbox) /\ HelloQueue(x, c, hello[c], inbox) /\ InSteps(x)
  BY <1>1 DEF HelloInv, OneOfEach, Local
<1>7. x.at \in {"watch", "notify", "count"} /\ (x.at = "notify" => x.left > 0)
  BY <1>5, <1>6 DEF Call
<1>8. /\ y \in ClientStates /\ ~y.waiting /\ y.at \in {"notify", "idle"}
      /\ y.replies = x.replies /\ y.pending = x.pending /\ y.stream = x.stream
      /\ y.printed = x.printed /\ y.count_to = x.count_to
      /\ y.count_progression = x.count_progression
  BY <1>2, <1>7, ReturnedIs
<1>9. /\ v \in Seq({"watch", "notify", "count", "fd", "error"})
      /\ \A k \in 1..Len(v) : v[k] \in HelloAnswers
  <2>1. y.replies \in Seq({"watch", "notify", "count", "fd", "error"})
    BY <1>8 DEF ClientStates
  <2> QED BY <1>3, <2>1, KeptIsPart
<1>10. /\ s \in ClientStates /\ ~s.waiting /\ s.at \in {"notify", "idle"}
       /\ s.replies = v /\ s.pending = x.pending /\ s.stream = x.stream
       /\ s.printed = x.printed /\ s.count_to = x.count_to
       /\ s.count_progression = x.count_progression
  BY <1>4, <1>8, <1>9 DEF ClientStates
<1>11. PICK t : t = inbox'
  OBVIOUS
<1>12. /\ t \in Seq(Requests) /\ Part(t, inbox)
       /\ \A k \in 1..Len(t) : t[k].from = c => t[k].method \in {"watch", "hello"}
  BY <1>5, <1>11, WithoutCallerIs
<1>13. FromStarted(t) /\ \A d \in Clients : OneOfEach(client[d], d, hello[d], t)
  BY <1>12, PartOfInbox
<1>14. OneOfEach(s, c, hello[c], t)
  <2>1. \A k \in 1..Len(t) : ~Asks(t[k], c, s.at)
    BY <1>10, <1>12 DEF Asks
  <2>2. Call(s, c, t)
    BY <1>9, <1>10, <2>1, CallNone
  <2>3. HelloQueue(x, c, hello[c], t)
    BY <1>1, <1>13 DEF OneOfEach
  <2>4. HelloQueue(s, c, hello[c], t)
    BY <1>7, <1>10, <2>3 DEF HelloQueue
  <2> QED BY <2>2, <2>4 DEF OneOfEach
<1>15. InSteps(s)
  BY <1>6, <1>10 DEF InSteps
<1>16. s.at # "off" /\ x.at # "off"
  BY <1>7, <1>10
<1> QED BY <1>1, <1>5, <1>10, <1>11, <1>12, <1>13, <1>14, <1>15, <1>16, ClientOnly

\* A step of which one client, its requests and its pipe are the subject.
LEMMA OneClient ==
  ASSUME HelloInv, NEW c \in Clients, Types', FromStarted(inbox)', BlockedOpen',
         clients <= clients',
         \A d \in Clients : d # c =>
           /\ client'[d] = client[d] /\ hello'[d] = hello[d]
           /\ idx'[d] = idx[d] /\ pipe'[d] = pipe[d]
           /\ OneOfEach(client[d], d, hello[d], inbox'),
         OneOfEach(client[c], c, hello[c], inbox)',
         Local(client[c], c, hello[c], idx[c], pipe[c])'
  PROVE  HelloInv'
<1>1. ASSUME NEW d \in Clients, d # c
      PROVE  /\ OneOfEach(client[d], d, hello[d], inbox)'
             /\ Local(client[d], d, hello[d], idx[d], pipe[d])'
  <2>1. clients \in Nat /\ clients' \in Nat /\ d \in Nat
    BY DEF HelloInv, Types, Clients
  <2>2. d > clients' => d > clients
    BY <2>1
  <2> QED BY <1>1, <2>2 DEF HelloInv, Local
<1> QED BY <1>1 DEF HelloInv

\* The smaller of two numbers.
LEMMA MinTwo ==
  ASSUME NEW a \in Int, NEW b \in Int, NEW n, n = Min({a, b})
  PROVE  n \in Int /\ n <= a /\ n <= b
<1>1. \E x \in {a, b} : \A y \in {a, b} : x <= y
  <2>1. CASE a <= b
    BY <2>1
  <2>2. CASE b <= a
    BY <2>2
  <2> QED BY <2>1, <2>2
<1>2. n \in {a, b} /\ \A y \in {a, b} : n <= y
  BY <1>1 DEF Min
<1> QED BY <1>2

\* f is the m elements of p behind its first n.
Copies(f, p, n, m) == Len(f) = m /\ \A k \in 1..m : f[k] = p[n + k]

\* That is what SubSeq gives.
LEMMA Piece ==
  ASSUME NEW R, NEW p \in Seq(R), NEW n \in Nat, NEW m \in Nat, n + m <= Len(p)
  PROVE  /\ SubSeq(p, n + 1, n + m) \in Seq(R)
         /\ Copies(SubSeq(p, n + 1, n + m), p, n, m)
<1>1. PICK i \in Int : i = n + 1
  OBVIOUS
<1>2. PICK j \in Int : j = n + m
  OBVIOUS
<1>3. \A k \in i..j : p[k] \in R
  <2>1. \A k \in i..j : k \in 1..Len(p)
    BY <1>1, <1>2
  <2> QED BY <2>1
<1>4. /\ SubSeq(p, i, j) \in Seq(R)
      /\ Len(SubSeq(p, i, j)) = IF i <= j THEN j - i + 1 ELSE 0
      /\ \A k \in 1..j - i + 1 : SubSeq(p, i, j)[k] = p[i + k - 1]
  BY <1>3, SubSeqProperties
<1>5. (IF i <= j THEN j - i + 1 ELSE 0) = m /\ j - i + 1 = m
  BY <1>1, <1>2
<1>6. \A k \in 1..m : i + k - 1 = n + k
  BY <1>1
<1>7. PICK f : f = SubSeq(p, i, j)
  OBVIOUS
<1>8. f \in Seq(R) /\ Len(f) = m
  BY <1>4, <1>5, <1>7
<1>9. \A k \in 1..m : f[k] = p[n + k]
  BY <1>4, <1>5, <1>6, <1>7
<1>10. Copies(f, p, n, m)
  BY <1>8, <1>9 DEF Copies
<1> QED BY <1>1, <1>2, <1>7, <1>8, <1>10

\* The lines a read takes from the pipe, and those it leaves.
LEMMA PieceInOrder ==
  ASSUME NEW p \in Seq(Nat), NEW b \in Nat, InOrder(p, b),
         NEW n \in Nat, NEW m \in Nat, n + m <= Len(p)
  PROVE  /\ SubSeq(p, n + 1, n + m) \in Seq(Nat) /\ Len(SubSeq(p, n + 1, n + m)) = m
         /\ InOrder(SubSeq(p, n + 1, n + m), b + n)
<1>1. PICK f : f = SubSeq(p, n + 1, n + m)
  OBVIOUS
<1>2. f \in Seq(Nat) /\ Copies(f, p, n, m)
  BY <1>1, Piece
<1>3. \A k \in 1..m : n + k \in 1..Len(p) /\ b + (n + k) = (b + n) + k
  OBVIOUS
<1>4. \A k \in 1..m : f[k] = (b + n) + k
  BY <1>2, <1>3 DEF InOrder, Copies
<1> QED BY <1>1, <1>2, <1>4 DEF InOrder, Copies

\* They go behind those of the stream.
LEMMA JoinInOrder ==
  ASSUME NEW u \in Seq(Nat), NEW f \in Seq(Nat), NEW b \in Nat, NEW l \in Nat, l = Len(u),
         InOrder(u, b), InOrder(f, b + l)
  PROVE  u \o f \in Seq(Nat) /\ Len(u \o f) = l + Len(f) /\ InOrder(u \o f, b)
<1>1. PICK n \in Nat : n = Len(f)
  OBVIOUS
<1>2. PICK w : w = u \o f
  OBVIOUS
<1>3. /\ w \in Seq(Nat) /\ Len(w) = l + n
      /\ \A k \in 1..l + n : w[k] = IF k <= l THEN u[k] ELSE f[k - l]
  BY <1>1, <1>2, ConcatProperties
<1>4. ASSUME NEW k \in 1..(l + n) PROVE w[k] = b + k
  <2>1. CASE k <= l
    <3>1. k \in 1..l
      BY <2>1
    <3> QED BY <1>3, <2>1, <3>1 DEF InOrder
  <2>2. CASE ~(k <= l)
    <3>1. k - l \in 1..n /\ (b + l) + (k - l) = b + k
      BY <2>2
    <3>2. f[k - l] = (b + l) + (k - l)
      BY <1>1, <3>1 DEF InOrder
    <3> QED BY <1>3, <2>2, <3>1, <3>2
  <2> QED BY <2>1, <2>2
<1>5. InOrder(w, b)
  BY <1>3, <1>4 DEF InOrder
<1> QED BY <1>1, <1>2, <1>3, <1>5

\* One line is printed.
LEMMA TailInOrder ==
  ASSUME NEW w \in Seq(Nat), NEW b \in Nat, InOrder(w, b), Len(w) > 0
  PROVE  /\ Head(w) = b + 1 /\ Tail(w) \in Seq(Nat) /\ Len(Tail(w)) = Len(w) - 1
         /\ InOrder(Tail(w), b + 1)
<1>1. PICK n \in Nat : n = Len(w) /\ n > 0
  OBVIOUS
<1>2. w # << >> /\ Head(w) = w[1]
  OBVIOUS
<1>3. 1 \in 1..n
  BY <1>1
<1>4. Head(w) = b + 1
  BY <1>1, <1>2, <1>3 DEF InOrder
<1>5. PICK t : t = Tail(w)
  OBVIOUS
<1>6. /\ t \in Seq(Nat) /\ Len(t) = n - 1
      /\ \A k \in 1..n - 1 : t[k] = w[k + 1]
  BY <1>1, <1>2, <1>5, HeadTailProperties
<1>7. \A k \in 1..n - 1 : k + 1 \in 1..n /\ b + (k + 1) = (b + 1) + k
  BY <1>1
<1>8. \A k \in 1..n - 1 : t[k] = (b + 1) + k
  BY <1>1, <1>6, <1>7 DEF InOrder
<1>9. InOrder(t, b + 1)
  BY <1>6, <1>8 DEF InOrder
<1> QED BY <1>1, <1>4, <1>5, <1>6, <1>9

\* test_client_fd_data_cb.
LEMMA FdDataStep ==
  ASSUME HelloInv, NEW c \in Clients, FdData(c)
  PROVE  HelloInv'
<1>1. PICK x \in ClientStates : x = client[c]
  BY DEF HelloInv, Types
<1>2. PICK p \in Seq(Nat), i \in Nat : p = pipe[c] /\ i = idx[c]
  BY DEF HelloInv, Types
<1>3. PICK n : n = Min({Len(p), StreamLines - Len(x.stream)})
  OBVIOUS
<1>4. PICK w : w = x.stream \o SubSeq(p, 1, n)
  OBVIOUS
<1>5. PICK t : t = SubSeq(p, n + 1, Len(p))
  OBVIOUS
<1>6. PICK s : s = [x EXCEPT !.printed = Head(w), !.stream = Tail(w)]
  OBVIOUS
<1>7. /\ x.at = "idle" /\ n > 0 /\ pipe' = [pipe EXCEPT ![c] = t]
      /\ Becomes(c, s) /\ UNCHANGED <<serverVars, inbox, clients>>
  BY <1>1, <1>2, <1>3, <1>4, <1>5, <1>6 DEF FdData
<1>8. /\ OneOfEach(x, c, hello[c], inbox) /\ Local(x, c, hello[c], i, p)
  BY <1>1, <1>2 DEF HelloInv
<1>9. Lines(x, i, p) /\ InSteps(x)
  BY <1>7, <1>8 DEF Local
<1>u. PICK u \in Seq(Nat), b \in Nat : u = x.stream /\ b = x.printed
  BY DEF ClientStates
<1>l. PICK l \in Nat, a \in Nat : l = Len(u) /\ a = Len(p)
  OBVIOUS
<1>m. StreamLines \in Int /\ PipeLines \in Int
  BY HelloAssumption
<1>10. n \in Nat /\ n <= a /\ n <= StreamLines - l
  <2>1. PICK d \in Int : d = StreamLines - l
    BY <1>m
  <2>2. n \in Int /\ n <= a /\ n <= d
    <3>1. n = Min({a, d}) /\ a \in Int
      BY <1>3, <1>u, <1>l, <2>1
    <3> QED BY <2>1, <3>1, MinTwo
  <2> QED BY <1>7, <2>1, <2>2
<1>o. /\ a <= PipeLines /\ i = b + l + a /\ InOrder(u, b) /\ InOrder(p, b + l)
  BY <1>9, <1>u, <1>l DEF Lines
<1>r. /\ Head(w) = b + 1 /\ Tail(w) \in Seq(Nat) /\ Len(Tail(w)) = l + n - 1
      /\ InOrder(Tail(w), b + 1)
      /\ t \in Seq(Nat) /\ Len(t) = a - n /\ InOrder(t, (b + 1) + (l + n - 1))
  <2>o. n \in Nat /\ 0 < n /\ n <= a
    BY <1>7, <1>10
  <2>1. PICK f : f = SubSeq(p, 1, n)
    OBVIOUS
  <2>2. t = SubSeq(p, n + 1, a)
    BY <1>5, <1>l
  <2>3. PICK d \in Nat : d = b + l
    OBVIOUS
  <2>4. f \in Seq(Nat) /\ Len(f) = n /\ InOrder(f, d)
    <3>1. /\ SubSeq(p, 0 + 1, 0 + n) \in Seq(Nat) /\ Len(SubSeq(p, 0 + 1, 0 + n)) = n
          /\ InOrder(SubSeq(p, 0 + 1, 0 + n), d + 0)
      <4>1. d \in Nat /\ InOrder(p, d) /\ 0 + n <= Len(p)
        BY <1>l, <1>o, <2>o, <2>3
      <4> QED BY ONLY <2>o, <4>1, p \in Seq(Nat), 0 \in Nat, PieceInOrder
    <3>2. 0 + 1 = 1 /\ 0 + n = n /\ d + 0 = d
      BY ONLY <2>o, d \in Nat
    <3> QED BY <2>1, <3>1, <3>2
  <2>5. t \in Seq(Nat) /\ Len(t) = a - n /\ InOrder(t, d + n)
    <3>1. PICK m \in Nat : m = a - n /\ n + m = a
      <4>1. a - n \in Nat /\ n + (a - n) = a
        BY <2>o
      <4> QED BY <4>1
    <3>2. /\ SubSeq(p, n + 1, n + m) \in Seq(Nat) /\ Len(SubSeq(p, n + 1, n + m)) = m
          /\ InOrder(SubSeq(p, n + 1, n + m), d + n)
      <4>1. d \in Nat /\ InOrder(p, d) /\ n + m <= Len(p)
        BY <1>l, <1>o, <2>3, <3>1
      <4> QED BY ONLY <2>o, <4>1, p \in Seq(Nat), m \in Nat, PieceInOrder
    <3> QED BY <2>2, <3>1, <3>2
  <2>6. d + n = (b + 1) + (l + n - 1)
    BY <2>o, <2>3
  <2>7. w = u \o f
    BY <1>4, <1>u, <2>1
  <2>8. w \in Seq(Nat) /\ Len(w) = l + n /\ InOrder(w, b)
    <3>1. u \o f \in Seq(Nat) /\ Len(u \o f) = l + Len(f) /\ InOrder(u \o f, b)
      <4>1. u \in Seq(Nat) /\ f \in Seq(Nat) /\ InOrder(f, b + l)
        BY <2>3, <2>4
      <4> QED BY ONLY <1>l, <1>o, <4>1, b \in Nat, l \in Nat, JoinInOrder
    <3> QED BY <2>4, <2>7, <3>1
  <2>9. /\ Head(w) = b + 1 /\ Tail(w) \in Seq(Nat) /\ Len(Tail(w)) = l + n - 1
        /\ InOrder(Tail(w), b + 1)
    <3>1. Len(w) > 0
      BY <2>o, <2>8
    <3>2. /\ Head(w) = b + 1 /\ Tail(w) \in Seq(Nat) /\ Len(Tail(w)) = Len(w) - 1
          /\ InOrder(Tail(w), b + 1)
      BY ONLY <2>8, <3>1, b \in Nat, TailInOrder
    <3> QED BY ONLY <2>o, <2>8, <3>2, l \in Nat
  <2> QED BY <2>1, <2>2, <2>5, <2>6, <2>7, <2>9
<1>11. s.printed = Head(w) /\ s.stream = Tail(w)
  BY <1>6 DEF ClientStates
<1>12. /\ s.stream \in Seq(Nat) /\ s.printed \in Nat /\ t \in Seq(Nat)
       /\ Lines(s, i, t)
  <2>1. a - n <= PipeLines /\ l + n - 1 < StreamLines
        /\ i = (b + 1) + (l + n - 1) + (a - n) /\ b + 1 \in Nat
    BY <1>m, <1>10, <1>o
  <2> QED BY <1>r, <1>11, <2>1 DEF Lines
<1>13. /\ s \in ClientStates /\ s.at = x.at /\ s.waiting = x.waiting /\ s.left = x.left
       /\ s.replies = x.replies /\ s.pending = x.pending /\ s.count_to = x.count_to
       /\ s.count_progression = x.count_progression
  BY <1>6, <1>11, <1>12 DEF ClientStates
<1>14. /\ up' = up /\ watched' = watched /\ hello' = hello /\ idx' = idx
       /\ writing' = writing /\ clients' = clients /\ inbox' = inbox
  BY <1>7 DEF serverVars
<1>15. /\ client' \in [Clients -> ClientStates] /\ client'[c] = s
       /\ \A d \in Clients : d # c => client'[d] = client[d]
  BY <1>7, <1>13, Becoming DEF HelloInv
<1>16. /\ pipe' \in [Clients -> Seq(Nat)] /\ pipe'[c] = t
       /\ \A d \in Clients : d # c => pipe'[d] = pipe[d]
  BY <1>7, <1>12 DEF HelloInv, Types
<1>17. Types' /\ BlockedOpen' /\ FromStarted(inbox)' /\ FromStarted(inbox')
  BY <1>14, <1>15, <1>16 DEF HelloInv, Types, BlockedOpen, FromStarted
<1>18. OneOfEach(s, c, hello[c], inbox)
  <2>1. ~x.waiting
    BY <1>7, <1>8 DEF OneOfEach, Call
  <2> QED BY <1>7, <1>8, <1>13, <2>1, StaysFree
<1>19. OneOfEach(client[c], c, hello[c], inbox)'
  BY <1>14, <1>15, <1>18
<1>20. Local(client[c], c, hello[c], idx[c], pipe[c])'
  <2>1. InSteps(s)
    BY <1>9, <1>13 DEF InSteps
  <2> QED BY <1>2, <1>7, <1>8, <1>12, <1>13, <1>14, <1>15, <1>16, <2>1 DEF Local
<1>21. clients \in Nat
  BY DEF HelloInv, Types
<1> QED BY <1>14, <1>15, <1>16, <1>17, <1>19, <1>20, <1>21, SameInbox, OneClient

\* A state a client starts in and ends in.
LEMMA StartedIs ==
  /\ Started \in ClientStates /\ Off \in ClientStates /\ Off.at = "off"
  /\ ~Started.waiting /\ ~Off.waiting /\ Started.replies = << >> /\ Off.replies = << >>
  /\ Started.stream = << >> /\ Off.stream = << >> /\ Started.printed = 0
  /\ Started.pending = "none" /\ Started.at = "watch"
  /\ InSteps(Started) /\ InSteps(Off)
<1>1. << >> \in Seq(Nat) /\ << >> \in Seq({"watch", "notify", "count", "fd", "error"})
  OBVIOUS
<1>2. CountStart \in Int /\ PROGRESSION \in Int /\ 0 \in 0..Notifies /\ 0 \in Nat
  BY HelloAssumption
<1>3. Started \in ClientStates
  BY <1>1, <1>2 DEF Started, ClientStates
<1>4. Off \in ClientStates
  BY <1>3 DEF Off, ClientStates
<1>5. /\ Off.count_to = CountStart /\ Off.count_progression = PROGRESSION
      /\ Started.count_to = CountStart /\ Started.count_progression = PROGRESSION
  BY DEF Off, Started
<1>6. \E k, m \in Nat : /\ CountStart = COUNT_TO_MIN + k * PROGRESSION
                        /\ COUNT_TO_MAX = CountStart + m * PROGRESSION
  <2>1. PICK P \in Nat \ {0}, lo \in Nat, hi \in Nat, n \in Nat :
          /\ P = PROGRESSION /\ lo = COUNT_TO_MIN /\ hi = COUNT_TO_MAX /\ n = CountStart
          /\ lo <= n /\ n <= hi /\ (n - lo) % P = 0 /\ (hi - n) % P = 0
    BY HelloAssumption
  <2>2. ASSUME NEW y \in Nat, y % P = 0 PROVE \E k \in Nat : y = k * P
    <3>o. P \in Int /\ P > 0 /\ y \in Int /\ y >= 0
      OBVIOUS
    <3>1. y = P * (y \div P) + (y % P) /\ y \div P \in Nat
      BY <3>o
    <3>2. PICK k \in Nat : k = y \div P
      BY <3>1
    <3>3. y = P * k /\ P * k = k * P
      BY <2>2, <3>1, <3>2
    <3> QED BY <3>3
  <2>3. PICK k, m \in Nat : n - lo = k * P /\ hi - n = m * P
    <3>1. PICK y \in Nat, z \in Nat : y = n - lo /\ z = hi - n
      <4>1. n - lo \in Nat /\ hi - n \in Nat
        BY <2>1
      <4> QED BY <4>1
    <3>2. y % P = 0 /\ z % P = 0
      BY <2>1, <3>1
    <3>3. PICK k \in Nat : y = k * P
      BY <2>2, <3>2
    <3>4. PICK m \in Nat : z = m * P
      BY <2>2, <3>2
    <3> QED BY ONLY <3>1, <3>3, <3>4
  <2>4. n = lo + k * P /\ hi = n + m * P
    <3>1. k * P \in Int /\ m * P \in Int
      OBVIOUS
    <3> QED BY <2>3, <3>1
  <2> QED BY <2>1, <2>4
<1>7. InSteps(Started) /\ InSteps(Off)
  BY <1>5, <1>6 DEF InSteps
<1> QED BY <1>1, <1>3, <1>4, <1>7 DEF Started, Off

\* client_main starts.
LEMMA ClientStartStep ==
  ASSUME HelloInv, NEW c \in Clients, ClientStart(c)
  PROVE  HelloInv'
<1>1. PICK s \in ClientStates : s = Started
  BY StartedIs
<1>2. /\ clients' = c /\ c = clients + 1 /\ Becomes(c, s)
      /\ UNCHANGED <<serverVars, inbox, pipe>>
  BY <1>1 DEF ClientStart
<1>3. clients \in Nat /\ c \in 1..MaxClients /\ clients' \in 0..MaxClients
  BY <1>2 DEF HelloInv, Types, Clients
<1>4. /\ up' = up /\ watched' = watched /\ hello' = hello /\ idx' = idx
      /\ writing' = writing /\ pipe' = pipe /\ inbox' = inbox
  BY <1>2 DEF serverVars
<1>5. /\ client' \in [Clients -> ClientStates] /\ client'[c] = s
      /\ \A d \in Clients : d # c => client'[d] = client[d]
  BY <1>2, Becoming DEF HelloInv
<1>6. Types' /\ BlockedOpen' /\ FromStarted(inbox')
  BY <1>3, <1>4, <1>5 DEF HelloInv, Types, BlockedOpen, FromStarted
<1>7. FromStarted(inbox)'
  <2>1. inbox \in Seq(Requests) /\ FromStarted(inbox)
    BY DEF HelloInv, Types
  <2>2. \A k \in 1..Len(inbox) : inbox[k].from \in Nat
    <3>1. \A k \in 1..Len(inbox) : inbox[k] \in Requests
      BY <2>1
    <3>2. \A r \in Requests : r.from \in Nat
      BY DEF Requests, Clients
    <3> QED BY <3>1, <3>2
  <2> QED BY <1>2, <1>3, <1>4, <2>1, <2>2 DEF FromStarted
<1>8. \A k \in 1..Len(inbox) : inbox[k].from # c
  BY <1>2, <1>3 DEF HelloInv, FromStarted
<1>9. OneOfEach(client[c], c, hello[c], inbox)'
  <2>1. \A k \in 1..Len(inbox) : ~Asks(inbox[k], c, s.at) /\ ~SaysHello(inbox[k], c)
    BY <1>8 DEF Asks, SaysHello
  <2>2. Call(s, c, inbox)
    <3>1. ~s.waiting /\ s.replies = << >>
      BY <1>1, StartedIs
    <3> QED BY <2>1, <3>1, CallNone
  <2>3. HelloQueue(s, c, hello[c], inbox)
    BY <2>1 DEF HelloQueue
  <2> QED BY <1>4, <1>5, <2>2, <2>3 DEF OneOfEach
<1>10. Local(client[c], c, hello[c], idx[c], pipe[c])'
  <2>1. Local(client[c], c, hello[c], idx[c], pipe[c])
    BY DEF HelloInv
  <2>2. c > clients
    BY <1>2, <1>3
  <2>3. hello[c] = "none" /\ idx[c] = 0 /\ pipe[c] = << >> /\ idx[c] <= MaxLines
    BY <2>1, <2>2 DEF Local
  <2>4. /\ InSteps(s) /\ s.stream = << >> /\ s.printed = 0 /\ s.at = "watch"
    BY <1>1, StartedIs
  <2>5. PICK u, v : u = << >> /\ v = u /\ Len(u) = 0
    OBVIOUS
  <2>6. Lines(s, 0, u)
    <3>1. PipeLines \in Nat \ {0} /\ StreamLines \in Nat \ {0}
      BY HelloAssumption
    <3> QED BY <2>4, <2>5, <3>1 DEF Lines, InOrder
  <2>7. ~(c > c)
    BY <1>3
  <2> QED BY <1>2, <1>4, <1>5, <2>3, <2>4, <2>5, <2>6, <2>7 DEF Local
<1>11. clients <= clients'
  BY <1>2, <1>3
<1> QED BY <1>4, <1>5, <1>6, <1>7, <1>9, <1>10, <1>11, SameInbox, OneClient

\* A client ends.
LEMMA ClientStopStep ==
  ASSUME HelloInv, NEW c \in Clients, ClientStop(c)
  PROVE  HelloInv'
<1>1. PICK s \in ClientStates : s = Off
  BY StartedIs
<1>2. /\ client[c].at # "off" /\ Becomes(c, s) /\ pipe' = [pipe EXCEPT ![c] = << >>]
      /\ watched' = watched \ {c} /\ inbox' = WithoutCaller(c)
      /\ UNCHANGED <<up, hello, idx, writing, clients>>
  BY <1>1 DEF ClientStop
<1>3. /\ client' \in [Clients -> ClientStates] /\ client'[c] = s
      /\ \A d \in Clients : d # c => client'[d] = client[d]
  BY <1>2, Becoming DEF HelloInv
<1>4. PICK v \in Seq(Nat) : v = << >>
  <2>1. << >> \in Seq(Nat)
    OBVIOUS
  <2> QED BY <2>1
<1>5. /\ pipe' \in [Clients -> Seq(Nat)] /\ pipe'[c] = v
      /\ \A d \in Clients : d # c => pipe'[d] = pipe[d]
  BY <1>2, <1>4 DEF HelloInv, Types
<1>6. PICK t : t = inbox'
  OBVIOUS
<1>7. /\ t \in Seq(Requests) /\ Part(t, inbox)
      /\ \A k \in 1..Len(t) : t[k].from = c => t[k].method \in {"watch", "hello"}
  BY <1>2, <1>6, WithoutCallerIs
<1>8. FromStarted(t) /\ \A d \in Clients : OneOfEach(client[d], d, hello[d], t)
  BY <1>7, PartOfInbox
<1>9. Types' /\ BlockedOpen' /\ FromStarted(inbox') /\ FromStarted(inbox)'
  BY <1>2, <1>3, <1>5, <1>6, <1>7, <1>8 DEF HelloInv, Types, BlockedOpen, FromStarted
<1>10. /\ s.at = "off" /\ ~s.waiting /\ s.replies = << >> /\ s.stream = << >>
       /\ InSteps(s)
  BY <1>1, StartedIs
<1>11. OneOfEach(s, c, hello[c], t)
  <2>1. \A k \in 1..Len(t) : ~Asks(t[k], c, s.at)
    BY <1>7, <1>10 DEF Asks
  <2>2. Call(s, c, t)
    BY <1>10, <2>1, CallNone
  <2>3. HelloQueue(client[c], c, hello[c], t)
    BY <1>8 DEF OneOfEach
  <2>4. HelloQueue(s, c, hello[c], t)
    BY <1>10, <2>3 DEF HelloQueue
  <2> QED BY <2>2, <2>4 DEF OneOfEach
<1>12. OneOfEach(client[c], c, hello[c], inbox)'
  BY <1>2, <1>3, <1>6, <1>11
<1>13. Local(client[c], c, hello[c], idx[c], pipe[c])'
  <2>1. Local(client[c], c, hello[c], idx[c], pipe[c])
    BY DEF HelloInv
  <2> QED BY <1>2, <1>3, <1>4, <1>5, <1>10, <2>1 DEF Local
<1>14. clients \in Nat
  BY DEF HelloInv, Types
<1> QED BY <1>2, <1>3, <1>5, <1>6, <1>8, <1>9, <1>12, <1>13, <1>14, OneClient

\* An answer goes to client c, if it is there; the rest of its state stays.
AnswersOf == {"watch", "notify", "count", "fd", "error"}

Answered(x, s, a) ==
  /\ s.at = x.at /\ s.waiting = x.waiting /\ s.left = x.left /\ s.pending = x.pending
  /\ s.stream = x.stream /\ s.printed = x.printed /\ s.count_to = x.count_to
  /\ s.count_progression = x.count_progression
  /\ \/ x.at = "off" /\ s = x
     \/ x.at # "off" /\ s.replies = Append(x.replies, a)

\* That is what Reply does.
LEMMA ReplyIs ==
  ASSUME HelloInv, NEW c \in Clients, NEW a \in AnswersOf, Reply(c, a)
  PROVE  /\ client' \in [Clients -> ClientStates]
         /\ Answered(client[c], client'[c], a)
         /\ \A d \in Clients : d # c => client'[d] = client[d]
<1>1. PICK x \in ClientStates : x = client[c]
  BY DEF HelloInv, Types
<1>2. CASE x.at = "off"
  <2>1. client' = client
    BY <1>1, <1>2 DEF Reply, Present
  <2> QED BY <1>1, <1>2, <2>1 DEF HelloInv, Types, Answered
<1>3. CASE x.at # "off"
  <2>1. PICK w : w = Append(x.replies, a)
    OBVIOUS
  <2>2. w \in Seq({"watch", "notify", "count", "fd", "error"})
    <3>1. x.replies \in Seq({"watch", "notify", "count", "fd", "error"})
      BY DEF ClientStates
    <3> QED BY <2>1, <3>1 DEF AnswersOf
  <2>3. PICK s : s = [x EXCEPT !.replies = w]
    OBVIOUS
  <2>4. /\ s \in ClientStates /\ s.replies = w /\ s.at = x.at /\ s.waiting = x.waiting
        /\ s.left = x.left /\ s.pending = x.pending /\ s.stream = x.stream
        /\ s.printed = x.printed /\ s.count_to = x.count_to
        /\ s.count_progression = x.count_progression
    BY <2>2, <2>3 DEF ClientStates
  <2>5. Becomes(c, s)
    BY <1>1, <1>3, <2>1, <2>3 DEF Reply, Present
  <2>6. /\ client' \in [Clients -> ClientStates] /\ client'[c] = s
        /\ \A d \in Clients : d # c => client'[d] = client[d]
    BY <2>4, <2>5, Becoming DEF HelloInv
  <2> QED BY <1>1, <1>3, <2>1, <2>4, <2>6 DEF Answered
<1> QED BY <1>2, <1>3

\* An answer to hello disturbs no call.
LEMMA HelloAnswered ==
  ASSUME NEW x \in ClientStates, NEW c, NEW q, Call(x, c, q),
         NEW a \in HelloAnswers, NEW s, Answered(x, s, a)
  PROVE  Call(s, c, q)
<1>1. CASE s = x
  BY <1>1
<1>2. CASE s.replies = Append(x.replies, a)
  <2>1. x.replies \in Seq({"watch", "notify", "count", "fd", "error"})
    BY DEF ClientStates
  <2>2. PICK n \in Nat : n = Len(x.replies)
    BY <2>1
  <2>3. PICK w : w = s.replies
    OBVIOUS
  <2>4. Len(w) = n + 1 /\ w[n + 1] = a /\ \A k \in 1..n : w[k] = x.replies[k]
    <3>1. PICK v \in Seq({"watch", "notify", "count", "fd", "error"}) : v = x.replies
      BY <2>1
    <3>2. /\ Len(Append(v, a)) = Len(v) + 1 /\ Append(v, a)[Len(v) + 1] = a
          /\ \A k \in 1..Len(v) : Append(v, a)[k] = v[k]
      OBVIOUS
    <3> QED BY <1>2, <2>2, <2>3, <3>1, <3>2
  <2>5. \A k \in 1..(n + 1) : k = n + 1 \/ k \in 1..n
    OBVIOUS
  <2>6. \A k \in 1..Len(w) : w[k] \notin HelloAnswers => k \in 1..n
    BY <2>4, <2>5
  <2>7. \A k \in 1..Len(q) : Asks(q[k], c, s.at) =>
          \A j \in 1..Len(w) : w[j] \in HelloAnswers
    <3>1. \A k \in 1..Len(q) : Asks(q[k], c, s.at) =>
            \A j \in 1..n : x.replies[j] \in HelloAnswers
      BY <2>2 DEF Call, Answered
    <3> QED BY <2>4, <2>6, <3>1
  <2>8. \A k \in 1..Len(w) : w[k] \notin HelloAnswers =>
          /\ s.waiting /\ w[k] = s.at
          /\ \A j \in 1..Len(w) : w[j] \notin HelloAnswers => j = k
    <3>1. \A k \in 1..n : x.replies[k] \notin HelloAnswers =>
            /\ s.waiting /\ x.replies[k] = s.at
            /\ \A j \in 1..n : x.replies[j] \notin HelloAnswers => j = k
      BY <2>2 DEF Call, Answered
    <3> QED BY <2>4, <2>6, <3>1
  <2>9. \A k \in 1..Len(q) : Asks(q[k], c, s.at) =>
          /\ s.waiting /\ q[k].method = s.at
          /\ \A j \in 1..Len(q) : Asks(q[j], c, s.at) => j = k
    BY DEF Call, Answered
  <2>10. s.waiting => /\ s.at \in {"watch", "notify", "count"}
                      /\ s.at = "notify" => s.left > 0
    BY DEF Call, Answered
  <2> QED BY <2>3, <2>7, <2>8, <2>9, <2>10 DEF Call
<1> QED BY <1>1, <1>2 DEF Answered

\* The request served was the call client c is in: its answer takes its place.
LEMMA CallAnswered ==
  ASSUME NEW x \in ClientStates, NEW c, NEW q \in Seq(Requests), q # << >>,
         Call(x, c, q), NEW t, t = Tail(q), NEW r, r = q[1], Asks(r, c, x.at),
         NEW s, Answered(x, s, r.method)
  PROVE  Call(s, c, t)
<1>1. PICK m \in Nat : /\ Len(q) = m + 1 /\ Len(t) = m
                       /\ \A k \in 1..m : t[k] = q[k + 1]
  <2>1. Len(Tail(q)) \in Nat /\ Len(q) = Len(Tail(q)) + 1
    OBVIOUS
  <2>2. \A k \in 1..Len(Tail(q)) : Tail(q)[k] = q[k + 1]
    OBVIOUS
  <2> QED BY <2>1, <2>2
<1>2. 1 \in 1..(m + 1) /\ \A k \in 1..m : k + 1 \in 1..(m + 1) /\ k + 1 # 1
  OBVIOUS
<1>3. /\ x.waiting /\ r.method = x.at
      /\ \A j \in 1..(m + 1) : Asks(q[j], c, x.at) => j = 1
      /\ \A j \in 1..Len(x.replies) : x.replies[j] \in HelloAnswers
  BY <1>1, <1>2 DEF Call
<1>4. x.at \in {"watch", "notify", "count"} /\ (x.at = "notify" => x.left > 0)
  BY <1>3 DEF Call
<1>5. \A k \in 1..m : ~Asks(t[k], c, x.at)
  BY <1>1, <1>2, <1>3
<1>6. s.replies = Append(x.replies, x.at)
  BY <1>3, <1>4 DEF Answered
<1>7. PICK w : w = s.replies
  OBVIOUS
<1>n. PICK n \in Nat : n = Len(x.replies)
  <2>1. x.replies \in Seq({"watch", "notify", "count", "fd", "error"})
    BY DEF ClientStates
  <2> QED BY <2>1
<1>8. Len(w) = n + 1 /\ w[n + 1] = x.at /\ \A k \in 1..n : w[k] = x.replies[k]
  <2>1. x.replies \in Seq({"watch", "notify", "count", "fd", "error"})
    BY DEF ClientStates
  <2>2. PICK v \in Seq({"watch", "notify", "count", "fd", "error"}) : v = x.replies
    BY <2>1
  <2>3. PICK a \in {"watch", "notify", "count", "fd", "error"} : a = x.at
    BY <1>4
  <2>4. /\ Len(Append(v, a)) = Len(v) + 1 /\ Append(v, a)[Len(v) + 1] = a
        /\ \A k \in 1..Len(v) : Append(v, a)[k] = v[k]
    OBVIOUS
  <2> QED BY <1>6, <1>7, <1>n, <2>2, <2>3, <2>4
<1>9. \A k \in 1..(n + 1) : k = n + 1 \/ k \in 1..n
  OBVIOUS
<1>10. \A k \in 1..Len(w) : w[k] \notin HelloAnswers => k = n + 1
  BY <1>3, <1>n, <1>8, <1>9
<1>11. \A k \in 1..Len(w) : w[k] \notin HelloAnswers =>
         /\ s.waiting /\ w[k] = s.at
         /\ \A j \in 1..Len(w) : w[j] \notin HelloAnswers => j = k
  BY <1>3, <1>8, <1>10 DEF Answered
<1>12. \A k \in 1..Len(t) : ~Asks(t[k], c, s.at)
  BY <1>1, <1>5 DEF Answered
<1>13. s.waiting => /\ s.at \in {"watch", "notify", "count"}
                    /\ s.at = "notify" => s.left > 0
  BY <1>4 DEF Answered
<1> QED BY <1>7, <1>11, <1>12, <1>13 DEF Call

\* What an answer leaves of the rest.
LEMMA AnsweredLocal ==
  ASSUME NEW x, NEW s, NEW a, Answered(x, s, a), NEW c, NEW h, NEW i, NEW p,
         Local(x, c, h, i, p)
  PROVE  Local(s, c, h, i, p)
<1>1. Lines(x, i, p) => Lines(s, i, p)
  BY DEF Answered, Lines
<1>2. InSteps(s)
  BY DEF Answered, Local, InSteps
<1> QED BY <1>1, <1>2 DEF Answered, Local

\* test_watch, test_hello, and the methods that answer at once.
LEMMA ServeStep ==
  ASSUME HelloInv, Serve
  PROVE  HelloInv'
<1>1. PICK r \in Requests, c \in Clients : r = inbox[1] /\ r = Head(inbox) /\ c = r.from
  <2>1. inbox \in Seq(Requests) /\ inbox # << >>
    BY DEF HelloInv, Types, Serve
  <2>2. Head(inbox) \in Requests /\ Head(inbox) = inbox[1]
    BY <2>1
  <2> QED BY <2>2 DEF Requests
<1>2. PICK t : t = Tail(inbox)
  OBVIOUS
<1>3. /\ inbox \in Seq(Requests) /\ inbox # << >> /\ inbox' = t /\ writing = 0
      /\ UNCHANGED <<up, idx, writing, clients, pipe>>
  BY <1>2 DEF HelloInv, Types, Serve, Running
<1>4. t \in Seq(Requests) /\ Part(t, inbox)
  BY <1>2, <1>3, TailIsPart
<1>5. FromStarted(t) /\ \A d \in Clients : OneOfEach(client[d], d, hello[d], t)
  BY <1>4, PartOfInbox
<1>6. PICK x \in ClientStates : x = client[c]
  BY DEF HelloInv, Types
<1>7. /\ Call(x, c, inbox) /\ HelloQueue(x, c, hello[c], inbox)
      /\ Call(x, c, t) /\ HelloQueue(x, c, hello[c], t)
      /\ Local(x, c, hello[c], idx[c], pipe[c])
  BY <1>5, <1>6 DEF HelloInv, OneOfEach
<1>8. 1 \in 1..Len(inbox)
  BY <1>3
<1>9. clients \in Nat /\ c \in Nat /\ c <= clients
  BY <1>1, <1>8 DEF HelloInv, Types, FromStarted, Clients
<1>10. BlockedOpen'
  BY <1>3 DEF BlockedOpen
<1>11. ASSUME watched' \subseteq Clients, hello' = hello, NEW a \in AnswersOf, Reply(c, a),
              Call(client'[c], c, t)
       PROVE  HelloInv'
  <2>1. /\ client' \in [Clients -> ClientStates] /\ Answered(x, client'[c], a)
        /\ \A d \in Clients : d # c => client'[d] = client[d]
    BY <1>6, <1>11, ReplyIs
  <2>2. Types' /\ FromStarted(inbox)'
    BY <1>3, <1>4, <1>5, <1>11, <2>1 DEF HelloInv, Types, FromStarted
  <2>3. HelloQueue(client'[c], c, hello[c], t)
    BY <1>7, <2>1 DEF Answered, HelloQueue
  <2>4. OneOfEach(client[c], c, hello[c], inbox)'
    BY <1>3, <1>11, <2>3 DEF OneOfEach
  <2>5. Local(client'[c], c, hello[c], idx[c], pipe[c])
    BY <1>7, <2>1, AnsweredLocal
  <2>6. Local(client[c], c, hello[c], idx[c], pipe[c])'
    BY <1>3, <1>11, <2>5 DEF Local
  <2> QED BY <1>3, <1>5, <1>9, <1>10, <1>11, <2>1, <2>2, <2>4, <2>6, OneClient
<1>12. ASSUME watched' \subseteq Clients, client' = client, hello' = hello PROVE HelloInv'
  <2>1. Types' /\ FromStarted(inbox)'
    BY <1>3, <1>4, <1>5, <1>12 DEF HelloInv, Types, FromStarted
  <2>2. /\ OneOfEach(client[c], c, hello[c], inbox)'
        /\ Local(client[c], c, hello[c], idx[c], pipe[c])'
    BY <1>3, <1>5, <1>12 DEF HelloInv, Local
  <2> QED BY <1>3, <1>5, <1>9, <1>10, <1>12, <2>1, <2>2, OneClient
<1>13. CASE r.method = "watch" /\ TestWatch(c)
  <2>1. watched' \subseteq Clients /\ hello' = hello
    BY <1>13 DEF HelloInv, Types, TestWatch
  <2>2. CASE x.at = "watch"
    <3>1. Reply(c, "watch") /\ "watch" \in AnswersOf
      BY <1>6, <1>13, <2>2 DEF TestWatch, AnswersOf
    <3>2. Answered(x, client'[c], "watch") /\ Asks(r, c, x.at)
      BY <1>1, <1>6, <1>13, <2>2, <3>1, ReplyIs DEF Asks
    <3>3. Call(client'[c], c, t)
      BY <1>1, <1>2, <1>3, <1>7, <1>13, <3>2, CallAnswered
    <3> QED BY <1>11, <2>1, <3>1, <3>3
  <2>3. CASE x.at # "watch"
    <3>1. client' = client
      BY <1>6, <1>13, <2>3 DEF TestWatch
    <3> QED BY <1>12, <2>1, <3>1
  <2> QED BY <2>2, <2>3
<1>14. CASE r.method = "hello" /\ TestHello(c)
  <2>1. watched' \subseteq Clients
    BY <1>14 DEF HelloInv, Types, TestHello
  <2>2. /\ hello[c] = "none" /\ (x.at = "off" \/ x.pending # "none")
        /\ \A j \in 1..Len(inbox) : SaysHello(inbox[j], c) => j = 1
    BY <1>1, <1>7, <1>8, <1>14 DEF HelloQueue, SaysHello
  <2>3. CASE hello' = [hello EXCEPT ![c] = "deferred"] /\ UNCHANGED client
    <3>1. /\ hello' \in [Clients -> HelloStates] /\ hello'[c] = "deferred"
          /\ \A d \in Clients : d # c => hello'[d] = hello[d]
      BY <2>3 DEF HelloInv, Types, HelloStates
    <3>2. Types' /\ FromStarted(inbox)'
      BY <1>3, <1>4, <1>5, <2>1, <2>3, <3>1 DEF HelloInv, Types, FromStarted
    <3>3. \A k \in 1..Len(t) : ~SaysHello(t[k], c)
      <4>1. Len(t) \in Nat /\ Len(inbox) = Len(t) + 1
        BY <1>2, <1>3
      <4>2. \A k \in 1..Len(t) : t[k] = inbox[k + 1]
        BY <1>2, <1>3
      <4>3. \A k \in 1..Len(t) : k + 1 \in 1..Len(inbox) /\ k + 1 # 1
        BY <4>1
      <4> QED BY <2>2, <4>2, <4>3
    <3>4. HelloQueue(x, c, "deferred", t)
      BY <3>3 DEF HelloQueue
    <3>5. OneOfEach(client[c], c, hello[c], inbox)'
      BY <1>3, <1>6, <1>7, <2>3, <3>1, <3>4 DEF OneOfEach
    <3>6. Local(x, c, "deferred", idx[c], pipe[c])
      <4>1. ~(c > clients)
        BY <1>9
      <4> QED BY <1>7, <2>2, <4>1 DEF Local
    <3>7. Local(client[c], c, hello[c], idx[c], pipe[c])'
      BY <1>3, <1>6, <2>3, <3>1, <3>6 DEF Local
    <3> QED BY <1>3, <1>5, <1>9, <1>10, <2>3, <3>1, <3>2, <3>5, <3>7, OneClient
  <2>4. CASE Reply(c, "error") /\ UNCHANGED hello
    <3>1. "error" \in AnswersOf /\ "error" \in HelloAnswers
      BY DEF AnswersOf, HelloAnswers
    <3>2. Answered(x, client'[c], "error")
      BY <1>6, <2>4, <3>1, ReplyIs
    <3>3. Call(client'[c], c, t)
      BY <1>7, <3>1, <3>2, HelloAnswered
    <3> QED BY <1>11, <2>1, <2>4, <3>1, <3>3
  <2> QED BY <1>14, <2>3, <2>4 DEF TestHello
<1>15. CASE /\ r.method \in {"notify", "count"} /\ Reply(c, r.method)
            /\ UNCHANGED <<watched, hello>>
  <2>1. r.method \in AnswersOf /\ Asks(r, c, x.at)
    BY <1>1, <1>15 DEF AnswersOf, Asks
  <2>2. Answered(x, client'[c], r.method)
    BY <1>6, <1>15, <2>1, ReplyIs
  <2>3. Call(client'[c], c, t)
    BY <1>1, <1>2, <1>3, <1>7, <2>1, <2>2, CallAnswered
  <2>4. watched' \subseteq Clients
    BY <1>15 DEF HelloInv, Types
  <2> QED BY <1>11, <1>15, <2>1, <2>3, <2>4
<1>16. r.method \in {"watch", "notify", "count", "hello"}
  BY DEF Requests
<1> QED BY <1>1, <1>13, <1>14, <1>15, <1>16 DEF Serve

\* A line is written behind the others.
LEMMA AppendInOrder ==
  ASSUME NEW p \in Seq(Nat), NEW b \in Nat, InOrder(p, b), NEW e \in Nat,
         e = b + Len(p) + 1
  PROVE  /\ Append(p, e) \in Seq(Nat) /\ Len(Append(p, e)) = Len(p) + 1
         /\ InOrder(Append(p, e), b)
<1>1. PICK n \in Nat : n = Len(p)
  OBVIOUS
<1>2. PICK w : w = Append(p, e)
  OBVIOUS
<1>3. w \in Seq(Nat) /\ Len(w) = n + 1 /\ w[n + 1] = e /\ \A k \in 1..n : w[k] = p[k]
  BY <1>1, <1>2
<1>4. \A k \in 1..(n + 1) : k = n + 1 \/ k \in 1..n
  OBVIOUS
<1>5. e = b + (n + 1)
  BY <1>1
<1>6. \A k \in 1..(n + 1) : w[k] = b + k
  BY <1>1, <1>3, <1>4, <1>5 DEF InOrder
<1> QED BY <1>1, <1>2, <1>3, <1>6 DEF InOrder

\* The line of c that is due goes into its pipe.
LEMMA WriteLineIs ==
  ASSUME HelloInv, NEW c \in Clients, client[c].at # "off", Len(pipe[c]) < PipeLines,
         idx[c] < MaxLines, WriteLine(c)
  PROVE  /\ idx' \in [Clients -> Nat] /\ pipe' \in [Clients -> Seq(Nat)]
         /\ \A d \in Clients : d # c => idx'[d] = idx[d] /\ pipe'[d] = pipe[d]
         /\ idx'[c] <= MaxLines /\ Lines(client[c], idx'[c], pipe'[c])
<1>1. PICK x \in ClientStates : x = client[c]
  BY DEF HelloInv, Types
<1>2. PICK p \in Seq(Nat), i \in Nat : p = pipe[c] /\ i = idx[c]
  BY DEF HelloInv, Types
<1>3. PICK w : w = Append(p, i + 1)
  OBVIOUS
<1>4. /\ idx' = [idx EXCEPT ![c] = i + 1] /\ pipe' = [pipe EXCEPT ![c] = w]
  BY <1>2, <1>3 DEF WriteLine
<1>5. PICK u \in Seq(Nat), b \in Nat : u = x.stream /\ b = x.printed
  BY DEF ClientStates
<1>6. PICK l \in Nat, a \in Nat : l = Len(u) /\ a = Len(p)
  OBVIOUS
<1>7. PipeLines \in Int /\ MaxLines \in Int
  BY HelloAssumption
<1>8. Lines(x, i, p)
  BY <1>1, <1>2 DEF HelloInv, Local
<1>9. /\ a < PipeLines /\ l < StreamLines /\ i = b + l + a
      /\ InOrder(u, b) /\ InOrder(p, b + l)
  BY <1>2, <1>5, <1>6, <1>8 DEF Lines
<1>10. w \in Seq(Nat) /\ Len(w) = a + 1 /\ InOrder(w, b + l)
  <2>1. PICK d \in Nat, e \in Nat : d = b + l /\ e = i + 1
    OBVIOUS
  <2>2. e = d + Len(p) + 1 /\ InOrder(p, d)
    BY <1>6, <1>9, <2>1
  <2>3. /\ Append(p, e) \in Seq(Nat) /\ Len(Append(p, e)) = Len(p) + 1
        /\ InOrder(Append(p, e), d)
    BY ONLY <2>2, p \in Seq(Nat), d \in Nat, e \in Nat, AppendInOrder
  <2> QED BY <1>3, <1>6, <2>1, <2>3
<1>11. i + 1 = b + l + (a + 1) /\ a + 1 <= PipeLines /\ i + 1 <= MaxLines /\ i + 1 \in Nat
  BY <1>2, <1>7, <1>9
<1>12. Lines(x, i + 1, w)
  BY <1>5, <1>6, <1>9, <1>10, <1>11 DEF Lines
<1>13. /\ idx' \in [Clients -> Nat] /\ pipe' \in [Clients -> Seq(Nat)]
       /\ idx'[c] = i + 1 /\ pipe'[c] = w
       /\ \A d \in Clients : d # c => idx'[d] = idx[d] /\ pipe'[d] = pipe[d]
  BY <1>4, <1>10, <1>11 DEF HelloInv, Types
<1> QED BY <1>1, <1>11, <1>12, <1>13

\* The write() of a line, to a client that goes on as s.
LEMMA WriteIs ==
  ASSUME HelloInv, NEW c \in Clients, hello[c] \in {"deferred", "open"}, writing = 0,
         idx[c] < MaxLines, Write(c)
  PROVE  /\ hello' \in [Clients -> HelloStates] /\ idx' \in [Clients -> Nat]
         /\ pipe' \in [Clients -> Seq(Nat)] /\ writing' \in 0..MaxClients
         /\ BlockedOpen' /\ hello'[c] # "none"
         /\ \A d \in Clients : d # c => /\ hello'[d] = hello[d] /\ idx'[d] = idx[d]
                                        /\ pipe'[d] = pipe[d]
         /\ Local(client[c], c, hello'[c], idx'[c], pipe'[c])
<1>1. PICK x \in ClientStates : x = client[c]
  BY DEF HelloInv, Types
<1>2. Local(x, c, hello[c], idx[c], pipe[c])
  BY <1>1 DEF HelloInv
<1>3. (x.at = "off" \/ x.pending # "none") /\ ~(c > clients) /\ idx[c] <= MaxLines
  BY <1>2 DEF Local
<1>4. 0 \in 0..MaxClients /\ c \in 0..MaxClients /\ c # 0
  BY HelloAssumption DEF Clients
<1>5. CASE x.at = "off"
  <2>1. /\ hello' = [hello EXCEPT ![c] = "freed"] /\ idx' = idx /\ pipe' = pipe
        /\ writing' = 0
    BY <1>1, <1>5 DEF Write, HasReader, Present
  <2>2. /\ hello' \in [Clients -> HelloStates] /\ hello'[c] = "freed"
        /\ \A d \in Clients : d # c => hello'[d] = hello[d]
    BY <2>1 DEF HelloInv, Types, HelloStates
  <2>3. Local(x, c, "freed", idx[c], pipe[c])
    BY <1>2, <1>3, <1>5 DEF Local
  <2>4. BlockedOpen'
    BY <2>1 DEF BlockedOpen
  <2> QED BY <1>1, <1>4, <2>1, <2>2, <2>3, <2>4 DEF HelloInv, Types
<1>6. CASE x.at # "off"
  <2>1. hello' = [hello EXCEPT ![c] = "open"]
    BY <1>1, <1>6 DEF Write, HasReader, Present
  <2>2. /\ hello' \in [Clients -> HelloStates] /\ hello'[c] = "open"
        /\ \A d \in Clients : d # c => hello'[d] = hello[d]
    BY <2>1 DEF HelloInv, Types, HelloStates
  <2>3. ASSUME NEW i \in Nat, NEW p, i <= MaxLines, Lines(x, i, p)
        PROVE  Local(x, c, "open", i, p)
    BY <1>2, <1>3, <1>6, <2>3 DEF Local
  <2>4. CASE Len(pipe[c]) < PipeLines /\ WriteLine(c) /\ writing' = 0
    <3>1. /\ idx' \in [Clients -> Nat] /\ pipe' \in [Clients -> Seq(Nat)]
          /\ \A d \in Clients : d # c => idx'[d] = idx[d] /\ pipe'[d] = pipe[d]
          /\ idx'[c] <= MaxLines /\ Lines(client[c], idx'[c], pipe'[c])
      BY <1>1, <1>6, <2>4, WriteLineIs
    <3>2. Local(x, c, "open", idx'[c], pipe'[c])
      BY <1>1, <2>3, <3>1
    <3>3. BlockedOpen'
      BY <2>4 DEF BlockedOpen
    <3> QED BY <1>1, <1>4, <2>2, <2>4, <3>1, <3>2, <3>3
  <2>5. CASE writing' = c /\ idx' = idx /\ pipe' = pipe
    <3>1. Local(x, c, "open", idx[c], pipe[c])
      <4>1. Lines(x, idx[c], pipe[c]) /\ idx[c] \in Nat
        BY <1>2, <1>6 DEF HelloInv, Types, Local
      <4> QED BY <1>3, <2>3, <4>1
    <3>2. BlockedOpen'
      BY <2>2, <2>5 DEF BlockedOpen
    <3> QED BY <1>1, <1>4, <2>2, <2>5, <3>1, <3>2 DEF HelloInv, Types
  <2>6. \/ Len(pipe[c]) < PipeLines /\ WriteLine(c) /\ writing' = 0
        \/ writing' = c /\ idx' = idx /\ pipe' = pipe
    BY <1>1, <1>6 DEF Write, HasReader, Present
  <2> QED BY <2>4, <2>5, <2>6
<1> QED BY <1>5, <1>6

\* Once hello is answered no request to say it is on its way.
LEMMA HelloOver ==
  ASSUME NEW s, NEW x, NEW c, NEW h, NEW g, NEW q, HelloQueue(x, c, h, q), h # "none"
  PROVE  HelloQueue(s, c, g, q)
BY DEF HelloQueue

\* test_hello_reply.
LEMMA TestHelloReplyStep ==
  ASSUME HelloInv, NEW c \in Clients, TestHelloReply(c)
  PROVE  HelloInv'
<1>1. PICK x \in ClientStates : x = client[c]
  BY DEF HelloInv, Types
<1>2. /\ hello[c] = "deferred" /\ writing = 0
      /\ UNCHANGED <<up, inbox, watched, clients>>
  BY DEF TestHelloReply, Running
<1>3. /\ Call(x, c, inbox) /\ HelloQueue(x, c, hello[c], inbox)
      /\ Local(x, c, hello[c], idx[c], pipe[c])
  BY <1>1 DEF HelloInv, OneOfEach
<1>4. clients \in Nat
  BY DEF HelloInv, Types
<1>5. CASE Write(c) /\ Reply(c, "fd")
  <2>1. idx[c] < MaxLines
    <3>1. idx[c] = 0
      BY <1>2, <1>3 DEF Local
    <3>2. MaxLines \in Nat \ {0}
      BY HelloAssumption
    <3> QED BY <3>1, <3>2
  <2>2. /\ hello' \in [Clients -> HelloStates] /\ idx' \in [Clients -> Nat]
        /\ pipe' \in [Clients -> Seq(Nat)] /\ writing' \in 0..MaxClients
        /\ BlockedOpen' /\ hello'[c] # "none"
        /\ \A d \in Clients : d # c => /\ hello'[d] = hello[d] /\ idx'[d] = idx[d]
                                       /\ pipe'[d] = pipe[d]
        /\ Local(client[c], c, hello'[c], idx'[c], pipe'[c])
    BY <1>2, <1>5, <2>1, WriteIs
  <2>3. "fd" \in AnswersOf /\ "fd" \in HelloAnswers
    BY DEF AnswersOf, HelloAnswers
  <2>4. /\ client' \in [Clients -> ClientStates] /\ Answered(x, client'[c], "fd")
        /\ \A d \in Clients : d # c => client'[d] = client[d]
    BY <1>1, <1>5, <2>3, ReplyIs
  <2>5. Call(client'[c], c, inbox)
    BY <1>3, <2>3, <2>4, HelloAnswered
  <2>6. HelloQueue(client'[c], c, hello'[c], inbox)
    BY <1>2, <1>3, HelloOver
  <2>7. Local(client'[c], c, hello'[c], idx'[c], pipe'[c])
    BY <1>1, <2>2, <2>4, AnsweredLocal
  <2>8. Types' /\ FromStarted(inbox)'
    BY <1>2, <2>2, <2>4 DEF HelloInv, Types, FromStarted
  <2>9. OneOfEach(client[c], c, hello[c], inbox)'
    BY <1>2, <2>5, <2>6 DEF OneOfEach
  <2>10. Local(client[c], c, hello[c], idx[c], pipe[c])'
    BY <1>2, <2>7 DEF Local
  <2> QED BY <1>2, <1>4, <2>2, <2>4, <2>8, <2>9, <2>10, SameInbox, OneClient
<1>6. CASE /\ hello' = [hello EXCEPT ![c] = "stalled"]
           /\ UNCHANGED <<idx, pipe, writing, client>>
  <2>1. /\ hello' \in [Clients -> HelloStates] /\ hello'[c] = "stalled"
        /\ \A d \in Clients : d # c => hello'[d] = hello[d]
    BY <1>6 DEF HelloInv, Types, HelloStates
  <2>2. Types' /\ FromStarted(inbox)' /\ BlockedOpen'
    BY <1>2, <1>6, <2>1 DEF HelloInv, Types, FromStarted, BlockedOpen
  <2>3. HelloQueue(x, c, "stalled", inbox)
    BY <1>2, <1>3, HelloOver
  <2>4. OneOfEach(client[c], c, hello[c], inbox)'
    BY <1>1, <1>2, <1>3, <1>6, <2>1, <2>3 DEF OneOfEach
  <2>5. Local(x, c, "stalled", idx[c], pipe[c])
    BY <1>2, <1>3 DEF Local
  <2>6. Local(client[c], c, hello[c], idx[c], pipe[c])'
    BY <1>1, <1>2, <1>6, <2>1, <2>5 DEF Local
  <2> QED BY <1>2, <1>4, <1>6, <2>1, <2>2, <2>4, <2>6, SameInbox, OneClient
<1> QED BY <1>5, <1>6 DEF TestHelloReply

\* test_hello_fd_reply.
LEMMA TestHelloFdReplyStep ==
  ASSUME HelloInv, NEW c \in Clients, TestHelloFdReply(c)
  PROVE  HelloInv'
<1>1. PICK x \in ClientStates : x = client[c]
  BY DEF HelloInv, Types
<1>2. /\ hello[c] = "open" /\ writing = 0 /\ idx[c] < MaxLines /\ Write(c)
      /\ UNCHANGED <<up, inbox, watched, clients, client>>
  BY DEF TestHelloFdReply, Running
<1>3. /\ Call(x, c, inbox) /\ HelloQueue(x, c, hello[c], inbox)
  BY <1>1 DEF HelloInv, OneOfEach
<1>4. clients \in Nat
  BY DEF HelloInv, Types
<1>5. /\ hello' \in [Clients -> HelloStates] /\ idx' \in [Clients -> Nat]
      /\ pipe' \in [Clients -> Seq(Nat)] /\ writing' \in 0..MaxClients
      /\ BlockedOpen' /\ hello'[c] # "none"
      /\ \A d \in Clients : d # c => /\ hello'[d] = hello[d] /\ idx'[d] = idx[d]
                                     /\ pipe'[d] = pipe[d]
      /\ Local(client[c], c, hello'[c], idx'[c], pipe'[c])
  BY <1>2, WriteIs
<1>6. Types' /\ FromStarted(inbox)'
  BY <1>2, <1>5 DEF HelloInv, Types, FromStarted
<1>7. HelloQueue(x, c, hello'[c], inbox)
  BY <1>2, <1>3, HelloOver
<1>8. OneOfEach(client[c], c, hello[c], inbox)'
  BY <1>1, <1>2, <1>3, <1>7 DEF OneOfEach
<1>9. Local(client[c], c, hello[c], idx[c], pipe[c])'
  BY <1>2, <1>5 DEF Local
<1> QED BY <1>2, <1>4, <1>5, <1>6, <1>8, <1>9, SameInbox, OneClient

\* A blocked write goes on, or fails.
LEMMA WriteReturnsStep ==
  ASSUME HelloInv, WriteReturns
  PROVE  HelloInv'
<1>1. PICK c \in Clients : c = writing
  BY DEF HelloInv, Types, WriteReturns, Clients
<1>2. PICK x \in ClientStates : x = client[c]
  BY DEF HelloInv, Types
<1>3. /\ hello[c] = "open" /\ idx[c] < MaxLines /\ writing' = 0
      /\ UNCHANGED <<up, inbox, watched, clients, client>>
  BY <1>1 DEF HelloInv, BlockedOpen, WriteReturns
<1>4. /\ Call(x, c, inbox) /\ HelloQueue(x, c, hello[c], inbox)
      /\ Local(x, c, hello[c], idx[c], pipe[c])
  BY <1>2 DEF HelloInv, OneOfEach
<1>5. clients \in Nat /\ 0 \in 0..MaxClients
  BY HelloAssumption DEF HelloInv, Types
<1>6. BlockedOpen'
  BY <1>3 DEF BlockedOpen
<1>7. CASE x.at # "off"
  <2>1. Len(pipe[c]) < PipeLines /\ WriteLine(c) /\ hello' = hello
    BY <1>1, <1>2, <1>7 DEF WriteReturns, HasReader, Present
  <2>2. /\ idx' \in [Clients -> Nat] /\ pipe' \in [Clients -> Seq(Nat)]
        /\ \A d \in Clients : d # c => idx'[d] = idx[d] /\ pipe'[d] = pipe[d]
        /\ idx'[c] <= MaxLines /\ Lines(client[c], idx'[c], pipe'[c])
    BY <1>2, <1>3, <1>7, <2>1, WriteLineIs
  <2>3. Local(x, c, hello[c], idx'[c], pipe'[c])
    BY <1>2, <1>3, <1>4, <1>7, <2>2 DEF Local
  <2>4. Types' /\ FromStarted(inbox)'
    BY <1>3, <1>5, <2>1, <2>2 DEF HelloInv, Types, FromStarted
  <2>5. /\ OneOfEach(client[c], c, hello[c], inbox)'
        /\ Local(client[c], c, hello[c], idx[c], pipe[c])'
    BY <1>2, <1>3, <1>4, <2>1, <2>3 DEF OneOfEach, Local
  <2> QED BY <1>3, <1>5, <1>6, <2>1, <2>2, <2>4, <2>5, SameInbox, OneClient
<1>8. CASE x.at = "off"
  <2>1. hello' = [hello EXCEPT ![c] = "freed"] /\ idx' = idx /\ pipe' = pipe
    BY <1>1, <1>2, <1>8 DEF WriteReturns, HasReader, Present
  <2>2. /\ hello' \in [Clients -> HelloStates] /\ hello'[c] = "freed"
        /\ \A d \in Clients : d # c => hello'[d] = hello[d]
    BY <2>1 DEF HelloInv, Types, HelloStates
  <2>3. Types' /\ FromStarted(inbox)'
    BY <1>3, <1>5, <2>1, <2>2 DEF HelloInv, Types, FromStarted
  <2>4. HelloQueue(x, c, "freed", inbox)
    BY <1>3, <1>4, HelloOver
  <2>5. OneOfEach(client[c], c, hello[c], inbox)'
    BY <1>2, <1>3, <1>4, <2>2, <2>4 DEF OneOfEach
  <2>6. Local(x, c, "freed", idx[c], pipe[c])
    BY <1>3, <1>4 DEF Local
  <2>7. Local(client[c], c, hello[c], idx[c], pipe[c])'
    BY <1>2, <1>3, <2>1, <2>2, <2>6 DEF Local
  <2> QED BY <1>3, <1>5, <1>6, <2>1, <2>2, <2>3, <2>5, <2>7, SameInbox, OneClient
<1> QED BY <1>7, <1>8

\* The server ends.
LEMMA ServerStopStep ==
  ASSUME HelloInv, ServerStop
  PROVE  HelloInv'
<1>1. PICK t \in Seq(Requests) : t = << >>
  <2>1. << >> \in Seq(Requests)
    OBVIOUS
  <2> QED BY <2>1
<1>2. /\ up' = FALSE /\ inbox' = t /\ watched' = {} /\ writing' = 0
      /\ UNCHANGED <<hello, idx, clients, client, pipe>>
  BY <1>1 DEF ServerStop
<1>3. Part(t, inbox)
  BY <1>1, EmptyIsPart
<1>4. FromStarted(t) /\ \A d \in Clients : OneOfEach(client[d], d, hello[d], t)
  BY <1>3, PartOfInbox
<1>5. 0 \in 0..MaxClients
  BY HelloAssumption
<1>6. Types' /\ FromStarted(inbox)' /\ BlockedOpen'
  BY <1>2, <1>4, <1>5 DEF HelloInv, Types, FromStarted, BlockedOpen
<1>7. ASSUME NEW d \in Clients
      PROVE  /\ OneOfEach(client[d], d, hello[d], inbox)'
             /\ Local(client[d], d, hello[d], idx[d], pipe[d])'
  BY <1>2, <1>4 DEF HelloInv, Local
<1> QED BY <1>6, <1>7 DEF HelloInv

-----------------------------------------------------------------------------
\* The programs start in the invariant.
LEMMA HelloInvInit ==
  ASSUME Init
  PROVE  HelloInv
<1>1. PICK q \in Seq(Requests), p \in Seq(Nat) : q = << >> /\ p = << >> /\ Len(q) = 0
  <2>1. << >> \in Seq(Requests) /\ << >> \in Seq(Nat) /\ Len(<< >>) = 0
    OBVIOUS
  <2> QED BY <2>1
<1>2. /\ up = TRUE /\ inbox = q /\ watched = {} /\ hello = [c \in Clients |-> "none"]
      /\ idx = [c \in Clients |-> 0] /\ writing = 0 /\ clients = 0
      /\ client = [c \in Clients |-> Off] /\ pipe = [c \in Clients |-> p]
  BY <1>1 DEF Init
<1>3. 0 \in 0..MaxClients /\ 0 <= MaxLines
  BY HelloAssumption
<1>4. /\ Off \in ClientStates /\ Off.at = "off" /\ ~Off.waiting /\ Off.replies = << >>
      /\ Off.stream = << >> /\ InSteps(Off)
  BY StartedIs
<1>5. Types /\ FromStarted(inbox) /\ BlockedOpen
  BY <1>1, <1>2, <1>3, <1>4 DEF Types, FromStarted, BlockedOpen, HelloStates
<1>6. ASSUME NEW c \in Clients
      PROVE  /\ OneOfEach(client[c], c, hello[c], inbox)
             /\ Local(client[c], c, hello[c], idx[c], pipe[c])
  <2>1. Call(Off, c, q) /\ HelloQueue(Off, c, "none", q)
    BY <1>1, <1>4 DEF Call, HelloQueue
  <2>2. Local(Off, c, "none", 0, p)
    BY <1>1, <1>3, <1>4 DEF Local
  <2> QED BY <1>2, <2>1, <2>2 DEF OneOfEach
<1> QED BY <1>5, <1>6 DEF HelloInv

\* Every step keeps it.
LEMMA HelloInvNext ==
  ASSUME HelloInv, [Next]_vars
  PROVE  HelloInv'
<1>1. CASE UNCHANGED vars
  <2>1. /\ up' = up /\ inbox' = inbox /\ watched' = watched /\ hello' = hello
        /\ idx' = idx /\ writing' = writing /\ clients' = clients
        /\ client' = client /\ pipe' = pipe
    BY <1>1 DEF vars, serverVars
  <2> QED BY <2>1 DEF HelloInv, Types, FromStarted, BlockedOpen, Local
<1>2. ASSUME NEW c \in Clients, ClientNext(c) PROVE HelloInv'
  BY <1>2, ClientStartStep, ClientStopStep, InvokeWatchStep, UbusNotifyStep,
     NotifyEndStep, CallTimeoutStep, NotifyTimerStep, CountTimerStep,
     ClientReceiveStep, FdDataStep DEF ClientNext, ClientStep
<1>3. CASE ServerStep
  BY <1>3, ServeStep, WriteReturnsStep, TestHelloReplyStep DEF ServerStep
<1> QED BY <1>1, <1>2, <1>3, ServerStopStep, TestHelloFdReplyStep DEF Next

\* The invariant holds.
LEMMA HelloInvHolds == Spec => []HelloInv
<1>1. Init => HelloInv
  BY HelloInvInit
<1>2. HelloInv /\ [Next]_vars => HelloInv'
  BY HelloInvNext
<1> QED BY <1>1, <1>2, PTL DEF Spec

\* The types; no pipe holds more than it can, and a stream always has room for
\* another line.
THEOREM HelloTypes == Spec => []TypeOK
<1>1. HelloInv => TypeOK
  <2> SUFFICES ASSUME HelloInv PROVE TypeOK
    OBVIOUS
  <2>1. idx \in [Clients -> 0..MaxLines]
    <3>1. MaxLines \in Int /\ idx \in [Clients -> Nat]
      BY HelloAssumption DEF HelloInv, Types
    <3>2. \A c \in Clients : idx[c] \in Nat /\ idx[c] <= MaxLines
      BY <3>1 DEF HelloInv, Local
    <3>3. \A c \in Clients : idx[c] \in 0..MaxLines
      BY <3>1, <3>2
    <3> QED BY <3>1, <3>3
  <2>2. ASSUME NEW c \in Clients
        PROVE  /\ ClientOK(client[c]) /\ Len(pipe[c]) <= PipeLines
               /\ Len(client[c].stream) < StreamLines
    <3>1. PICK x \in ClientStates : x = client[c]
      BY DEF HelloInv, Types
    <3>2. ClientOK(x)
      BY DEF ClientStates, ClientOK
    <3>3. Local(x, c, hello[c], idx[c], pipe[c])
      BY <3>1 DEF HelloInv
    <3>4. CASE x.at = "off"
      <4>1. pipe[c] = << >> /\ x.stream = << >>
        BY <3>3, <3>4 DEF Local
      <4>2. 0 <= PipeLines /\ 0 < StreamLines
        BY HelloAssumption
      <4>3. PICK e : e = << >> /\ Len(e) = 0
        OBVIOUS
      <4> QED BY <3>1, <3>2, <4>1, <4>2, <4>3
    <3>5. CASE x.at # "off"
      BY <3>1, <3>2, <3>3, <3>5 DEF Local, Lines
    <3> QED BY <3>4, <3>5
  <2> QED BY <2>1, <2>2 DEF TypeOK, HelloInv, Types, HelloStates
<1> QED BY <1>1, HelloInvHolds, PTL

\* A client sees the lines written for it in order, none lost, none twice.
THEOREM LinesInOrderHolds == Spec => []LinesInOrder
<1>1. HelloInv => LinesInOrder
  <2> SUFFICES ASSUME HelloInv, NEW c \in Clients, client[c].at # "off"
               PROVE  LET printed == client[c].printed
                          rest    == client[c].stream \o pipe[c]
                      IN  /\ idx[c] = printed + Len(rest)
                          /\ \A k \in 1..Len(rest) : rest[k] = printed + k
    BY DEF LinesInOrder, Present
  <2>1. PICK x \in ClientStates : x = client[c]
    BY DEF HelloInv, Types
  <2>2. PICK u \in Seq(Nat), b \in Nat : u = x.stream /\ b = x.printed
    BY DEF ClientStates
  <2>3. PICK p \in Seq(Nat), i \in Nat : p = pipe[c] /\ i = idx[c]
    BY DEF HelloInv, Types
  <2>4. PICK l \in Nat : l = Len(u)
    OBVIOUS
  <2>5. Lines(x, i, p)
    BY <2>1, <2>3 DEF HelloInv, Local
  <2>6. i = b + l + Len(p) /\ InOrder(u, b) /\ InOrder(p, b + l)
    BY <2>2, <2>4, <2>5 DEF Lines
  <2>7. PICK w : w = u \o p
    OBVIOUS
  <2>8. Len(w) = l + Len(p) /\ InOrder(w, b)
    <3>1. u \in Seq(Nat) /\ p \in Seq(Nat) /\ b \in Nat /\ l \in Nat
      OBVIOUS
    <3>2. u \o p \in Seq(Nat) /\ Len(u \o p) = l + Len(p) /\ InOrder(u \o p, b)
      BY ONLY <2>4, <2>6, <3>1, JoinInOrder
    <3> QED BY <2>7, <3>2
  <2>9. i = b + Len(w)
    <3>1. PICK a \in Nat : a = Len(p)
      OBVIOUS
    <3> QED BY <2>6, <2>8, <3>1
  <2> QED BY <2>1, <2>2, <2>3, <2>7, <2>8, <2>9 DEF InOrder
<1> QED BY <1>1, HelloInvHolds, PTL

\* A client counts between its limits, and its string fits.
THEOREM CountInRangeHolds == Spec => []CountInRange
<1>1. HelloInv => CountInRange
  <2> SUFFICES ASSUME HelloInv, NEW c \in Clients
               PROVE  /\ client[c].count_to \in COUNT_TO_MIN..COUNT_TO_MAX
                      /\ Fits(client[c].count_to)
    BY DEF CountInRange, Present
  <2>1. PICK x \in ClientStates : x = client[c]
    BY DEF HelloInv, Types
  <2>2. InSteps(x)
    BY <2>1 DEF HelloInv, Local
  <2>3. PICK P \in Nat, lo \in Nat, hi \in Nat :
          P = PROGRESSION /\ lo = COUNT_TO_MIN /\ hi = COUNT_TO_MAX
    <3>1. PROGRESSION \in Nat /\ COUNT_TO_MIN \in Nat /\ COUNT_TO_MAX \in Nat
      BY HelloAssumption
    <3> QED BY <3>1
  <2>4. PICK n \in Int : n = x.count_to
    BY DEF ClientStates
  <2>5. PICK k \in Nat, m \in Nat : n = lo + k * P /\ hi = n + m * P
    BY <2>2, <2>3, <2>4 DEF InSteps
  <2>6. k * P \in Nat /\ m * P \in Nat
    OBVIOUS
  <2>7. n \in lo..hi /\ n \in Nat
    BY <2>5, <2>6
  <2>8. n < 1000 * 1000 * 1000 /\ 11 * n + 1 < Wrap
    <3>1. hi < 1000 * 1000 * 1000 /\ 11 * hi + 1 < Wrap /\ Wrap \in Int
      BY <2>3, HelloAssumption, WrapAssumption
    <3> QED BY <2>7, <3>1
  <2>9. Fits(n)
    BY <2>7, <2>8, CountFits
  <2> QED BY <2>1, <2>3, <2>4, <2>7, <2>9
<1> QED BY <1>1, HelloInvHolds, PTL

=============================================================================
