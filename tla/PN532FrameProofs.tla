-------------------------- MODULE PN532FrameProofs --------------------------
(***************************************************************************)
(* The bytes of a frame, for every packet whose length one byte can give,  *)
(* and what the sum in a frame tells apart.                                *)
(*                                                                         *)
(* DataSum is recursive.  What holds of it for every packet is proved by   *)
(* induction on the packet's length: that < is well founded on Nat gives   *)
(* every set of numbers a least one, and Induction follows for sets.       *)
(***************************************************************************)
EXTENDS PN532Frame, SequenceTheorems, WellFoundedInduction, TLAPS

\* Every set of numbers but {} has a least one.
LEMMA Least ==
  ASSUME NEW T \in SUBSET Nat, T # {}
  PROVE  \E x \in T : \A y \in T : ~(y < x)
<1> DEFINE R == OpToRel(<, Nat)
<1>1. IsWellFoundedOn(R, Nat)
  BY NatLessThanWellFounded
<1>2. \A x, y \in Nat : <<y, x>> \in R <=> y < x
  BY DEF OpToRel
<1> HIDE DEF R
<1>3. \E x \in T : \A y \in T : ~(<<y, x>> \in R)
  BY <1>1, WFMin
<1> QED BY <1>2, <1>3

\* What holds of 0, and of n + 1 if of n, holds of all numbers: S is where it holds.
LEMMA Induction ==
  ASSUME NEW S, 0 \in S, \A n \in Nat : n \in S => n + 1 \in S
  PROVE  Nat \subseteq S
<1> DEFINE T == Nat \ S
<1>1. SUFFICES ASSUME T # {} PROVE FALSE
  OBVIOUS
<1>2. PICK x \in T : \A y \in T : ~(y < x)
  BY <1>1, Least
<1>3. x # 0 /\ x - 1 \in Nat /\ x - 1 < x /\ (x - 1) + 1 = x
  BY <1>2
<1> QED BY <1>2, <1>3

\* The uint8 sum of two bytes.
LEMMA AddByte ==
  ASSUME NEW a \in Byte, NEW b \in Byte
  PROVE  /\ (a + b) % 256 \in Byte
         /\ (a + b) % 256 = IF a + b < 256 THEN a + b ELSE a + b - 256
<1>1. \A n \in 0..510 : /\ n % 256 \in 0..255
                         /\ n % 256 = IF n < 256 THEN n ELSE n - 256
  OBVIOUS
<1>2. PICK n \in 0..510 : n = a + b
  BY DEF Byte
<1>3. /\ n % 256 \in 0..255
      /\ n % 256 = IF n < 256 THEN n ELSE n - 256
  BY <1>1
<1>4. PICK m : m = (a + b) % 256 /\ m = n % 256
  BY <1>2
<1>5. m \in Byte /\ m = IF a + b < 256 THEN a + b ELSE a + b - 256
  BY <1>2, <1>3, <1>4 DEF Byte
<1> QED BY <1>4, <1>5

\* It differs if one of the two does.
LEMMA AddByteDiffers ==
  ASSUME NEW a \in Byte, NEW b \in Byte, NEW c \in Byte, NEW d \in Byte,
         (a = c) # (b = d)
  PROVE  (a + b) % 256 # (c + d) % 256
<1> DEFINE m == (a + b) % 256  n == (c + d) % 256
<1>1. /\ m = IF a + b < 256 THEN a + b ELSE a + b - 256
      /\ n = IF c + d < 256 THEN c + d ELSE c + d - 256
  BY AddByte
<1> HIDE DEF m, n
<1>2. m # n
  BY <1>1 DEF Byte
<1> QED BY <1>2 DEF m, n

-----------------------------------------------------------------------------
(***************************************************************************)
(* s is what DataSum computes: the running sums of an identifier t and the *)
(* first n bytes of a packet p.                                            *)
(***************************************************************************)
IsSum(s, t, p, n) ==
  /\ s \in [0..n -> Byte]
  /\ s[0] = t
  /\ \A i \in 1..n : s[i] = (s[i - 1] + p[i]) % 256

\* There are running sums of every packet.
LEMMA SumExists ==
  ASSUME NEW t \in Byte, NEW p \in Seq(Byte), NEW n \in Nat, n <= Len(p)
  PROVE  \E s : IsSum(s, t, p, n)
<1> DEFINE S == {m \in Nat : m <= Len(p) => \E s : IsSum(s, t, p, m)}
<1>1. 0 \in S
  <2>1. IsSum([i \in 0..0 |-> t], t, p, 0)
    BY DEF IsSum
  <2> QED BY <2>1
<1>2. ASSUME NEW m \in Nat, m \in S PROVE m + 1 \in S
  <2> SUFFICES ASSUME m + 1 <= Len(p) PROVE \E s : IsSum(s, t, p, m + 1)
    OBVIOUS
  <2>0. Len(p) \in Nat /\ m <= Len(p)
    OBVIOUS
  <2>1. PICK s : IsSum(s, t, p, m)
    BY <1>2, <2>0
  <2> DEFINE r == [i \in 0..(m + 1) |->
                     IF i = m + 1 THEN (s[m] + p[m + 1]) % 256 ELSE s[i]]
  <2>2. s[m] \in Byte /\ p[m + 1] \in Byte
    BY <2>0, <2>1 DEF IsSum
  <2>3. (s[m] + p[m + 1]) % 256 \in Byte
    BY <2>2, AddByte
  <2>4. \A i \in 0..(m + 1) : i # m + 1 => i \in 0..m
    OBVIOUS
  <2>5. r \in [0..(m + 1) -> Byte]
    BY <2>1, <2>3, <2>4 DEF IsSum
  <2>6. r[0] = t
    BY <2>1 DEF IsSum
  <2>7. ASSUME NEW i \in 1..(m + 1) PROVE r[i] = (r[i - 1] + p[i]) % 256
    <3>1. i - 1 \in 0..m /\ i - 1 # m + 1 /\ i - 1 \in 0..(m + 1) /\ i \in 0..(m + 1)
      OBVIOUS
    <3>2. r[i - 1] = s[i - 1]
      BY <3>1
    <3>3. CASE i = m + 1
      BY <3>1, <3>2, <3>3
    <3>4. CASE i # m + 1
      <4>1. i \in 1..m
        BY <3>4
      <4> QED BY <2>1, <3>1, <3>2, <4>1 DEF IsSum
    <3> QED BY <3>3, <3>4
  <2> QED BY <2>5, <2>6, <2>7 DEF IsSum
<1>3. n \in S
  <2> HIDE DEF S
  <2> QED BY <1>1, <1>2, Induction
<1> QED BY <1>3

\* DataSum is the last of them.
LEMMA DataSumIs ==
  ASSUME NEW t \in Byte, NEW p \in Seq(Byte), NEW n \in Nat, n = Len(p)
  PROVE  \E s : IsSum(s, t, p, n) /\ DataSum(t, p) = s[n]
<1> DEFINE F(f) == [i \in 0..n |-> IF i = 0 THEN t ELSE (f[i - 1] + p[i]) % 256]
           sum  == CHOOSE f : f = F(f)
<1>1. PICK s : IsSum(s, t, p, n)
  BY SumExists
<1>2. s = F(s)
  <2>1. \A i \in 0..n : s[i] = IF i = 0 THEN t ELSE (s[i - 1] + p[i]) % 256
    BY <1>1 DEF IsSum
  <2>2. s = [i \in 0..n |-> s[i]]
    BY <1>1 DEF IsSum
  <2> QED BY <2>1, <2>2
<1>3. sum = F(sum)
  <2> HIDE DEF F
  <2> QED BY <1>2, Zenon
<1>4. DataSum(t, p) = sum[n]
  BY Zenon DEF DataSum
<1> HIDE DEF sum
<1>5. \A i \in 0..n : sum[i] = IF i = 0 THEN t ELSE (sum[i - 1] + p[i]) % 256
  BY <1>3
<1> HIDE DEF F
<1> DEFINE S == {m \in Nat : m <= n => sum[m] \in Byte}
<1>6. 0 \in S
  BY <1>5
<1>7. ASSUME NEW m \in Nat, m \in S PROVE m + 1 \in S
  <2> SUFFICES ASSUME m + 1 <= n PROVE sum[m + 1] \in Byte
    OBVIOUS
  <2>1. sum[m] \in Byte /\ p[m + 1] \in Byte
    BY <1>7
  <2>2. sum[m + 1] = (sum[m] + p[m + 1]) % 256
    <3>1. m + 1 \in 0..n /\ m + 1 # 0 /\ (m + 1) - 1 = m
      OBVIOUS
    <3> QED BY <1>5, <3>1
  <2> QED BY <2>1, <2>2, AddByte
<1>8. \A m \in 0..n : sum[m] \in Byte
  <2>1. Nat \subseteq S
    <3> HIDE DEF S
    <3> QED BY <1>6, <1>7, Induction
  <2> QED BY <2>1
<1>9. sum \in [0..n -> Byte]
  <2>1. sum = [i \in 0..n |-> sum[i]]
    BY <1>3 DEF F
  <2> QED BY <1>8, <2>1
<1>10. \A i \in 1..n : i \in 0..n /\ i # 0
  OBVIOUS
<1>11. IsSum(sum, t, p, n)
  BY <1>5, <1>9, <1>10 DEF IsSum
<1> QED BY <1>4, <1>11

\* The sum and the checksum in a frame are bytes.
LEMMA ChecksumByte ==
  ASSUME NEW t \in Byte, NEW p \in Seq(Byte)
  PROVE  DataSum(t, p) \in Byte /\ Complement(DataSum(t, p)) \in Byte
<1>1. DataSum(t, p) \in Byte
  <2>1. PICK n \in Nat : n = Len(p)
    OBVIOUS
  <2>2. PICK s : IsSum(s, t, p, n) /\ DataSum(t, p) = s[n]
    BY <2>1, DataSumIs
  <2> QED BY <2>2 DEF IsSum
<1>2. \A b \in Byte : Complement(b) \in Byte
  BY DEF Complement, Byte
<1> QED BY <1>1, <1>2

\* Sums that are equal, or not, before bytes that are equal.
LEMMA SumsFollow ==
  ASSUME NEW n \in Nat, NEW p \in Seq(Byte), NEW q \in Seq(Byte),
         Len(p) = n, Len(q) = n, NEW s, NEW r, NEW t \in Byte, NEW u \in Byte,
         IsSum(s, t, p, n), IsSum(r, u, q, n),
         NEW j \in 0..n, NEW k \in j..n, \A i \in (j + 1)..k : p[i] = q[i]
  PROVE  (s[j] = r[j]) <=> (s[k] = r[k])
<1> DEFINE S == {m \in Nat : j + m <= k => ((s[j] = r[j]) <=> (s[j + m] = r[j + m]))}
<1>1. 0 \in S
  OBVIOUS
<1>2. ASSUME NEW m \in Nat, m \in S PROVE m + 1 \in S
  <2> SUFFICES ASSUME j + (m + 1) <= k
               PROVE  (s[j] = r[j]) <=> (s[j + (m + 1)] = r[j + (m + 1)])
    OBVIOUS
  <2> DEFINE i == j + (m + 1)
  <2>1. i \in (j + 1)..k /\ i \in 1..n /\ i - 1 = j + m /\ i - 1 \in 0..n /\ j + m <= k
    OBVIOUS
  <2> HIDE DEF i
  <2>2. s[i] = (s[i - 1] + p[i]) % 256 /\ r[i] = (r[i - 1] + q[i]) % 256
    BY <2>1 DEF IsSum
  <2>3. p[i] = q[i] /\ p[i] \in Byte /\ s[i - 1] \in Byte /\ r[i - 1] \in Byte
    BY <2>1 DEF IsSum
  <2>4. (s[i - 1] = r[i - 1]) <=> (s[i] = r[i])
    <3>1. CASE s[i - 1] = r[i - 1]
      BY <2>2, <2>3, <3>1
    <3>2. CASE s[i - 1] # r[i - 1]
      BY <2>2, <2>3, <3>2, AddByteDiffers
    <3> QED BY <3>1, <3>2
  <2>5. (s[j] = r[j]) <=> (s[i - 1] = r[i - 1])
    BY <1>2, <2>1
  <2> QED BY <2>4, <2>5 DEF i
<1>3. Nat \subseteq S
  <2> HIDE DEF S
  <2> QED BY <1>1, <1>2, Induction
<1>4. k - j \in Nat /\ j + (k - j) = k
  OBVIOUS
<1>5. k - j \in S
  BY <1>3, <1>4
<1> QED BY <1>4, <1>5

\* The sum tells a frame from one that differs in its identifier, or in one byte of
\* its packet.
LEMMA SumDiffers ==
  ASSUME NEW n \in Nat, NEW p \in Seq(Byte), NEW q \in Seq(Byte),
         Len(p) = n, Len(q) = n, NEW t \in Byte, NEW u \in Byte,
         \/ t # u /\ \A i \in 1..n : p[i] = q[i]
         \/ t = u /\ \E j \in 1..n : p[j] # q[j] /\ \A i \in 1..n : i # j => p[i] = q[i]
  PROVE  DataSum(t, p) # DataSum(u, q)
<1>1. PICK s : IsSum(s, t, p, n) /\ DataSum(t, p) = s[n]
  BY DataSumIs
<1>2. PICK r : IsSum(r, u, q, n) /\ DataSum(u, q) = r[n]
  BY DataSumIs
<1>3. n \in 0..n /\ 0 \in 0..n
  OBVIOUS
<1>4. CASE t # u /\ \A i \in 1..n : p[i] = q[i]
  <2>1. s[0] # r[0]
    BY <1>1, <1>2, <1>4 DEF IsSum
  <2>2. \A i \in (0 + 1)..n : p[i] = q[i]
    BY <1>4
  <2>3. s[n] # r[n]
    BY <1>1, <1>2, <1>3, <2>1, <2>2, SumsFollow
  <2> QED BY <1>1, <1>2, <2>3
<1>5. CASE t = u /\ \E j \in 1..n : p[j] # q[j] /\ \A i \in 1..n : i # j => p[i] = q[i]
  <2>1. PICK j \in 1..n : p[j] # q[j] /\ \A i \in 1..n : i # j => p[i] = q[i]
    BY <1>5
  <2>2. PICK h \in 0..n : h = j - 1
    OBVIOUS
  <2>3. s[h] = r[h]
    <3>1. s[0] = r[0]
      BY <1>1, <1>2, <1>5 DEF IsSum
    <3>2. \A i \in (0 + 1)..h : p[i] = q[i]
      BY <2>1, <2>2
    <3>3. h \in 0..n
      OBVIOUS
    <3> QED BY <1>1, <1>2, <1>3, <3>1, <3>2, <3>3, SumsFollow
  <2>4. s[j] # r[j]
    <3>1. s[j] = (s[h] + p[j]) % 256 /\ r[j] = (r[h] + q[j]) % 256
      BY <1>1, <1>2, <2>2 DEF IsSum
    <3>2. s[h] \in Byte /\ r[h] \in Byte /\ p[j] \in Byte /\ q[j] \in Byte
      BY <1>1, <1>2 DEF IsSum
    <3> QED BY <2>1, <2>3, <3>1, <3>2, AddByteDiffers
  <2>5. s[n] # r[n]
    <3>1. \A i \in (j + 1)..n : p[i] = q[i]
      BY <2>1
    <3>2. j \in 0..n /\ n \in j..n
      OBVIOUS
    <3> QED BY <1>1, <1>2, <2>4, <3>1, <3>2, SumsFollow
  <2> QED BY <1>1, <1>2, <2>5
<1> QED BY <1>4, <1>5

\* A length from 1 on and its complement are bytes.
LEMMA ComplementByte ==
  ASSUME NEW b \in 1..255
  PROVE  Complement(b) = 256 - b /\ b % 256 = b
BY DEF Complement

\* What a sequence of m + n elements has of its two parts.
IsConcat(S, s, t, m, n, c) ==
  /\ c \in Seq(S) /\ Len(c) = m + n
  /\ \A i \in 1..m : c[i] = s[i]
  /\ \A i \in 1..n : c[m + i] = t[i]

\* The elements of a concatenation.
LEMMA ConcatAt ==
  ASSUME NEW S, NEW s \in Seq(S), NEW t \in Seq(S), NEW m \in Nat, NEW n \in Nat,
         Len(s) = m, Len(t) = n
  PROVE  IsConcat(S, s, t, m, n, s \o t)
BY DEF IsConcat

\* The bytes of an information frame with a packet of L bytes, by position.
IsFrame(f, tfi, p, L) ==
  /\ f \in Seq(Byte)
  /\ Len(f) = L + 8
  /\ f[1] = 0 /\ f[2] = 0 /\ f[3] = 255
  /\ f[4] = L + 1
  /\ f[5] = Complement(L + 1)
  /\ f[6] = tfi
  /\ \A i \in 1..L : f[6 + i] = p[i]
  /\ f[L + 7] = Complement(DataSum(tfi, p))

\* What PN532_SendCmd composes, byte by byte.
LEMMA FrameBytes ==
  ASSUME NEW tfi \in Byte, NEW p \in Seq(Byte), NEW L \in 0..254, Len(p) = L
  PROVE  IsFrame(InfoFrame(tfi, p), tfi, p, L)
<1> DEFINE n == L + 1
           c == Complement(DataSum(tfi, p))
           h == <<0, 0, 255, n, Complement(n), tfi>>
           e == <<c, 0>>
           f == InfoFrame(tfi, p)
<1>1. n \in 1..255 /\ Complement(n) \in 1..255 /\ n % 256 = n
  <2>1. n \in 1..255
    OBVIOUS
  <2> HIDE DEF n
  <2>2. Complement(n) = 256 - n /\ n % 256 = n
    BY <2>1, ComplementByte
  <2> QED BY <2>1, <2>2
<1>2. c \in Byte
  BY ChecksumByte
<1>3. f = (h \o p) \o e
  BY <1>1 DEF InfoFrame
<1>4. 0 \in Byte /\ 255 \in Byte /\ n \in Byte
      /\ Complement(n) \in Byte /\ tfi \in Byte
  BY <1>1 DEF Byte
<1> HIDE DEF n, c, f
<1>5. /\ h \in Seq(Byte) /\ Len(h) = 6
      /\ h[1] = 0 /\ h[2] = 0 /\ h[3] = 255
      /\ h[4] = n /\ h[5] = Complement(n) /\ h[6] = tfi
  BY <1>4
<1>6. e \in Seq(Byte) /\ Len(e) = 2 /\ e[1] = c
  BY <1>2, <1>4
<1>7. p \in Seq(Byte)
  OBVIOUS
<1> HIDE DEF h, e
<1>8. L \in Nat
  OBVIOUS
<1>9. /\ f \in Seq(Byte) /\ Len(f) = L + 8
      /\ \A i \in 1..6 : f[i] = h[i]
      /\ \A i \in 1..L : f[6 + i] = p[i]
      /\ f[L + 7] = c
  <2>0. h \in Seq(Byte) /\ Len(h) = 6
    BY <1>5
  <2>1. IsConcat(Byte, h, p, 6, L, h \o p)
    BY <1>7, <1>8, <2>0, ConcatAt
  <2>2. h \o p \in Seq(Byte) /\ Len(h \o p) = 6 + L
    BY <2>1 DEF IsConcat
  <2>3. 6 + L \in Nat
    OBVIOUS
  <2>4. IsConcat(Byte, h \o p, e, 6 + L, 2, f)
    BY <1>3, <1>6, <2>2, <2>3, ConcatAt
  <2> DEFINE b == h \o p
  <2>5. IsConcat(Byte, h, p, 6, L, b) /\ IsConcat(Byte, b, e, 6 + L, 2, f)
    BY <2>1, <2>4
  <2> HIDE DEF b
  <2>6. ASSUME NEW i \in 1..6 PROVE f[i] = h[i]
    <3>1. i \in 1..(6 + L)
      BY <1>8
    <3> QED BY <2>5, <3>1 DEF IsConcat
  <2>7. ASSUME NEW i \in 1..L PROVE f[6 + i] = p[i]
    <3>1. 6 + i \in 1..(6 + L)
      BY <1>8
    <3> QED BY <2>5, <3>1 DEF IsConcat
  <2>8. f[L + 7] = c
    <3>1. L + 7 = (6 + L) + 1 /\ 1 \in 1..2
      BY <1>8
    <3> QED BY <1>6, <2>5, <3>1 DEF IsConcat
  <2>9. f \in Seq(Byte) /\ Len(f) = L + 8
    BY <1>8, <2>5 DEF IsConcat
  <2> QED BY <2>6, <2>7, <2>8, <2>9
<1>14. f[1] = 0 /\ f[2] = 0 /\ f[3] = 255 /\ f[4] = n /\ f[5] = Complement(n)
       /\ f[6] = tfi
  BY <1>5, <1>9
<1> QED BY <1>9, <1>14 DEF IsFrame, n, c, f

\* The smallest of a set of start positions, if one is at `s` and none before it.
LEMMA FirstStart ==
  ASSUME NEW S \in SUBSET Nat, NEW s \in S, \A t \in S : t >= s
  PROVE  Min(S) = s
<1>1. \A m \in S : (\A t \in S : m =< t) => m = s
  OBVIOUS
<1>2. Min(S) \in S /\ \A t \in S : Min(S) =< t
  BY DEF Min
<1> QED BY <1>1, <1>2
=============================================================================
