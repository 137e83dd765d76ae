---------------------------- MODULE SndWavProofs -----------------------------
(***************************************************************************)
(* The recorder and the player, for every period the cards choose, every   *)
(* file and every way the transfers are split: what is recorded, and what  *)
(* is played of it.                                                        *)
(***************************************************************************)
EXTENDS SndWav, SequenceTheorems, TLAPS

\* The smaller of two numbers.
LEMMA MinTwo ==
  ASSUME NEW a \in Int, NEW b \in Int
  PROVE  Min({a, b}) = IF a <= b THEN a ELSE b
<1>1. \E x \in {a, b} : \A y \in {a, b} : x <= y
  <2>1. CASE a <= b
    BY <2>1
  <2>2. CASE b <= a
    BY <2>2
  <2> QED BY <2>1, <2>2
<1>2. PICK n : n = Min({a, b})
  OBVIOUS
<1>3. n \in {a, b} /\ \A y \in {a, b} : n <= y
  BY <1>1, <1>2 DEF Min
<1> QED BY <1>2, <1>3

\* The larger of two numbers.
LEMMA MaxTwo ==
  ASSUME NEW a \in Int, NEW b \in Int
  PROVE  Max({a, b}) = IF a >= b THEN a ELSE b
<1>1. \E x \in {a, b} : \A y \in {a, b} : x >= y
  <2>1. CASE a >= b
    BY <2>1
  <2>2. CASE b >= a
    BY <2>2
  <2> QED BY <2>1, <2>2
<1>2. PICK n : n = Max({a, b})
  OBVIOUS
<1>3. n \in {a, b} /\ \A y \in {a, b} : n >= y
  BY <1>1, <1>2 DEF Max
<1> QED BY <1>2, <1>3

\* A function on 1..n is a sequence of n elements.
LEMMA FunctionIsSeq ==
  ASSUME NEW n \in Nat, NEW S, NEW f \in [1..n -> S]
  PROVE  f \in Seq(S) /\ Len(f) = n
OBVIOUS

\* w is s with t over it from behind its first m elements on.
Overlaid(w, s, m, t) ==
  /\ w \in Seq(Int) /\ Len(w) = IF Len(s) >= m + Len(t) THEN Len(s) ELSE m + Len(t)
  /\ \A k \in 1..Len(w) : w[k] = IF m < k /\ k <= m + Len(t) THEN t[k - m] ELSE s[k]

\* That is what Over gives.
LEMMA OverIs ==
  ASSUME NEW s \in Seq(Int), NEW t \in Seq(Int), NEW m \in Nat, m <= Len(s)
  PROVE  Overlaid(Over(s, m, t), s, m, t)
<1>1. PICK a \in Nat, b \in Nat : a = Len(s) /\ b = Len(t)
  OBVIOUS
<1>2. PICK n \in Nat : n = IF a >= m + b THEN a ELSE m + b
  <2>1. (IF a >= m + b THEN a ELSE m + b) \in Nat
    OBVIOUS
  <2> QED BY <2>1
<1>3. n = Max({Len(s), m + Len(t)})
  <2>1. a \in Int /\ m + b \in Int
    OBVIOUS
  <2>2. Max({a, m + b}) = IF a >= m + b THEN a ELSE m + b
    BY <2>1, MaxTwo
  <2> QED BY <1>1, <1>2, <2>2
<1>4. PICK w : w = [k \in 1..n |-> IF k - m \in 1..Len(t) THEN t[k - m] ELSE s[k]]
  OBVIOUS
<1>5. w = Over(s, m, t)
  BY <1>3, <1>4 DEF Over
<1>6. ASSUME NEW k \in 1..n
      PROVE  w[k] = (IF m < k /\ k <= m + b THEN t[k - m] ELSE s[k]) /\ w[k] \in Int
  <2>1. CASE m < k /\ k <= m + b
    <3>1. k - m \in 1..Len(t)
      BY <1>1, <2>1
    <3>2. t[k - m] \in Int
      BY <3>1
    <3> QED BY <1>4, <2>1, <3>1, <3>2
  <2>2. CASE ~(m < k /\ k <= m + b)
    <3>1. k - m \notin 1..Len(t)
      BY <1>1, <2>2
    <3>2. k \in 1..Len(s)
      BY <1>1, <1>2, <2>2
    <3>3. s[k] \in Int
      BY <3>2
    <3> QED BY <1>4, <2>2, <3>1, <3>3
  <2> QED BY <2>1, <2>2
<1>7. w \in [1..n -> Int]
  BY <1>4, <1>6
<1>8. w \in Seq(Int) /\ Len(w) = n
  BY <1>7, FunctionIsSeq
<1>9. Overlaid(w, s, m, t)
  BY <1>1, <1>2, <1>6, <1>8 DEF Overlaid
<1> QED BY <1>5, <1>9

\* f is the m elements of p behind its first n.
Copies(f, p, n, m) ==
  f \in Seq(Int) /\ Len(f) = m /\ \A k \in 1..m : f[k] = p[n + k]

\* That is what SubSeq gives.
LEMMA Piece ==
  ASSUME NEW p \in Seq(Int), NEW n \in Nat, NEW m \in Nat, n + m <= Len(p)
  PROVE  Copies(SubSeq(p, n + 1, n + m), p, n, m)
<1>1. PICK i \in Int : i = n + 1
  OBVIOUS
<1>2. PICK j \in Int : j = n + m
  OBVIOUS
<1>3. \A k \in i..j : p[k] \in Int
  <2>1. \A k \in i..j : k \in 1..Len(p)
    BY <1>1, <1>2
  <2> QED BY <2>1
<1>4. /\ SubSeq(p, i, j) \in Seq(Int)
      /\ Len(SubSeq(p, i, j)) = IF i <= j THEN j - i + 1 ELSE 0
      /\ \A k \in 1..j - i + 1 : SubSeq(p, i, j)[k] = p[i + k - 1]
  BY <1>3, SubSeqProperties
<1>5. (IF i <= j THEN j - i + 1 ELSE 0) = m /\ j - i + 1 = m
  BY <1>1, <1>2
<1>6. \A k \in 1..m : i + k - 1 = n + k
  BY <1>1
<1>7. PICK f : f = SubSeq(p, i, j)
  OBVIOUS
<1>8. f \in Seq(Int) /\ Len(f) = m
  BY <1>4, <1>5, <1>7
<1>9. \A k \in 1..m : f[k] = p[n + k]
  BY <1>4, <1>5, <1>6, <1>7
<1>10. Copies(f, p, n, m)
  BY <1>8, <1>9 DEF Copies
<1> QED BY <1>1, <1>2, <1>7, <1>10

\* w is u with f behind it.
Joined(w, u, f) ==
  /\ w \in Seq(Int) /\ Len(w) = Len(u) + Len(f)
  /\ \A k \in 1..Len(w) : w[k] = IF k <= Len(u) THEN u[k] ELSE f[k - Len(u)]

\* That is what \o gives.
LEMMA JoinedIs ==
  ASSUME NEW u \in Seq(Int), NEW f \in Seq(Int)
  PROVE  Joined(u \o f, u, f)
<1>1. /\ u \o f \in Seq(Int) /\ Len(u \o f) = Len(u) + Len(f)
      /\ \A i \in 1..Len(u) + Len(f) : (u \o f)[i] =
           IF i <= Len(u) THEN u[i] ELSE f[i - Len(u)]
  BY ConcatProperties
<1>2. PICK w : w = u \o f
  OBVIOUS
<1>3. Joined(w, u, f)
  BY <1>1, <1>2 DEF Joined
<1> QED BY <1>2, <1>3

\* The header of a recording, in its parts.
LEMMA HeaderIs ==
  ASSUME NEW n \in Nat
  PROVE  /\ HeadOK(Header(n)) /\ Len(Header(n)) = 3
         /\ Header(n)[1] = Riff(TRUE) /\ Header(n)[2] = RecordFormat
         /\ Header(n)[3].length = n
<1>1. Riff(TRUE) \in RiffParts
  BY DEF Riff, RiffParts
<1>2. RecordFormat \in FmtParts
  BY DEF RecordFormat, Fmt, FmtParts
<1>3. Chunk(n) \in ChunkParts /\ Chunk(n).length = n
  BY DEF Chunk, ChunkParts
<1>4. PICK a, b, c : a = Riff(TRUE) /\ b = RecordFormat /\ c = Chunk(n)
  OBVIOUS
<1>5. a \in Parts /\ b \in Parts /\ c \in Parts
  BY <1>1, <1>2, <1>3, <1>4 DEF Parts
<1>6. PICK h : h = <<a, b, c>>
  OBVIOUS
<1>7. h \in Seq(Parts) /\ Len(h) = 3 /\ h[1] = a /\ h[2] = b /\ h[3] = c
  BY <1>5, <1>6
<1>8. h = Header(n)
  BY <1>4, <1>6 DEF Header
<1>9. HeadOK(h)
  <2>1. h[1] \in RiffParts /\ h[2] \in FmtParts /\ h[3] \in ChunkParts
    BY <1>1, <1>2, <1>3, <1>4, <1>7
  <2>2. Len(h) \in 0..3
    BY <1>7
  <2> QED BY ONLY <1>7, <2>1, <2>2 DEF HeadOK
<1> QED BY <1>3, <1>4, <1>7, <1>8, <1>9

\* w is the first k elements of u, then x, then what v has behind it.
Spliced(w, u, k, x, v, S) ==
  /\ w \in Seq(S) /\ Len(w) = Len(v)
  /\ \A i \in 1..Len(v) : w[i] = IF i <= k THEN u[i] ELSE IF i = k + 1 THEN x ELSE v[i]

\* That is what a write of the header that stops in a part makes of it.
LEMMA SplicedIs ==
  ASSUME NEW S, NEW u \in Seq(S), NEW v \in Seq(S), NEW x \in S, NEW k \in Nat,
         k <= Len(u), k < Len(v)
  PROVE  Spliced(SubSeq(u, 1, k) \o <<x>> \o SubSeq(v, k + 2, Len(v)), u, k, x, v, S)
<1>1. PICK p : p = SubSeq(u, 1, k)
  OBVIOUS
<1>2. p \in Seq(S) /\ Len(p) = k /\ \A i \in 1..k : p[i] = u[i]
  <2>1. \A i \in 1..k : u[i] \in S
    OBVIOUS
  <2>2. /\ SubSeq(u, 1, k) \in Seq(S)
        /\ Len(SubSeq(u, 1, k)) = IF 1 <= k THEN k - 1 + 1 ELSE 0
        /\ \A i \in 1..k - 1 + 1 : SubSeq(u, 1, k)[i] = u[1 + i - 1]
    BY <2>1, SubSeqProperties
  <2>3. (IF 1 <= k THEN k - 1 + 1 ELSE 0) = k /\ k - 1 + 1 = k
    OBVIOUS
  <2>4. \A i \in 1..k : 1 + i - 1 = i
    OBVIOUS
  <2> QED BY <1>1, <2>2, <2>3, <2>4
<1>3. PICK b \in Int : b = k + 2
  OBVIOUS
<1>4. PICK n \in Nat : n = Len(v)
  OBVIOUS
<1>5. PICK q : q = SubSeq(v, b, n)
  OBVIOUS
<1>6. /\ q \in Seq(S) /\ Len(q) = n - k - 1
      /\ \A i \in 1..n - k - 1 : q[i] = v[k + 1 + i]
  <2>1. \A i \in b..n : v[i] \in S
    <3>1. \A i \in b..n : i \in 1..Len(v)
      BY <1>3, <1>4
    <3> QED BY <3>1
  <2>2. /\ SubSeq(v, b, n) \in Seq(S)
        /\ Len(SubSeq(v, b, n)) = IF b <= n THEN n - b + 1 ELSE 0
        /\ \A i \in 1..n - b + 1 : SubSeq(v, b, n)[i] = v[b + i - 1]
    BY <2>1, SubSeqProperties
  <2>3. (IF b <= n THEN n - b + 1 ELSE 0) = n - k - 1 /\ n - b + 1 = n - k - 1
    BY <1>3, <1>4
  <2>4. \A i \in 1..n - k - 1 : b + i - 1 = k + 1 + i
    BY <1>3
  <2> QED BY <1>5, <2>2, <2>3, <2>4
<1>7. PICK e : e = <<x>>
  OBVIOUS
<1>8. e \in Seq(S) /\ Len(e) = 1 /\ e[1] = x
  BY <1>7
<1>9. PICK g : g = p \o e
  OBVIOUS
<1>10. /\ g \in Seq(S) /\ Len(g) = k + 1
       /\ \A i \in 1..k + 1 : g[i] = IF i <= k THEN u[i] ELSE x
  <2>1. /\ p \o e \in Seq(S) /\ Len(p \o e) = Len(p) + Len(e)
        /\ \A i \in 1..Len(p) + Len(e) : (p \o e)[i] =
             IF i <= Len(p) THEN p[i] ELSE e[i - Len(p)]
    BY <1>2, <1>8, ConcatProperties
  <2>2. \A i \in 1..k + 1 : i <= k \/ i - k = 1
    OBVIOUS
  <2> QED BY <1>2, <1>8, <1>9, <2>1, <2>2
<1>11. PICK w : w = g \o q
  OBVIOUS
<1>12. /\ w \in Seq(S) /\ Len(w) = n
       /\ \A i \in 1..n : w[i] = IF i <= k + 1 THEN g[i] ELSE q[i - (k + 1)]
  <2>1. /\ g \o q \in Seq(S) /\ Len(g \o q) = Len(g) + Len(q)
        /\ \A i \in 1..Len(g) + Len(q) : (g \o q)[i] =
             IF i <= Len(g) THEN g[i] ELSE q[i - Len(g)]
    BY <1>6, <1>10, ConcatProperties
  <2>2. Len(g) = k + 1 /\ Len(g) + Len(q) = n
    BY <1>4, <1>6, <1>10
  <2> QED BY <1>11, <2>1, <2>2
<1>13. ASSUME NEW i \in 1..n
       PROVE  w[i] = IF i <= k THEN u[i] ELSE IF i = k + 1 THEN x ELSE v[i]
  <2>1. CASE i <= k + 1
    <3>1. w[i] = g[i] /\ i \in 1..k + 1
      BY <1>12, <1>13, <2>1
    <3> QED BY <1>10, <2>1, <3>1
  <2>2. CASE i > k + 1
    <3>1. w[i] = q[i - (k + 1)]
      BY <1>12, <2>2
    <3>2. i - (k + 1) \in 1..n - k - 1 /\ k + 1 + (i - (k + 1)) = i
      BY <2>2
    <3>3. q[i - (k + 1)] = v[k + 1 + (i - (k + 1))]
      BY <1>6, <3>2
    <3> QED BY <2>2, <3>1, <3>2, <3>3
  <2> QED BY <2>1, <2>2
<1>14. Spliced(w, u, k, x, v, S)
  BY <1>4, <1>12, <1>13 DEF Spliced
<1>15. w = SubSeq(u, 1, k) \o <<x>> \o SubSeq(v, k + 2, Len(v))
  BY <1>1, <1>3, <1>4, <1>5, <1>7, <1>9, <1>11
<1> QED BY <1>14, <1>15

\* A number written in part is a number.
LEMMA MixNat ==
  ASSUME NEW a \in Nat, NEW b \in Nat, NEW w \in Weights
  PROVE  Mix(a, b, w) \in Nat
<1>1. w \in Nat /\ w > 0
  BY DEF Weights
<1>2. a % w \in Nat /\ b \div w \in Nat
  <2>1. \A v \in Nat : v > 0 => a % v \in Nat /\ b \div v \in Nat
    OBVIOUS
  <2> QED BY <1>1, <2>1
<1>3. PICK x \in Nat, y \in Nat : x = a % w /\ y = b \div w
  BY <1>2
<1>4. y * w \in Nat
  BY <1>1
<1>5. x + y * w \in Nat
  BY <1>4
<1> QED BY <1>3, <1>5 DEF Mix

\* A format written in part is a format.
LEMMA TornFmt ==
  ASSUME NEW a \in FmtParts, NEW o \in FmtParts, NEW part \in Torn(a, o)
  PROVE  part \in FmtParts
<1>1. /\ a.ok \in BOOLEAN /\ a.pcm \in BOOLEAN /\ a.channels \in Nat /\ a.bits \in Nat
      /\ o.ok \in BOOLEAN /\ o.pcm \in BOOLEAN /\ o.channels \in Nat /\ o.bits \in Nat
      /\ "bits" \in DOMAIN a
  BY DEF FmtParts
<1>2. PICK c \in Nat : c = Mix(a.channels, o.channels, 256)
  <2>1. PICK x \in Nat, y \in Nat : x = a.channels /\ y = o.channels
    BY <1>1
  <2>2. Mix(x, y, 256) \in Nat
    <3>1. 256 \in Weights
      BY DEF Weights
    <3> QED BY <3>1, MixNat
  <2>3. Mix(a.channels, o.channels, 256) \in Nat
    BY <2>1, <2>2
  <2> QED BY <2>3
<1>3. \/ \E b \in {o.ok, a.ok} : part = [o EXCEPT !.ok = b]
      \/ \E b \in {o.pcm, a.pcm} : part = [o EXCEPT !.ok = a.ok, !.pcm = b]
      \/ part = [a EXCEPT !.channels = c, !.bits = o.bits]
      \/ \E w \in {1, 256} : part = [a EXCEPT !.bits = Mix(a.bits, o.bits, w)]
  BY <1>1, <1>2 DEF Torn
<1>4. CASE \E b \in {o.ok, a.ok} : part = [o EXCEPT !.ok = b]
  BY <1>1, <1>4 DEF FmtParts
<1>5. CASE \E b \in {o.pcm, a.pcm} : part = [o EXCEPT !.ok = a.ok, !.pcm = b]
  BY <1>1, <1>5 DEF FmtParts
<1>6. CASE part = [a EXCEPT !.channels = c, !.bits = o.bits]
  BY <1>1, <1>6 DEF FmtParts
<1>7. ASSUME NEW w \in {1, 256}, part = [a EXCEPT !.bits = Mix(a.bits, o.bits, w)]
      PROVE  part \in FmtParts
  <2>1. PICK m \in Nat : m = Mix(a.bits, o.bits, w)
    <3>1. PICK x \in Nat, y \in Nat : x = a.bits /\ y = o.bits
      BY <1>1
    <3>2. Mix(x, y, w) \in Nat
      <4>1. w \in Weights
        BY DEF Weights
      <4> QED BY <4>1, MixNat
    <3>3. Mix(a.bits, o.bits, w) \in Nat
      BY <3>1, <3>2
    <3> QED BY <3>3
  <2>2. part = [a EXCEPT !.bits = m]
    BY <1>7, <2>1
  <2> QED BY <2>2 DEF FmtParts
<1> QED BY <1>3, <1>4, <1>5, <1>6, <1>7

\* A chunk header written in part is a chunk header.
LEMMA TornChunk ==
  ASSUME NEW a \in ChunkParts, NEW o \in ChunkParts, NEW part \in Torn(a, o)
  PROVE  part \in ChunkParts
<1>1. /\ a.ok \in BOOLEAN /\ a.length \in Nat /\ o.ok \in BOOLEAN /\ o.length \in Nat
      /\ "bits" \notin DOMAIN a /\ "length" \in DOMAIN a
  BY DEF ChunkParts
<1>2. \/ \E b \in {o.ok, a.ok} : part = [o EXCEPT !.ok = b]
      \/ \E w \in Weights :
           part = [a EXCEPT !.length = Mix(a.length, o.length, w)]
  BY <1>1 DEF Torn
<1>3. CASE \E b \in {o.ok, a.ok} : part = [o EXCEPT !.ok = b]
  BY <1>1, <1>3 DEF ChunkParts
<1>4. ASSUME NEW w \in Weights,
             part = [a EXCEPT !.length = Mix(a.length, o.length, w)]
      PROVE  part \in ChunkParts
  <2>1. PICK m \in Nat : m = Mix(a.length, o.length, w)
    <3>1. PICK x \in Nat, y \in Nat : x = a.length /\ y = o.length
      BY <1>1
    <3>2. Mix(x, y, w) \in Nat
      BY MixNat
    <3>3. Mix(a.length, o.length, w) \in Nat
      BY <3>1, <3>2
    <3> QED BY <3>3
  <2>2. part = [a EXCEPT !.length = m]
    BY <1>4, <2>1
  <2> QED BY <2>2 DEF ChunkParts
<1> QED BY <1>2, <1>3, <1>4

\* A header torn by a write that stopped has the parts of a header.
LEMMA TornHead ==
  ASSUME NEW n \in Nat, NEW old, HeadOK(old), NEW k \in 0..2, k < Len(old),
         NEW part \in Torn(Header(n)[k + 1], old[k + 1])
  PROVE  HeadOK(SubSeq(Header(n), 1, k) \o <<part>> \o SubSeq(old, k + 2, Len(old)))
<1>1. PICK new : new = Header(n)
  OBVIOUS
<1>2. new \in Seq(Parts) /\ Len(new) = 3 /\ HeadOK(new)
  BY <1>1, HeaderIs DEF HeadOK
<1>3. old \in Seq(Parts) /\ Len(old) \in 0..3
  BY DEF HeadOK
<1>4. /\ k = 0 => part \in RiffParts
      /\ k = 1 => part \in FmtParts
      /\ k = 2 => part \in ChunkParts
  <2>1. CASE k = 0
    <3>1. new[1] \in RiffParts /\ old[1] \in RiffParts
      BY <1>2, <2>1 DEF HeadOK
    <3>2. "bits" \notin DOMAIN new[1] /\ "length" \notin DOMAIN new[1]
      BY <3>1 DEF RiffParts
    <3>3. part \in Torn(new[1], old[1])
      BY <1>1, <2>1
    <3>4. part \in {[old[1] EXCEPT !.ok = b] : b \in {old[1].ok, new[1].ok}}
      BY <3>2, <3>3 DEF Torn
    <3> QED BY <2>1, <3>1, <3>4 DEF RiffParts
  <2>2. CASE k = 1
    <3>1. new[2] \in FmtParts /\ old[2] \in FmtParts
      BY <1>2, <2>2 DEF HeadOK
    <3>2. part \in Torn(new[2], old[2])
      BY <1>1, <2>2
    <3> QED BY <2>2, <3>1, <3>2, TornFmt
  <2>3. CASE k = 2
    <3>1. new[3] \in ChunkParts /\ old[3] \in ChunkParts
      BY <1>2, <2>3 DEF HeadOK
    <3>2. part \in Torn(new[3], old[3])
      BY <1>1, <2>3
    <3> QED BY <2>3, <3>1, <3>2, TornChunk
  <2> QED BY <2>1, <2>2, <2>3
<1>5. part \in Parts
  <2>1. k = 0 \/ k = 1 \/ k = 2
    OBVIOUS
  <2> QED BY <1>4, <2>1 DEF Parts
<1>6. PICK w : w = SubSeq(new, 1, k) \o <<part>> \o SubSeq(old, k + 2, Len(old))
  OBVIOUS
<1>7. Spliced(w, new, k, part, old, Parts)
  <2>1. k \in Nat /\ k <= Len(new)
    BY <1>2
  <2>2. Spliced(SubSeq(new, 1, k) \o <<part>> \o SubSeq(old, k + 2, Len(old)),
                new, k, part, old, Parts)
    BY <1>2, <1>3, <1>5, <2>1, SplicedIs
  <2> QED BY <1>6, <2>2
<1>8. w \in Seq(Parts) /\ Len(w) = Len(old) /\ Len(w) \in 0..3
  BY <1>3, <1>7 DEF Spliced
<1>9. \A i \in 1..Len(old) :
        w[i] = IF i <= k THEN new[i] ELSE IF i = k + 1 THEN part ELSE old[i]
  BY <1>7 DEF Spliced
<1>10. Len(w) > 0 => w[1] \in RiffParts
  <2>1. SUFFICES ASSUME Len(w) > 0 PROVE w[1] \in RiffParts
    OBVIOUS
  <2>2. 1 \in 1..Len(old)
    BY <1>3, <1>8, <2>1
  <2>3. w[1] = IF 1 <= k THEN new[1] ELSE IF 1 = k + 1 THEN part ELSE old[1]
    BY <1>9, <2>2
  <2>4. new[1] \in RiffParts
    BY <1>2 DEF HeadOK
  <2> QED BY <1>4, <2>3, <2>4
<1>11. Len(w) > 1 => w[2] \in FmtParts
  <2>1. SUFFICES ASSUME Len(w) > 1 PROVE w[2] \in FmtParts
    OBVIOUS
  <2>2. 2 \in 1..Len(old) /\ Len(old) > 1
    BY <1>3, <1>8, <2>1
  <2>3. w[2] = IF 2 <= k THEN new[2] ELSE IF 2 = k + 1 THEN part ELSE old[2]
    BY <1>9, <2>2
  <2>4. new[2] \in FmtParts /\ old[2] \in FmtParts
    BY <1>2, <2>2 DEF HeadOK
  <2> QED BY <1>4, <2>3, <2>4
<1>12. Len(w) > 2 => w[3] \in ChunkParts
  <2>1. SUFFICES ASSUME Len(w) > 2 PROVE w[3] \in ChunkParts
    OBVIOUS
  <2>2. 3 \in 1..Len(old) /\ Len(old) > 2
    BY <1>3, <1>8, <2>1
  <2>3. w[3] = IF 3 <= k THEN new[3] ELSE IF 3 = k + 1 THEN part ELSE old[3]
    BY <1>9, <2>2
  <2>4. old[3] \in ChunkParts
    BY <2>2 DEF HeadOK
  <2> QED BY <1>4, <2>3, <2>4
<1>13. HeadOK(w)
  BY <1>8, <1>10, <1>11, <1>12 DEF HeadOK
<1> QED BY <1>1, <1>6, <1>13

\* The first parts of a header are a header that is cut.
LEMMA CutHead ==
  ASSUME NEW n \in Nat, NEW k \in 0..2
  PROVE  HeadOK(SubSeq(Header(n), 1, k))
<1>1. PICK new : new = Header(n)
  OBVIOUS
<1>2. new \in Seq(Parts) /\ Len(new) = 3 /\ HeadOK(new)
  BY <1>1, HeaderIs DEF HeadOK
<1>3. \A i \in 1..k : new[i] \in Parts
  BY <1>2
<1>4. /\ SubSeq(new, 1, k) \in Seq(Parts)
      /\ Len(SubSeq(new, 1, k)) = IF 1 <= k THEN k - 1 + 1 ELSE 0
      /\ \A i \in 1..k - 1 + 1 : SubSeq(new, 1, k)[i] = new[1 + i - 1]
  BY <1>3, SubSeqProperties
<1>5. PICK w : w = SubSeq(new, 1, k)
  OBVIOUS
<1>6. (IF 1 <= k THEN k - 1 + 1 ELSE 0) = k /\ k - 1 + 1 = k
  OBVIOUS
<1>7. w \in Seq(Parts) /\ Len(w) = k /\ \A i \in 1..k : w[i] = new[i]
  <2>1. \A i \in 1..k : 1 + i - 1 = i
    OBVIOUS
  <2> QED BY <1>4, <1>5, <1>6, <2>1
<1>8. new[1] \in RiffParts /\ new[2] \in FmtParts
  BY <1>2 DEF HeadOK
<1>9. HeadOK(w)
  BY <1>7, <1>8 DEF HeadOK
<1> QED BY <1>1, <1>5, <1>9

\* The bytes of the whole frames in n bytes.
Whole(F, n) == (n \div F) * F

\* Rounding down to frames: less than a frame is lost, and nothing the second time.
LEMMA WholeIs ==
  ASSUME NEW F \in {1, 2, 4}, NEW n \in Nat
  PROVE  /\ Whole(F, n) \in Nat /\ Whole(F, n) <= n /\ n < Whole(F, n) + F
         /\ Whole(F, Whole(F, n)) = Whole(F, n)
<1>1. CASE F = 1
  BY <1>1 DEF Whole
<1>2. CASE F = 2
  BY <1>2 DEF Whole
<1>3. CASE F = 4
  BY <1>3 DEF Whole
<1> QED BY <1>1, <1>2, <1>3

\* Frames behind whole frames are whole frames.
LEMMA WholeMore ==
  ASSUME NEW F \in {1, 2, 4}, NEW a \in Nat, NEW r \in Nat, Whole(F, a) = a
  PROVE  Whole(F, a + r * F) = a + r * F
<1>1. CASE F = 1
  BY <1>1 DEF Whole
<1>2. CASE F = 2
  BY <1>2 DEF Whole
<1>3. CASE F = 4
  BY <1>3 DEF Whole
<1> QED BY <1>1, <1>2, <1>3

\* Whole frames that fit in n bytes are among the whole frames of n bytes.
LEMMA WholeBelow ==
  ASSUME NEW F \in {1, 2, 4}, NEW a \in Nat, NEW n \in Nat, Whole(F, a) = a, a <= n
  PROVE  a <= Whole(F, n)
<1>1. CASE F = 1
  BY <1>1 DEF Whole
<1>2. CASE F = 2
  BY <1>2 DEF Whole
<1>3. CASE F = 4
  BY <1>3 DEF Whole
<1> QED BY <1>1, <1>2, <1>3

\* The whole frames of n bytes behind whole frames.
LEMMA WholeBehind ==
  ASSUME NEW F \in {1, 2, 4}, NEW a \in Nat, NEW n \in Nat, Whole(F, a) = a
  PROVE  Whole(F, a + n) = a + Whole(F, n)
<1>1. CASE F = 1
  BY <1>1 DEF Whole
<1>2. CASE F = 2
  BY <1>2 DEF Whole
<1>3. CASE F = 4
  BY <1>3 DEF Whole
<1> QED BY <1>1, <1>2, <1>3

\* Frames counted in bytes.
LEMMA InBytes ==
  ASSUME NEW F \in {1, 2, 4}, NEW x \in Nat, NEW y \in Nat
  PROVE  /\ x * F \in Nat /\ (x + y) * F = x * F + y * F
         /\ x <= y => x * F <= y * F /\ (y - x) * F = y * F - x * F
         /\ x < y => x * F + F <= y * F
         /\ x <= x * F /\ (x * F) \div F = x
<1>1. CASE F = 1
  BY <1>1
<1>2. CASE F = 2
  BY <1>2
<1>3. CASE F = 4
  BY <1>3
<1> QED BY <1>1, <1>2, <1>3

\* What lplay lets through has frames of one, two or four bytes.
LEMMA FormatBytes ==
  ASSUME NEW fmt \in FmtParts, fmt.channels \in {1, 2}, Playable(fmt)
  PROVE  BytesPerFrame(fmt) \in {1, 2, 4}
<1>1. PICK c \in {1, 2}, b \in {8, 16} : c = fmt.channels /\ b = fmt.bits
  BY DEF Playable
<1>2. (b * c) \div 8 \in {1, 2, 4}
  OBVIOUS
<1> QED BY <1>1, <1>2 DEF BytesPerFrame

\* What lrecord records has frames of four.
LEMMA RecordBytes == BytesPerFrame(RecordFormat) = 4 /\ Playable(RecordFormat)
<1>1. /\ RecordFormat.pcm /\ RecordFormat.bits = 16 /\ RecordFormat.channels = 2
  BY DEF RecordFormat, Fmt
<1> QED BY <1>1 DEF BytesPerFrame, Playable

\* The card is set up with a period, and a buffer of that many frames.
LEMMA SetUp ==
  ASSUME NEW fmt, BytesPerFrame(fmt) \in {1, 2, 4}, SetParams(fmt)
  PROVE  /\ frameBytes' = BytesPerFrame(fmt) /\ frameBytes' \in {1, 2, 4}
         /\ chunk' \in Periods /\ chunk' \in Nat /\ chunk' > 0
         /\ buf' \in Seq(Int) /\ Len(buf') = chunk' * frameBytes'
<1>1. frameBytes' = BytesPerFrame(fmt) /\ chunk' \in Periods
  BY DEF SetParams
<1>2. chunk' \in Nat /\ chunk' > 0
  BY <1>1, SndWavAssumption DEF SndWavAssumption
<1>3. PICK F \in {1, 2, 4} : F = frameBytes'
  BY <1>1
<1>4. PICK c \in Nat : c = chunk'
  BY <1>2
<1>5. PICK n \in Nat : n = c * F
  BY InBytes
<1>6. buf' = [k \in 1..n |-> Junk]
  BY <1>3, <1>4, <1>5 DEF SetParams
<1>7. Junk \in Int
  BY DEF Junk
<1>8. [k \in 1..n |-> Junk] \in [1..n -> Int]
  BY <1>7
<1>9. buf' \in Seq(Int) /\ Len(buf') = n
  BY <1>6, <1>8, FunctionIsSeq
<1> QED BY <1>1, <1>2, <1>3, <1>4, <1>5, <1>9

\* n frames of the card are a sequence of their bytes.
LEMMA FramesAre ==
  ASSUME NEW f \in Nat, NEW n \in Nat, frameBytes \in {1, 2, 4}
  PROVE  Frames(f, n) \in Seq(Int) /\ Len(Frames(f, n)) = n * frameBytes
<1>1. PICK F \in {1, 2, 4} : F = frameBytes
  OBVIOUS
<1>2. PICK m \in Nat : m = n * F
  BY InBytes
<1>3. PICK a \in Int : a = (f - 1) * F
  <2>1. (f - 1) * F \in Int
    OBVIOUS
  <2> QED BY <2>1
<1>4. Frames(f, n) = [k \in 1..m |-> a + k]
  BY <1>1, <1>2, <1>3 DEF Frames
<1>5. [k \in 1..m |-> a + k] \in [1..m -> Int]
  OBVIOUS
<1> QED BY <1>1, <1>2, <1>4, <1>5, FunctionIsSeq

\* n bytes of silence.
LEMMA SilenceIs ==
  ASSUME NEW n \in Nat
  PROVE  /\ Silence(n) \in Seq(Int) /\ Len(Silence(n)) = n
         /\ \A k \in 1..n : Silence(n)[k] = 0
<1>1. Silence(n) \in [1..n -> Int] /\ \A k \in 1..n : Silence(n)[k] = 0
  BY DEF Silence
<1> QED BY <1>1, FunctionIsSeq

-----------------------------------------------------------------------------
(***************************************************************************)
(* The invariant: the types; what is on the disk while a recording is      *)
(* made; that one not stopped is the card's sound from its start; and      *)
(* where the player is in the file, in its buffer and with the card.       *)
(***************************************************************************)
SndTypes ==
  /\ pc \in {"idle", "header", "record", "read", "recorded", "load", "write", "done",
             "exited"}
  /\ file \in [head : Seq(Parts), data : Seq(Int)] /\ HeadOK(file.head)
  /\ frameBytes \in {0, 1, 2, 4} /\ chunk \in Periods \cup {0}
  /\ buf \in Seq(Int) /\ Len(buf) = ChunkBytes
  /\ left \in 0..chunk /\ data \in 0..chunk
  /\ load \in 0..ChunkBytes /\ pos \in 0..Len(file.data)
  /\ rest \in Nat /\ written \in Nat /\ frame \in Nat /\ suspended \in BOOLEAN
  /\ kept \in Seq(Int) /\ taken \in Seq(Int) /\ played \in Seq(Int)

\* A program that records has played nothing.
Unplayed ==
  pc \in {"idle", "header", "record", "read", "recorded"} =>
    load = 0 /\ written = 0 /\ played = << >>

\* f is t up to p, and from there on what k has behind p.
Laid(f, t, p, k) ==
  /\ p <= Len(t) /\ Len(f) = IF p < Len(k) THEN Len(k) ELSE p
  /\ \A j \in 1..Len(f) : f[j] = IF j <= p THEN t[j] ELSE k[j]

\* The recorder: between two chunks the file has all that was taken, within one
\* the buffer has what the file still lacks.
Recording ==
  /\ pc \in {"idle", "header"} => taken = << >> /\ pos = 0 /\ left = 0 /\ data = 0
  /\ pc \in {"header", "record", "read"} => frameBytes = 4 /\ chunk > 0
  /\ pc = "header" => rest \in Lengths
  /\ pc \in {"header", "record", "read", "recorded"} => Laid(file.data, taken, pos, kept)
  /\ pc \in {"record", "read"} => \E n \in Lengths : file.head = Header(n) /\ pos + rest = n
  /\ pc = "record" /\ rest > 0 => Len(taken) = pos
  /\ pc = "read" => /\ rest > 0 /\ left + data = chunk
                    /\ Len(taken) = pos + data * frameBytes
                    /\ \A k \in 1..(data * frameBytes) : buf[k] = taken[pos + k]

\* A recording of which nothing is left to record is all its header says.
Complete ==
  taken # << >> /\ rest = 0 =>
    \E n \in Lengths : /\ file.head = Header(n) /\ n <= Len(taken) /\ n <= Len(file.data)
                       /\ \A k \in 1..n : file.data[k] = taken[k]

\* The player: whole frames are behind it, the buffer has the next of the file, and
\* a chunk that is not full ends the sound.
Playing ==
  /\ pc \in {"load", "write", "done"} =>
       /\ Len(file.head) = 3 /\ frameBytes > 0 /\ chunk > 0
       /\ frameBytes = BytesPerFrame(file.head[2])
       /\ WholeFrames(written) = written
  /\ pc = "load" =>
       /\ pos = written + load /\ pos <= Count /\ Len(played) = written
       /\ \A k \in 1..written : played[k] = file.data[k]
       /\ \A k \in 1..load : buf[k] = file.data[written + k]
  /\ pc = "write" =>
       /\ load \in 0..chunk /\ left + data = chunk
       /\ Len(played) = written + data * frameBytes
       /\ written + load * frameBytes <= Sound
       /\ IF load < chunk THEN written + load * frameBytes = Sound
          ELSE pos = written + ChunkBytes
       /\ \A k \in 1..ChunkBytes :
            buf[k] = IF k <= load * frameBytes THEN file.data[written + k] ELSE 0
       /\ \A k \in 1..Len(played) :
            played[k] = IF k <= written + load * frameBytes THEN file.data[k] ELSE 0
  /\ pc = "done" =>
       /\ Sound <= Len(played) /\ Len(played) <= Sound + ChunkBytes
       /\ \A k \in 1..Len(played) : played[k] = IF k <= Sound THEN file.data[k] ELSE 0

SndInv == SndTypes /\ Unplayed /\ Recording /\ Complete /\ Playing

\* What the header of a file that is played says.
LEMMA HeadOfPlayed ==
  ASSUME SndTypes, Len(file.head) = 3
  PROVE  Count \in Nat /\ file.head[2] \in FmtParts
<1>1. HeadOK(file.head) /\ Len(file.head) > 1 /\ Len(file.head) > 2
  BY DEF SndTypes
<1>2. file.head[2] \in FmtParts /\ file.head[3] \in ChunkParts
  BY <1>1 DEF HeadOK
<1> QED BY <1>2 DEF Count, ChunkParts

\* The header of a recording says how long it was to be.
LEMMA HeadOfRecorded ==
  ASSUME NEW n \in Lengths, file.head = Header(n)
  PROVE  /\ n \in Nat /\ n > 0 /\ Count = n
         /\ Len(file.head) = 3 /\ file.head[2] = RecordFormat
<1>1. n \in Nat /\ n > 0
  BY SndWavAssumption DEF SndWavAssumption
<1> QED BY <1>1, HeaderIs DEF Count

\* The sound of a file: whole frames, within what the header promises and the file
\* has, and all of what both agree on.
LEMMA SoundIs ==
  ASSUME SndTypes, Len(file.head) = 3, frameBytes > 0
  PROVE  /\ Sound \in Nat /\ Sound <= Count /\ Sound <= Len(file.data)
         /\ Count <= Len(file.data) => Sound = Whole(frameBytes, Count)
         /\ Count >= Len(file.data) => Sound = Whole(frameBytes, Len(file.data))
<1>1. PICK c \in Nat : c = Count
  BY HeadOfPlayed
<1>2. PICK d \in Nat : d = Len(file.data)
  BY DEF SndTypes
<1>3. PICK F \in {1, 2, 4} : F = frameBytes
  BY DEF SndTypes
<1>4. Min({c, d}) = IF c <= d THEN c ELSE d
  BY MinTwo
<1>5. PICK m \in Nat : m = Min({c, d})
  BY <1>4
<1>6. Sound = Whole(F, m)
  BY <1>1, <1>2, <1>3, <1>5 DEF Sound, WholeFrames, Whole
<1>7. Whole(F, m) \in Nat /\ Whole(F, m) <= m
  BY WholeIs
<1> QED BY <1>1, <1>2, <1>3, <1>4, <1>5, <1>6, <1>7

-----------------------------------------------------------------------------
(***************************************************************************)
(* The recorder keeps the invariant.                                       *)
(***************************************************************************)
\* Nothing is known of the start but the file.
LEMMA InitInv ==
  ASSUME Init
  PROVE  SndInv
<1>1. SndTypes
  <2>1. file \in [head : Seq(Parts), data : Seq(Int)] /\ HeadOK(file.head)
    <3>1. CASE file \in Others
      <4>1. file \in [head : Seq(Parts), data : Seq(Nat \ {0})] /\ HeadOK(file.head)
        BY <3>1, SndWavAssumption DEF SndWavAssumption
      <4>2. file.data \in Seq(Int)
        BY <4>1
      <4> QED BY <4>1, <4>2
    <3>2. CASE file = Empty
      <4>1. Empty.head = << >> /\ Empty.data = << >>
        BY DEF Empty
      <4>2. Empty \in [head : Seq(Parts), data : Seq(Int)]
        BY DEF Empty
      <4>3. HeadOK(Empty.head)
        BY <4>1 DEF HeadOK
      <4> QED BY <3>2, <4>2, <4>3
    <3> QED BY <3>1, <3>2 DEF Init
  <2>2. Len(file.data) \in Nat /\ ChunkBytes = 0 /\ << >> \in Seq(Int)
    BY <2>1 DEF Init, ChunkBytes
  <2>3. Len(<< >>) = 0 /\ 0 \in 0..0 /\ \A n \in Nat : 0 \in 0..n
    OBVIOUS
  <2>4. buf \in Seq(Int) /\ Len(buf) = ChunkBytes /\ load \in 0..ChunkBytes
    BY <2>2, <2>3 DEF Init
  <2>5. /\ pos \in 0..Len(file.data) /\ kept \in Seq(Int) /\ taken \in Seq(Int)
        /\ played \in Seq(Int) /\ left \in 0..chunk /\ data \in 0..chunk
    BY <2>2, <2>3 DEF Init
  <2>6. frameBytes \in {0, 1, 2, 4} /\ chunk \in Periods \cup {0}
    BY DEF Init
  <2>7. rest \in Nat /\ written \in Nat /\ frame \in Nat /\ suspended \in BOOLEAN
    BY DEF Init
  <2>8. pc = "idle"
    BY DEF Init
  <2> QED BY <2>1, <2>4, <2>5, <2>6, <2>7, <2>8 DEF SndTypes
<1>2. Unplayed /\ Recording /\ Complete /\ Playing
  BY DEF Init, Unplayed, Recording, Complete, Playing
<1> QED BY <1>1, <1>2 DEF SndInv

\* A step that changes nothing.
LEMMA StutterStep ==
  ASSUME SndInv, UNCHANGED vars
  PROVE  SndInv'
<1> USE DEF vars, paramVars, loopVars, recordVars, playVars, SndInv
<1>1. SndTypes'
  BY DEF SndTypes, ChunkBytes
<1>2. Unplayed' /\ Recording' /\ Complete'
  BY DEF Unplayed, Recording, Laid, Complete
<1>3. Playing'
  BY DEF Playing, ChunkBytes, Count, WholeFrames, Sound
<1> QED BY <1>1, <1>2, <1>3

\* The end of a recording changes nothing that is recorded.
LEMMA RecordEndStep ==
  ASSUME SndInv, RecordEnd
  PROVE  SndInv'
<1> USE DEF RecordEnd, paramVars, loopVars, recordVars, playVars, SndInv
<1>1. SndTypes'
  BY DEF SndTypes, ChunkBytes
<1>2. Unplayed' /\ Recording'
  BY DEF Unplayed, Recording, Laid
<1>3. Complete' /\ Playing'
  BY DEF Complete, Playing
<1> QED BY <1>1, <1>2, <1>3

\* Nor does the card's suspension.
LEMMA SuspendStep ==
  ASSUME SndInv, Suspend
  PROVE  SndInv'
<1> USE DEF Suspend, paramVars, loopVars, recordVars, playVars, SndInv
<1>1. SndTypes'
  BY DEF SndTypes, ChunkBytes
<1>2. Unplayed' /\ Recording' /\ Complete'
  BY DEF Unplayed, Recording, Laid, Complete
<1>3. Playing'
  BY DEF Playing, ChunkBytes, Count, WholeFrames, Sound
<1> QED BY <1>1, <1>2, <1>3

\* The file a recording starts from, the old one or an empty one.
LEMMA StartFile ==
  ASSUME SndTypes, file' \in {file, Empty}, kept' = file'.data
  PROVE  /\ file' \in [head : Seq(Parts), data : Seq(Int)] /\ HeadOK(file'.head)
         /\ kept' \in Seq(Int) /\ Laid(file'.data, << >>, 0, kept')
<1>1. file' \in [head : Seq(Parts), data : Seq(Int)] /\ HeadOK(file'.head)
  <2>1. CASE file' = file
    BY <2>1 DEF SndTypes
  <2>2. CASE file' = Empty
    <3>1. Empty.head = << >> /\ Empty.data = << >>
      BY DEF Empty
    <3>2. Empty \in [head : Seq(Parts), data : Seq(Int)]
      BY DEF Empty
    <3>3. HeadOK(Empty.head)
      BY <3>1 DEF HeadOK
    <3> QED BY <2>2, <3>2, <3>3
  <2> QED BY <2>1, <2>2
<1>2. file'.data \in Seq(Int)
  BY <1>1
<1>3. Laid(file'.data, << >>, 0, kept')
  BY <1>2 DEF Laid
<1> QED BY <1>1, <1>2, <1>3

\* A recording starts with the card set up and nothing recorded.
LEMMA RecordStartStep ==
  ASSUME SndInv, RecordStart
  PROVE  SndInv'
<1>1. /\ pc = "idle" /\ pc' = "header" /\ rest' \in Lengths
      /\ UNCHANGED <<pos, left, data, frame, taken, load, written, played, suspended>>
  BY DEF RecordStart, playVars
<1>2. /\ frameBytes' = 4 /\ chunk' \in Periods /\ chunk' \in Nat /\ chunk' > 0
      /\ buf' \in Seq(Int) /\ Len(buf') = chunk' * frameBytes'
  BY RecordBytes, SetUp DEF RecordStart
<1>3. /\ file' \in [head : Seq(Parts), data : Seq(Int)] /\ HeadOK(file'.head)
      /\ kept' \in Seq(Int) /\ Laid(file'.data, << >>, 0, kept')
  BY StartFile DEF SndInv, RecordStart
<1>4. taken = << >> /\ pos = 0 /\ left = 0 /\ data = 0
  BY <1>1 DEF SndInv, Recording
<1>5. load = 0 /\ written = 0 /\ played = << >>
  BY <1>1 DEF SndInv, Unplayed
<1>6. rest' \in Nat
  BY <1>1, SndWavAssumption DEF SndWavAssumption
<1>7. SndTypes'
  <2>1. PICK F \in {1, 2, 4} : F = frameBytes'
    BY <1>2
  <2>2. PICK c \in Nat : c = chunk'
    BY <1>2
  <2>3. PICK b \in Nat : b = c * F
    BY InBytes
  <2>4. ChunkBytes' = b /\ Len(file'.data) \in Nat
    BY <1>3, <2>1, <2>2, <2>3 DEF ChunkBytes
  <2>5. Len(buf') = ChunkBytes' /\ load' \in 0..ChunkBytes' /\ pos' \in 0..Len(file'.data)
    <3>1. Len(buf') = chunk' * frameBytes' /\ chunk' * frameBytes' = ChunkBytes'
      BY <1>2 DEF ChunkBytes
    <3>2. load' = 0 /\ pos' = 0
      BY <1>1, <1>4, <1>5
    <3> QED BY <2>4, <3>1, <3>2
  <2>6. left' \in 0..chunk' /\ data' \in 0..chunk'
    BY <1>1, <1>2, <1>4
  <2>7. /\ taken \in Seq(Int) /\ played \in Seq(Int) /\ written \in Nat /\ frame \in Nat
        /\ suspended \in BOOLEAN
    BY DEF SndInv, SndTypes
  <2> QED BY <1>1, <1>2, <1>3, <1>6, <2>5, <2>6, <2>7 DEF SndTypes
<1>8. Unplayed'
  BY <1>1, <1>5 DEF Unplayed
<1>9. Recording'
  BY <1>1, <1>2, <1>3, <1>4 DEF Recording
<1>10. Complete' /\ Playing'
  BY <1>1, <1>4 DEF Complete, Playing
<1> QED BY <1>7, <1>8, <1>9, <1>10 DEF SndInv

\* A recording that fails before it starts leaves the old file or none.
LEMMA RecordFailsStep ==
  ASSUME SndInv, RecordFails
  PROVE  SndInv'
<1>1. /\ pc = "idle" /\ pc' = "recorded"
      /\ UNCHANGED <<pos, frameBytes, chunk, buf, left, data, rest, frame, taken, load,
                     written, played, suspended>>
  BY DEF RecordFails, paramVars, loopVars, playVars
<1>2. /\ file' \in [head : Seq(Parts), data : Seq(Int)] /\ HeadOK(file'.head)
      /\ kept' \in Seq(Int) /\ Laid(file'.data, << >>, 0, kept')
  BY StartFile DEF SndInv, RecordFails
<1>3. taken = << >> /\ pos = 0
  BY <1>1 DEF SndInv, Recording
<1>4. SndTypes'
  <2>1. Len(file'.data) \in Nat
    BY <1>2
  <2> QED BY <1>1, <1>2, <1>3, <2>1 DEF SndInv, SndTypes, ChunkBytes
<1>5. Unplayed'
  BY <1>1 DEF SndInv, Unplayed
<1>6. Recording'
  BY <1>1, <1>2, <1>3 DEF Recording
<1>7. Complete' /\ Playing'
  BY <1>1, <1>3 DEF Complete, Playing
<1> QED BY <1>4, <1>5, <1>6, <1>7 DEF SndInv

\* The header of a recording is written whole and the recording goes on, or in part
\* and it ends.
LEMMA WriteHeaderStep ==
  ASSUME SndInv, WriteHeader
  PROVE  SndInv'
<1>1. /\ pc = "header"
      /\ UNCHANGED <<pos, frameBytes, chunk, buf, left, data, rest, frame, kept, taken,
                     load, written, played, suspended>>
  BY DEF WriteHeader, paramVars, loopVars, recordVars, playVars
<1>2. rest \in Lengths /\ rest \in Nat
  BY <1>1, SndWavAssumption DEF SndInv, Recording, SndWavAssumption
<1>3. file \in [head : Seq(Parts), data : Seq(Int)] /\ HeadOK(file.head)
  BY DEF SndInv, SndTypes
<1>4. \E h : /\ HeadOK(h) /\ file' = [file EXCEPT !.head = h]
             /\ \/ pc' = "record" /\ h = Header(rest)
                \/ pc' = "recorded"
  <2>1. CASE pc' = "record" /\ file' = [file EXCEPT !.head = Header(rest)]
    <3>1. HeadOK(Header(rest))
      BY <1>2, HeaderIs
    <3> QED BY <2>1, <3>1
  <2>2. CASE /\ pc' = "recorded"
             /\ \E k \in 0..2 :
                  IF k >= Len(file.head)
                  THEN file' = [file EXCEPT !.head = SubSeq(Header(rest), 1, k)]
                  ELSE \E part \in Torn(Header(rest)[k + 1], file.head[k + 1]) :
                         file' = [file EXCEPT !.head =
                                    SubSeq(Header(rest), 1, k) \o <<part>>
                                      \o SubSeq(file.head, k + 2, Len(file.head))]
    <3>1. PICK k \in 0..2 :
                  IF k >= Len(file.head)
                  THEN file' = [file EXCEPT !.head = SubSeq(Header(rest), 1, k)]
                  ELSE \E part \in Torn(Header(rest)[k + 1], file.head[k + 1]) :
                         file' = [file EXCEPT !.head =
                                    SubSeq(Header(rest), 1, k) \o <<part>>
                                      \o SubSeq(file.head, k + 2, Len(file.head))]
      BY <2>2
    <3>2. CASE k >= Len(file.head)
      <4>1. HeadOK(SubSeq(Header(rest), 1, k))
        BY <1>2, CutHead
      <4>2. file' = [file EXCEPT !.head = SubSeq(Header(rest), 1, k)]
        BY <3>1, <3>2
      <4> QED BY <2>2, <4>1, <4>2
    <3>3. CASE ~(k >= Len(file.head))
      <4>1. PICK part \in Torn(Header(rest)[k + 1], file.head[k + 1]) :
              file' = [file EXCEPT !.head =
                         SubSeq(Header(rest), 1, k) \o <<part>>
                           \o SubSeq(file.head, k + 2, Len(file.head))]
        BY <3>1, <3>3
      <4>2. k < Len(file.head)
        BY <1>3, <3>3 DEF HeadOK
      <4>3. HeadOK(SubSeq(Header(rest), 1, k) \o <<part>>
                     \o SubSeq(file.head, k + 2, Len(file.head)))
        BY <1>2, <1>3, <4>2, TornHead
      <4> QED BY <2>2, <4>1, <4>3
    <3> QED BY <3>2, <3>3
  <2> QED BY <2>1, <2>2 DEF WriteHeader
<1>5. PICK h : /\ HeadOK(h) /\ file' = [file EXCEPT !.head = h]
               /\ \/ pc' = "record" /\ h = Header(rest)
                  \/ pc' = "recorded"
  BY <1>4
<1>6. /\ file' \in [head : Seq(Parts), data : Seq(Int)]
      /\ file'.head = h /\ file'.data = file.data
  <2>1. h \in Seq(Parts)
    BY <1>5 DEF HeadOK
  <2> QED BY <1>3, <1>5, <2>1
<1>7. SndTypes'
  <2>1. pc' \in {"record", "recorded"}
    BY <1>5
  <2> QED BY <1>1, <1>5, <1>6, <2>1 DEF SndInv, SndTypes, ChunkBytes
<1>8. Unplayed'
  BY <1>1, <1>5 DEF SndInv, Unplayed
<1>9. /\ taken = << >> /\ pos = 0 /\ frameBytes = 4 /\ chunk > 0
      /\ Laid(file.data, taken, pos, kept)
  BY <1>1 DEF SndInv, Recording
<1>10. Recording'
  <2>1. Laid(file'.data, taken', pos', kept')
    BY <1>1, <1>6, <1>9
  <2>2. pc' = "record" =>
          file'.head = Header(rest') /\ rest' \in Lengths /\ pos' + rest' = rest'
    BY <1>1, <1>2, <1>5, <1>6, <1>9
  <2>3. pc' = "record" => \E n \in Lengths : file'.head = Header(n) /\ pos' + rest' = n
    BY <2>2
  <2>4. Len(taken') = 0
    BY <1>1, <1>9
  <2>5. pc' \in {"record", "recorded"} /\ frameBytes' = 4 /\ chunk' > 0 /\ pos' = 0
    BY <1>1, <1>5, <1>9
  <2> QED BY <2>1, <2>3, <2>4, <2>5 DEF Recording
<1>11. Complete' /\ Playing'
  BY <1>1, <1>5, <1>9 DEF Complete, Playing
<1> QED BY <1>7, <1>8, <1>10, <1>11 DEF SndInv

\* The next chunk of a recording is read, or there is none.
LEMMA RecordChunkStep ==
  ASSUME SndInv, RecordChunk
  PROVE  SndInv'
<1>1. /\ pc = "record"
      /\ UNCHANGED <<file, pos, frameBytes, chunk, buf, rest, frame, kept, taken, load,
                     written, played, suspended>>
      /\ \/ rest > 0 /\ pc' = "read" /\ left' = chunk /\ data' = 0
         \/ ~(rest > 0) /\ pc' = "recorded" /\ UNCHANGED <<left, data>>
  BY DEF RecordChunk, paramVars, recordVars, playVars
<1>2. chunk \in Nat /\ pos \in Nat /\ frameBytes = 4 /\ chunk > 0
  <2>1. chunk \in Nat /\ chunk > 0
    BY <1>1, SndWavAssumption DEF SndInv, SndTypes, Recording, SndWavAssumption
  <2> QED BY <1>1, <2>1 DEF SndInv, SndTypes, Recording
<1>3. SndTypes'
  <2>1. left' \in 0..chunk' /\ data' \in 0..chunk'
    BY <1>1, <1>2 DEF SndInv, SndTypes
  <2> QED BY <1>1, <2>1 DEF SndInv, SndTypes, ChunkBytes
<1>4. Unplayed'
  BY <1>1 DEF SndInv, Unplayed
<1>5. Recording'
  <2>1. Laid(file'.data, taken', pos', kept')
    BY <1>1 DEF SndInv, Recording, Laid
  <2>2. \E n \in Lengths : file'.head = Header(n) /\ pos' + rest' = n
    BY <1>1 DEF SndInv, Recording
  <2>3. pc' = "read" => /\ rest' > 0 /\ left' + data' = chunk' /\ frameBytes' = 4 /\ chunk' > 0
                        /\ Len(taken') = pos' + data' * frameBytes'
    BY <1>1, <1>2 DEF SndInv, Recording
  <2>4. pc' = "read" => \A k \in 1..(data' * frameBytes') : buf'[k] = taken'[pos' + k]
    <3>1. SUFFICES ASSUME pc' = "read", NEW k \in 1..(data' * frameBytes') PROVE FALSE
      OBVIOUS
    <3>2. data' * frameBytes' = 0
      BY <1>1, <1>2, <3>1
    <3> QED BY <3>1, <3>2
  <2> QED BY <1>1, <2>1, <2>2, <2>3, <2>4 DEF Recording
<1>6. Complete' /\ Playing'
  BY <1>1 DEF SndInv, Complete, Playing
<1> QED BY <1>3, <1>4, <1>5, <1>6 DEF SndInv

\* A file is opened to be played, and nothing of it is played yet.
LEMMA PlayStartStep ==
  ASSUME SndInv, PlayStart
  PROVE  SndInv'
<1>1. /\ pc \in {"idle", "recorded"} /\ pos' = 0 /\ left' = 0 /\ data' = 0
      /\ UNCHANGED <<file, rest, frame, kept, taken, load, written, played, suspended>>
      /\ \/ WAV_ReadHeader(file.head) /\ SetParams(file.head[2]) /\ pc' = "load"
         \/ pc' = "exited" /\ UNCHANGED <<frameBytes, chunk, buf>>
  BY DEF PlayStart, paramVars, recordVars, playVars
<1>2. load = 0 /\ written = 0 /\ played = << >>
  BY <1>1 DEF SndInv, Unplayed
<1>3. Unplayed' /\ Recording' /\ Complete'
  BY <1>1 DEF SndInv, Unplayed, Recording, Complete
<1>4. file'.data \in Seq(Int) /\ Len(file'.data) \in Nat
  BY <1>1 DEF SndInv, SndTypes
<1>5. CASE pc' = "exited" /\ UNCHANGED <<frameBytes, chunk, buf>>
  <2>1. SndTypes'
    <3>1. chunk \in Nat
      BY SndWavAssumption DEF SndInv, SndTypes, SndWavAssumption
    <3> QED BY <1>1, <1>4, <1>5, <3>1 DEF SndInv, SndTypes, ChunkBytes
  <2>2. Playing'
    BY <1>5 DEF Playing
  <2> QED BY <1>3, <2>1, <2>2 DEF SndInv
<1>6. CASE WAV_ReadHeader(file.head) /\ SetParams(file.head[2]) /\ pc' = "load"
  <2>1. Len(file.head) = 3 /\ file.head[2].channels \in {1, 2}
    BY <1>6 DEF WAV_ReadHeader, WAV_P_CheckValid
  <2>2. Count \in Nat /\ file.head[2] \in FmtParts
    BY <2>1, HeadOfPlayed DEF SndInv
  <2>3. BytesPerFrame(file.head[2]) \in {1, 2, 4}
    BY <1>6, <2>1, <2>2, FormatBytes DEF SetParams
  <2>4. /\ frameBytes' = BytesPerFrame(file.head[2]) /\ frameBytes' \in {1, 2, 4}
        /\ chunk' \in Periods /\ chunk' \in Nat /\ chunk' > 0
        /\ buf' \in Seq(Int) /\ Len(buf') = chunk' * frameBytes'
    BY <1>6, <2>3, SetUp
  <2>5. SndTypes'
    <3>1. PICK F \in {1, 2, 4} : F = frameBytes'
      BY <2>4
    <3>2. PICK c \in Nat : c = chunk'
      BY <2>4
    <3>3. PICK b \in Nat : b = c * F
      BY InBytes
    <3>4. Len(buf') = chunk' * frameBytes' /\ chunk' * frameBytes' = ChunkBytes'
      BY <2>4 DEF ChunkBytes
    <3>5. ChunkBytes' = b
      BY <3>1, <3>2, <3>3 DEF ChunkBytes
    <3>6. Len(buf') = ChunkBytes' /\ load' \in 0..ChunkBytes' /\ pos' \in 0..Len(file'.data)
      BY <1>1, <1>2, <1>4, <3>4, <3>5
    <3>7. left' \in 0..chunk' /\ data' \in 0..chunk'
      BY <1>1, <2>4
    <3>8. /\ taken \in Seq(Int) /\ played \in Seq(Int) /\ written \in Nat /\ frame \in Nat
          /\ suspended \in BOOLEAN /\ kept \in Seq(Int) /\ rest \in Nat
          /\ file \in [head : Seq(Parts), data : Seq(Int)] /\ HeadOK(file.head)
      BY DEF SndInv, SndTypes
    <3> QED BY <1>1, <1>6, <2>4, <3>6, <3>7, <3>8 DEF SndTypes
  <2>6. Playing'
    <3>1. Count' \in Nat /\ Len(file'.head) = 3
      BY <1>1, <2>1, <2>2 DEF Count
    <3>2. frameBytes' > 0 /\ frameBytes' = BytesPerFrame(file'.head[2])
      BY <1>1, <2>4
    <3>3. WholeFrames(written)' = written'
      <4>1. PICK F \in {1, 2, 4} : F = frameBytes'
        BY <2>4
      <4>2. (0 \div F) * F = 0
        OBVIOUS
      <4> QED BY <1>1, <1>2, <4>1, <4>2 DEF WholeFrames
    <3>4. pos' = written' + load' /\ pos' <= Count' /\ Len(played') = written'
      BY <1>1, <1>2, <3>1
    <3>5. written' = 0 /\ load' = 0
      BY <1>1, <1>2
    <3> QED BY <1>6, <2>4, <3>1, <3>2, <3>3, <3>4, <3>5 DEF Playing
  <2> QED BY <1>3, <2>5, <2>6 DEF SndInv
<1> QED BY <1>1, <1>5, <1>6

\* What the card delivers goes behind what the chunk has, and is taken.
LEMMA ReadiStep ==
  ASSUME SndInv, Readi
  PROVE  SndInv'
<1>1. /\ pc = "read" /\ pc' = "read" /\ left > 0
      /\ UNCHANGED <<file, pos, frameBytes, chunk, rest, kept, load, written, played,
                     suspended>>
      /\ \/ \E r \in 1..left :
              /\ buf' = Patch(data * frameBytes, Frames(frame, r))
              /\ taken' = taken \o Frames(frame, r)
              /\ frame' = frame + r
              /\ left' = left - r /\ data' = data + r
         \/ frame' = frame + 1 /\ UNCHANGED <<buf, taken, left, data>>
  BY DEF Readi, paramVars, playVars
<1>2. /\ frameBytes = 4 /\ chunk > 0 /\ Laid(file.data, taken, pos, kept) /\ rest > 0
      /\ \E n \in Lengths : file.head = Header(n) /\ pos + rest = n
      /\ left + data = chunk /\ Len(taken) = pos + data * frameBytes
      /\ \A k \in 1..(data * frameBytes) : buf[k] = taken[pos + k]
  BY <1>1 DEF SndInv, Recording
<1>3. chunk \in Nat /\ frame \in Nat
  BY <1>2, SndWavAssumption DEF SndInv, SndTypes, SndWavAssumption
<1>4. left \in Nat /\ data \in Nat /\ pos \in Nat
  BY <1>3 DEF SndInv, SndTypes
<1>5. Unplayed'
  BY <1>1 DEF SndInv, Unplayed
<1>6. Complete' /\ Playing'
  BY <1>1, <1>2 DEF Complete, Playing
<1>7. CASE frame' = frame + 1 /\ UNCHANGED <<buf, taken, left, data>>
  <2>1. SndTypes'
    BY <1>1, <1>3, <1>7 DEF SndInv, SndTypes, ChunkBytes
  <2>2. Recording'
    BY <1>1, <1>2, <1>7 DEF Recording, Laid
  <2> QED BY <1>5, <1>6, <2>1, <2>2 DEF SndInv
<1>8. ASSUME NEW r \in 1..left,
             buf' = Patch(data * frameBytes, Frames(frame, r)),
             taken' = taken \o Frames(frame, r), frame' = frame + r,
             left' = left - r, data' = data + r
      PROVE  SndInv'
  <2>1. PICK fr \in Seq(Int) : fr = Frames(frame, r) /\ Len(fr) = r * 4
    <3>1. r \in Nat
      BY <1>4
    <3>2. Frames(frame, r) \in Seq(Int) /\ Len(Frames(frame, r)) = r * frameBytes
      BY <1>2, <1>3, <3>1, FramesAre
    <3> QED BY <1>2, <3>2
  <2>2. PICK m \in Nat : m = data * 4 /\ m = data * frameBytes
    BY <1>2, <1>4
  <2>3. PICK x \in Nat : x = r * 4
    BY <1>4
  <2>4. PICK c \in Nat : c = chunk * 4
    BY <1>3
  <2>5. m + x <= c
    <3>1. r \in Nat /\ data + r <= chunk
      BY <1>2, <1>3, <1>4
    <3> QED BY ONLY <1>3, <1>4, <2>2, <2>3, <2>4, <3>1
  <2>6. buf \in Seq(Int) /\ Len(buf) = c
    BY <1>2, <2>4 DEF SndInv, SndTypes, ChunkBytes
  <2>7. PICK b : b = buf'
    OBVIOUS
  <2>8. Overlaid(b, buf, m, fr)
    <3>1. Overlaid(Over(buf, m, fr), buf, m, fr)
      BY <2>5, <2>6, OverIs
    <3>2. b = Over(buf, m, fr)
      BY <1>8, <2>1, <2>2, <2>7 DEF Patch
    <3> QED BY <3>1, <3>2
  <2>9. /\ b \in Seq(Int) /\ Len(b) = c
        /\ \A k \in 1..c : b[k] = IF m < k /\ k <= m + x THEN fr[k - m] ELSE buf[k]
    BY <2>1, <2>3, <2>5, <2>6, <2>8 DEF Overlaid
  <2>10. taken \in Seq(Int) /\ kept \in Seq(Int) /\ file.data \in Seq(Int)
    BY DEF SndInv, SndTypes
  <2>11. PICK t : t = taken'
    OBVIOUS
  <2>12. Joined(t, taken, fr)
    BY <1>8, <2>1, <2>10, <2>11, JoinedIs
  <2>13. Len(taken) = pos + m /\ \A k \in 1..m : buf[k] = taken[pos + k]
    BY <1>2, <2>2
  <2>14. /\ t \in Seq(Int) /\ Len(t) = pos + m + x
         /\ \A k \in 1..pos + m + x : t[k] = IF k <= pos + m THEN taken[k] ELSE fr[k - (pos + m)]
    BY <2>1, <2>3, <2>12, <2>13 DEF Joined
  <2>15. ASSUME NEW k \in 1..m + x
         PROVE  b[k] = t[pos + k]
    <3>1. k \in 1..c /\ pos + k \in 1..pos + m + x
      BY <1>4, <2>5
    <3>2. CASE k <= m
      <4>1. b[k] = buf[k]
        BY <2>9, <3>1, <3>2
      <4>2. t[pos + k] = taken[pos + k]
        BY <1>4, <2>14, <3>1, <3>2
      <4> QED BY <2>13, <3>2, <4>1, <4>2
    <3>3. CASE k > m
      <4>1. b[k] = fr[k - m]
        BY <2>9, <3>1, <3>3
      <4>2. t[pos + k] = fr[pos + k - (pos + m)]
        BY <1>4, <2>14, <3>1, <3>3
      <4>3. pos + k - (pos + m) = k - m
        BY <1>4
      <4> QED BY <4>1, <4>2, <4>3
    <3> QED BY <3>2, <3>3
  <2>16. m + x = (data + r) * 4 /\ data + r \in Nat /\ left - r \in Nat
    BY <1>4, <2>2, <2>3
  <2>17. SndTypes'
    <3>1. left' \in 0..chunk' /\ data' \in 0..chunk' /\ frame' \in Nat
      BY <1>1, <1>2, <1>3, <1>4, <1>8
    <3>2. Len(b) = ChunkBytes /\ ChunkBytes' = ChunkBytes
      BY <1>1, <1>2, <2>4, <2>9 DEF ChunkBytes
    <3>3. buf' \in Seq(Int) /\ Len(buf') = ChunkBytes'
      BY <2>7, <2>9, <3>2
    <3>4. taken' \in Seq(Int)
      BY <2>11, <2>14
    <3> QED BY <1>1, <3>1, <3>2, <3>3, <3>4 DEF SndInv, SndTypes
  <2>18. Laid(file'.data, taken', pos', kept')
    <3>1. PICK d : d = file.data
      OBVIOUS
    <3>2. /\ pos <= Len(taken) /\ Len(d) = IF pos < Len(kept) THEN Len(kept) ELSE pos
          /\ \A j \in 1..Len(d) : d[j] = IF j <= pos THEN taken[j] ELSE kept[j]
      BY <1>2, <3>1 DEF Laid
    <3>3. ASSUME NEW j \in 1..Len(d)
          PROVE  d[j] = IF j <= pos THEN t[j] ELSE kept[j]
      <4>1. CASE j <= pos
        <5>1. j \in 1..pos + m + x /\ j <= pos + m
          BY <1>4, <4>1
        <5>2. t[j] = taken[j]
          BY <2>14, <5>1
        <5> QED BY <3>2, <4>1, <5>2
      <4>2. CASE ~(j <= pos)
        BY <3>2, <4>2
      <4> QED BY <4>1, <4>2
    <3>4. pos <= Len(t)
      BY <1>4, <2>14
    <3>5. Laid(d, t, pos, kept)
      BY <3>2, <3>3, <3>4 DEF Laid
    <3> QED BY <1>1, <2>11, <3>1, <3>5
  <2>19. Recording'
    <3>1. /\ left' + data' = chunk' /\ Len(taken') = pos' + data' * frameBytes'
      BY <1>1, <1>2, <1>3, <1>4, <1>8, <2>11, <2>14, <2>16
    <3>2. data' * frameBytes' = m + x
      BY <1>1, <1>2, <1>8, <2>16
    <3>3. \A k \in 1..(data' * frameBytes') : buf'[k] = taken'[pos' + k]
      BY <1>1, <2>7, <2>11, <2>15, <3>2
    <3>4. frameBytes' = 4 /\ chunk' > 0 /\ rest' > 0
      BY <1>1, <1>2
    <3>5. \E n \in Lengths : file'.head = Header(n) /\ pos' + rest' = n
      BY <1>1, <1>2
    <3> QED BY <1>1, <2>18, <3>1, <3>3, <3>4, <3>5 DEF Recording
  <2> QED BY <1>5, <1>6, <2>17, <2>19 DEF SndInv
<1> QED BY <1>1, <1>7, <1>8

\* What belongs to the file goes where the last chunk ended, over what is there.
LEMMA RecordWriteStep ==
  ASSUME SndInv, RecordWrite
  PROVE  SndInv'
<1>1. /\ pc = "read" /\ left = 0
      /\ UNCHANGED <<frameBytes, chunk, buf, left, data, frame, kept, taken, load, written,
                     played, suspended>>
  BY DEF RecordWrite, paramVars, loopVars, playVars
<1>2. /\ frameBytes = 4 /\ chunk > 0 /\ Laid(file.data, taken, pos, kept) /\ rest > 0
      /\ \E n \in Lengths : file.head = Header(n) /\ pos + rest = n
      /\ left + data = chunk /\ Len(taken) = pos + data * frameBytes
      /\ \A k \in 1..(data * frameBytes) : buf[k] = taken[pos + k]
  BY <1>1 DEF SndInv, Recording
<1>3. chunk \in Nat /\ pos \in Nat /\ rest \in Nat /\ data = chunk
  <2>1. chunk \in Nat
    BY <1>2, SndWavAssumption DEF SndInv, SndTypes, SndWavAssumption
  <2>2. data \in Nat
    BY <2>1 DEF SndInv, SndTypes
  <2> QED BY <1>1, <1>2, <2>1, <2>2 DEF SndInv, SndTypes
<1>4. PICK b \in Nat : b = chunk * 4 /\ b = ChunkBytes /\ b = data * frameBytes
  BY <1>2, <1>3 DEF ChunkBytes
<1>5. /\ buf \in Seq(Int) /\ Len(buf) = b /\ Len(taken) = pos + b
      /\ \A k \in 1..b : buf[k] = taken[pos + k]
  BY <1>2, <1>4 DEF SndInv, SndTypes
<1>6. PICK c \in Nat : c = Min({rest, ChunkBytes}) /\ c = IF rest <= b THEN rest ELSE b
  <2>1. Min({rest, b}) = IF rest <= b THEN rest ELSE b
    BY <1>3, MinTwo
  <2> QED BY <1>3, <1>4, <2>1
<1>7. PICK n \in 0..c :
        /\ file' = [file EXCEPT !.data = Over(@, pos, SubSeq(buf, 1, n))]
        /\ pos' = pos + n
        /\ \/ n = c /\ pc' = "record" /\ rest' = rest - c
           \/ n # c /\ pc' = "recorded" /\ rest' = rest
  BY <1>6 DEF RecordWrite
<1>8. n \in Nat /\ n <= c /\ n <= b
  BY <1>6
<1>9. PICK q : q = SubSeq(buf, 1, n)
  OBVIOUS
<1>10. q \in Seq(Int) /\ Len(q) = n /\ \A k \in 1..n : q[k] = taken[pos + k]
  <2>1. Copies(SubSeq(buf, 0 + 1, 0 + n), buf, 0, n)
    BY <1>5, <1>8, Piece
  <2>2. 0 + 1 = 1 /\ 0 + n = n /\ \A k \in 1..n : 0 + k = k
    BY <1>8
  <2>3. q \in Seq(Int) /\ Len(q) = n /\ \A k \in 1..n : q[k] = buf[k]
    BY <1>9, <2>1, <2>2 DEF Copies
  <2>4. \A k \in 1..n : k \in 1..b
    BY <1>8
  <2> QED BY <1>5, <2>3, <2>4
<1>11. PICK d \in Seq(Int) : d = file.data
  BY DEF SndInv, SndTypes
<1>12. /\ pos <= Len(taken) /\ Len(d) = IF pos < Len(kept) THEN Len(kept) ELSE pos
       /\ \A j \in 1..Len(d) : d[j] = IF j <= pos THEN taken[j] ELSE kept[j]
  BY <1>2, <1>11 DEF Laid
<1>13. kept \in Seq(Int) /\ Len(kept) \in Nat
  BY DEF SndInv, SndTypes
<1>14. pos <= Len(d)
  BY <1>3, <1>12, <1>13
<1>15. PICK w : w = Over(d, pos, q)
  OBVIOUS
<1>16. Overlaid(w, d, pos, q)
  BY <1>3, <1>10, <1>14, <1>15, OverIs
<1>17. /\ w \in Seq(Int) /\ Len(w) = IF Len(d) >= pos + n THEN Len(d) ELSE pos + n
       /\ \A k \in 1..Len(w) : w[k] = IF pos < k /\ k <= pos + n THEN q[k - pos] ELSE d[k]
  BY <1>10, <1>16 DEF Overlaid
<1>18. /\ file' \in [head : Seq(Parts), data : Seq(Int)] /\ file'.data = w
       /\ file'.head = file.head
  BY <1>7, <1>9, <1>11, <1>15, <1>17 DEF SndInv, SndTypes
<1>19. PICK l \in Nat : l = Len(w)
  BY <1>17
<1>20. Laid(w, taken, pos + n, kept)
  <2>1. pos + n <= Len(taken)
    BY <1>3, <1>5, <1>8
  <2>2. l = IF pos + n < Len(kept) THEN Len(kept) ELSE pos + n
    <3>1. PICK a \in Nat : a = Len(d)
      OBVIOUS
    <3>2. PICK e \in Nat : e = Len(kept)
      BY <1>13
    <3>3. a = IF pos < e THEN e ELSE pos
      BY <1>12, <3>1, <3>2
    <3>4. l = IF a >= pos + n THEN a ELSE pos + n
      BY <1>17, <1>19, <3>1
    <3>5. l = IF pos + n < e THEN e ELSE pos + n
      BY ONLY <1>3, <1>8, <3>1, <3>2, <3>3, <3>4
    <3> QED BY <3>2, <3>5
  <2>3. ASSUME NEW j \in 1..l
        PROVE  w[j] = IF j <= pos + n THEN taken[j] ELSE kept[j]
    <3>1. w[j] = IF pos < j /\ j <= pos + n THEN q[j - pos] ELSE d[j]
      BY <1>17, <1>19
    <3>2. CASE j <= pos
      <4>1. j \in 1..Len(d)
        BY <1>3, <1>14, <3>2
      <4>2. d[j] = taken[j]
        BY <1>12, <3>2, <4>1
      <4>3. j <= pos + n
        BY <1>3, <1>8, <3>2
      <4> QED BY <1>3, <3>1, <3>2, <4>2, <4>3
    <3>3. CASE pos < j /\ j <= pos + n
      <4>1. j - pos \in 1..n /\ pos + (j - pos) = j
        BY <1>3, <1>8, <3>3
      <4>2. q[j - pos] = taken[pos + (j - pos)]
        BY <1>10, <4>1
      <4> QED BY <3>1, <3>3, <4>1, <4>2
    <3>4. CASE j > pos + n
      <4>1. j \in 1..Len(d) /\ ~(j <= pos)
        BY <1>3, <1>8, <1>14, <1>17, <1>19, <3>4
      <4>2. d[j] = kept[j]
        BY <1>12, <4>1
      <4> QED BY <1>3, <1>8, <3>1, <3>4, <4>2
    <3> QED BY <1>3, <1>8, <3>2, <3>3, <3>4
  <2> QED BY <1>19, <2>1, <2>2, <2>3 DEF Laid
<1>21. pc' \in {"record", "recorded"} /\ rest' \in Nat /\ pos' \in Nat /\ pos' <= Len(w)
  <2>1. rest' \in Nat
    BY <1>3, <1>6, <1>7
  <2>2. pos + n <= l
    BY <1>3, <1>8, <1>14, <1>17, <1>19
  <2> QED BY <1>3, <1>7, <1>8, <1>19, <2>1, <2>2
<1>22. SndTypes'
  <2>1. pos' \in 0..Len(file'.data)
    BY <1>18, <1>19, <1>21
  <2> QED BY <1>1, <1>18, <1>21, <2>1 DEF SndInv, SndTypes, ChunkBytes
<1>23. Unplayed'
  BY <1>1 DEF SndInv, Unplayed
<1>24. Laid(file'.data, taken', pos', kept')
  BY <1>1, <1>7, <1>18, <1>20
<1>25. Recording'
  <2>1. PICK m \in Lengths : file.head = Header(m) /\ pos + rest = m
    BY <1>2
  <2>2. pc' = "record" => pos' + rest' = pos + rest
    BY <1>3, <1>6, <1>7, <1>8
  <2>3. pc' = "record" => \E k \in Lengths : file'.head = Header(k) /\ pos' + rest' = k
    BY <1>18, <2>1, <2>2
  <2>4. pc' = "record" /\ rest' > 0 => Len(taken') = pos'
    BY <1>1, <1>3, <1>5, <1>6, <1>7
  <2>5. frameBytes' = 4 /\ chunk' > 0
    BY <1>1, <1>2
  <2> QED BY <1>21, <1>24, <2>3, <2>4, <2>5 DEF Recording
<1>26. Complete'
  <2>1. SUFFICES ASSUME rest' = 0
                 PROVE  \E k \in Lengths :
                          /\ file'.head = Header(k) /\ k <= Len(taken') /\ k <= Len(file'.data)
                          /\ \A i \in 1..k : file'.data[i] = taken'[i]
    BY DEF Complete
  <2>2. PICK m \in Lengths : file.head = Header(m) /\ pos + rest = m
    BY <1>2
  <2>3. n = c /\ rest = c
    BY <1>2, <1>3, <1>6, <1>7, <2>1
  <2>4. m = pos + n
    BY <1>3, <1>8, <2>2, <2>3
  <2>5. /\ m <= Len(taken) /\ m <= l /\ \A i \in 1..m : w[i] = taken[i]
    <3>1. /\ pos + n <= Len(taken)
          /\ \A j \in 1..l : w[j] = IF j <= pos + n THEN taken[j] ELSE kept[j]
      BY <1>19, <1>20 DEF Laid
    <3>2. pos + n <= l
      BY <1>3, <1>8, <1>14, <1>17, <1>19
    <3>3. \A i \in 1..m : i \in 1..l /\ i <= pos + n
      BY <1>3, <1>8, <2>4, <3>2
    <3> QED BY <2>4, <3>1, <3>2, <3>3
  <2> QED BY <1>1, <1>18, <1>19, <2>2, <2>5
<1>27. Playing'
  BY <1>21 DEF Playing
<1> QED BY <1>22, <1>23, <1>25, <1>26, <1>27 DEF SndInv

-----------------------------------------------------------------------------
(***************************************************************************)
(* The player keeps it.                                                    *)
(***************************************************************************)
\* The numbers of a file that is played.
LEMMA PlayTypes ==
  ASSUME SndInv, pc \in {"load", "write", "done"}
  PROVE  /\ frameBytes \in {1, 2, 4} /\ chunk \in Nat /\ chunk > 0
         /\ Count \in Nat /\ written \in Nat /\ Whole(frameBytes, written) = written
         /\ ChunkBytes \in Nat /\ ChunkBytes = chunk * frameBytes /\ chunk <= ChunkBytes
         /\ buf \in Seq(Int) /\ Len(buf) = ChunkBytes /\ load \in 0..ChunkBytes
         /\ file.data \in Seq(Int) /\ pos \in 0..Len(file.data) /\ played \in Seq(Int)
         /\ left \in 0..chunk /\ data \in 0..chunk /\ Len(file.head) = 3
         /\ frameBytes = BytesPerFrame(file.head[2])
<1>1. /\ Len(file.head) = 3 /\ frameBytes > 0 /\ chunk > 0
      /\ frameBytes = BytesPerFrame(file.head[2]) /\ WholeFrames(written) = written
  BY DEF SndInv, Playing
<1>2. frameBytes \in {1, 2, 4}
  BY <1>1 DEF SndInv, SndTypes
<1>3. chunk \in Nat
  BY <1>1, SndWavAssumption DEF SndInv, SndTypes, SndWavAssumption
<1>4. Count \in Nat
  BY <1>1, HeadOfPlayed DEF SndInv
<1>5. ChunkBytes \in Nat /\ ChunkBytes = chunk * frameBytes /\ chunk <= ChunkBytes
  BY <1>2, <1>3, InBytes DEF ChunkBytes
<1>6. Whole(frameBytes, written) = written
  BY <1>1 DEF WholeFrames, Whole
<1>7. /\ written \in Nat /\ buf \in Seq(Int) /\ Len(buf) = ChunkBytes /\ load \in 0..ChunkBytes
      /\ file.data \in Seq(Int) /\ pos \in 0..Len(file.data) /\ played \in Seq(Int)
      /\ left \in 0..chunk /\ data \in 0..chunk
  BY DEF SndInv, SndTypes
<1> QED BY <1>1, <1>2, <1>3, <1>4, <1>5, <1>6, <1>7

\* What is read of the file is what follows what the chunk has.
LEMMA SaveReadStep ==
  ASSUME SndInv, SaveRead
  PROVE  SndInv'
<1>1. /\ pc = "load" /\ written < Count /\ pc' \in {"load", "exited"}
      /\ UNCHANGED <<file, frameBytes, chunk, left, data, rest, frame, kept, taken,
                     written, played, suspended>>
      /\ \E n \in 0..Min({Wanted, Len(file.data) - pos}) :
           /\ buf' = Patch(load, SubSeq(file.data, pos + 1, pos + n))
           /\ pos' = pos + n /\ load' = load + n
  BY DEF SaveRead, paramVars, recordVars
<1>2. /\ frameBytes \in {1, 2, 4} /\ chunk \in Nat /\ chunk > 0
      /\ Count \in Nat /\ written \in Nat
      /\ ChunkBytes \in Nat /\ ChunkBytes = chunk * frameBytes
      /\ buf \in Seq(Int) /\ Len(buf) = ChunkBytes /\ load \in 0..ChunkBytes
      /\ file.data \in Seq(Int) /\ pos \in 0..Len(file.data) /\ played \in Seq(Int)
      /\ left \in 0..chunk /\ data \in 0..chunk
  BY <1>1, PlayTypes
<1>3. /\ pos = written + load /\ pos <= Count /\ Len(played) = written
      /\ \A k \in 1..written : played[k] = file.data[k]
      /\ \A k \in 1..load : buf[k] = file.data[written + k]
  BY <1>1 DEF SndInv, Playing
<1>4. PICK C \in Nat : C = Count
  BY <1>2
<1>5. PICK B \in Nat : B = ChunkBytes
  BY <1>2
<1>6. PICK d \in Seq(Int) : d = file.data
  BY <1>2
<1>7. PICK D \in Nat : D = Len(d)
  OBVIOUS
<1>8. PICK L \in Nat : L = load
  BY <1>2, <1>5
<1>9. PICK W \in Nat : W = written
  BY <1>2
<1>10. pos = W + L /\ W + L <= C /\ W + L <= D /\ L <= B
  BY <1>2, <1>3, <1>4, <1>5, <1>6, <1>7, <1>8, <1>9
<1>11. PICK e \in Nat : e = Wanted /\ W + L + e <= C /\ L + e <= B
  <2>1. PICK f \in Int : f = C - W
    OBVIOUS
  <2>2. Min({f, B}) = IF f <= B THEN f ELSE B
    BY MinTwo
  <2>3. Wanted = (IF f <= B THEN f ELSE B) - L
    BY <1>4, <1>5, <1>8, <1>9, <2>1, <2>2 DEF Wanted
  <2>4. PICK g \in Int : g = (IF f <= B THEN f ELSE B) - L
    OBVIOUS
  <2>5. g \in Nat /\ W + L + g <= C /\ L + g <= B
    BY <1>10, <2>1, <2>4
  <2> QED BY <2>3, <2>4, <2>5
<1>12. PICK h \in Nat : h = Min({Wanted, Len(file.data) - pos}) /\ h <= e /\ W + L + h <= D
  <2>1. PICK f \in Nat : f = D - (W + L)
    BY <1>10
  <2>2. Min({e, f}) = IF e <= f THEN e ELSE f
    BY MinTwo
  <2>3. f = Len(file.data) - pos
    BY <1>6, <1>7, <1>10, <2>1
  <2>4. PICK g \in Nat : g = IF e <= f THEN e ELSE f
    OBVIOUS
  <2>5. g <= e /\ W + L + g <= D
    BY <2>1, <2>4
  <2> QED BY <1>11, <2>2, <2>3, <2>4, <2>5
<1>13. PICK n \in Nat : /\ n <= h
                        /\ buf' = Patch(load, SubSeq(file.data, pos + 1, pos + n))
                        /\ pos' = pos + n /\ load' = load + n
  BY <1>1, <1>12
<1>14. W + L + n <= C /\ L + n <= B /\ W + L + n <= D
  BY <1>11, <1>12, <1>13
<1>15. PICK m \in Nat : m = pos
  BY <1>10
<1>16. PICK q : q = SubSeq(d, m + 1, m + n)
  OBVIOUS
<1>17. q \in Seq(Int) /\ Len(q) = n /\ \A k \in 1..n : q[k] = d[m + k]
  <2>1. m + n <= Len(d)
    BY <1>7, <1>10, <1>14, <1>15
  <2>2. Copies(SubSeq(d, m + 1, m + n), d, m, n)
    BY <2>1, Piece
  <2> QED BY <1>16, <2>2 DEF Copies
<1>18. PICK w : w = buf'
  OBVIOUS
<1>19. /\ w \in Seq(Int) /\ Len(w) = B
       /\ \A k \in 1..B : w[k] = IF L < k /\ k <= L + n THEN q[k - L] ELSE buf[k]
  <2>1. L <= Len(buf)
    BY <1>2, <1>5, <1>10
  <2>2. Overlaid(Over(buf, L, q), buf, L, q)
    BY <1>2, <1>17, <2>1, OverIs
  <2>3. w = Over(buf, L, q)
    BY <1>6, <1>8, <1>13, <1>15, <1>16, <1>18 DEF Patch
  <2>4. (IF Len(buf) >= L + Len(q) THEN Len(buf) ELSE L + Len(q)) = B
    BY <1>2, <1>5, <1>14, <1>17
  <2> QED BY <1>17, <2>2, <2>3, <2>4 DEF Overlaid
<1>20. SndTypes'
  <2>1. pos' \in 0..Len(file'.data)
    BY <1>1, <1>6, <1>7, <1>10, <1>13, <1>14
  <2>2. ChunkBytes' = B
    BY <1>1, <1>5 DEF ChunkBytes
  <2>3. load' \in 0..ChunkBytes' /\ buf' \in Seq(Int) /\ Len(buf') = ChunkBytes'
    BY <1>8, <1>13, <1>14, <1>18, <1>19, <2>2
  <2> QED BY <1>1, <2>1, <2>3 DEF SndInv, SndTypes
<1>21. Unplayed' /\ Recording' /\ Complete'
  BY <1>1 DEF SndInv, Unplayed, Recording, Complete
<1>22. ASSUME NEW k \in 1..L + n
       PROVE  w[k] = d[W + k]
  <2>1. k \in 1..B
    BY <1>14
  <2>2. CASE k <= L
    <3>1. w[k] = buf[k]
      BY <1>19, <2>1, <2>2
    <3> QED BY <1>3, <1>6, <1>8, <1>9, <2>2, <3>1
  <2>3. CASE k > L
    <3>1. w[k] = q[k - L]
      BY <1>19, <2>1, <2>3
    <3>2. k - L \in 1..n /\ m + (k - L) = W + k
      BY <1>10, <1>15, <2>3
    <3>3. q[k - L] = d[m + (k - L)]
      BY <1>17, <3>2
    <3> QED BY <3>1, <3>2, <3>3
  <2> QED BY <2>2, <2>3
<1>23. Playing'
  <2>1. /\ Len(file'.head) = 3 /\ frameBytes' > 0 /\ chunk' > 0
        /\ frameBytes' = BytesPerFrame(file'.head[2])
        /\ WholeFrames(written)' = written'
    BY <1>1 DEF SndInv, Playing, WholeFrames
  <2>2. pos' = written' + load' /\ pos' <= Count'
    <3>1. Count' = C
      BY <1>1, <1>4 DEF Count
    <3> QED BY <1>1, <1>8, <1>9, <1>10, <1>13, <1>14, <3>1
  <2>3. Len(played') = written' /\ \A k \in 1..written' : played'[k] = file'.data[k]
    BY <1>1, <1>3
  <2>4. \A k \in 1..load' : buf'[k] = file'.data[written' + k]
    BY <1>1, <1>6, <1>8, <1>9, <1>13, <1>18, <1>22
  <2> QED BY <1>1, <2>1, <2>2, <2>3, <2>4 DEF Playing
<1> QED BY <1>20, <1>21, <1>23 DEF SndInv

\* A player that has written all its header promises is done with all the file has.
LEMMA PlayedDoneStep ==
  ASSUME SndInv, WritePcm, written >= Count
  PROVE  SndInv'
<1>1. /\ pc = "load" /\ pc' = "done"
      /\ UNCHANGED <<file, frameBytes, chunk, buf, left, data, rest, frame, kept, taken, pos,
                     load, written, played, suspended>>
  BY DEF WritePcm, paramVars, recordVars
<1>2. /\ frameBytes \in {1, 2, 4} /\ Count \in Nat /\ written \in Nat
      /\ Whole(frameBytes, written) = written
      /\ ChunkBytes \in Nat /\ load \in 0..ChunkBytes
      /\ file.data \in Seq(Int) /\ pos \in 0..Len(file.data)
      /\ Len(file.head) = 3
  BY <1>1, PlayTypes
<1>3. /\ pos = written + load /\ pos <= Count /\ Len(played) = written
      /\ \A k \in 1..written : played[k] = file.data[k]
  BY <1>1 DEF SndInv, Playing
<1>4. Sound = written
  <2>1. Count = written /\ Count <= Len(file.data)
    BY <1>2, <1>3
  <2>2. Sound = Whole(frameBytes, Count)
    BY <1>2, <2>1, SoundIs DEF SndInv
  <2> QED BY <1>2, <2>1, <2>2
<1>5. SndTypes' /\ Unplayed' /\ Recording' /\ Complete'
  BY <1>1 DEF SndInv, SndTypes, Unplayed, Recording, Complete, ChunkBytes
<1>6. Playing'
  <2>1. Sound' = Sound /\ ChunkBytes' = ChunkBytes
    BY <1>1 DEF Sound, WholeFrames, Count, ChunkBytes
  <2>2. /\ Len(file'.head) = 3 /\ frameBytes' > 0 /\ chunk' > 0
        /\ frameBytes' = BytesPerFrame(file'.head[2])
        /\ WholeFrames(written)' = written'
    BY <1>1 DEF SndInv, Playing, WholeFrames
  <2>3. Sound' <= Len(played') /\ Len(played') <= Sound' + ChunkBytes'
    BY <1>1, <1>2, <1>3, <1>4, <2>1
  <2>4. \A k \in 1..Len(played') : played'[k] = IF k <= Sound' THEN file'.data[k] ELSE 0
    BY <1>1, <1>2, <1>3, <1>4, <2>1
  <2> QED BY <1>1, <2>2, <2>3, <2>4 DEF Playing
<1> QED BY <1>5, <1>6 DEF SndInv

\* The whole frames that are loaded are what is written of a chunk, silence behind
\* them: less than a chunk only where the sound ends.
LEMMA WritePcmStep ==
  ASSUME SndInv, WritePcm, ~(written >= Count)
  PROVE  SndInv'
<1>1. /\ pc = "load" /\ pc' = "write" /\ Loaded
      /\ load' = load \div frameBytes /\ left' = chunk /\ data' = 0
      /\ buf' = Patch((load \div frameBytes) * frameBytes,
                      Silence((chunk - (load \div frameBytes)) * frameBytes))
      /\ UNCHANGED <<file, frameBytes, chunk, rest, frame, kept, taken, pos, written, played,
                     suspended>>
  BY DEF WritePcm, paramVars, recordVars
<1>2. /\ frameBytes \in {1, 2, 4} /\ chunk \in Nat /\ chunk > 0
      /\ Count \in Nat /\ written \in Nat /\ Whole(frameBytes, written) = written
      /\ ChunkBytes \in Nat /\ ChunkBytes = chunk * frameBytes /\ chunk <= ChunkBytes
      /\ buf \in Seq(Int) /\ Len(buf) = ChunkBytes /\ load \in 0..ChunkBytes
      /\ file.data \in Seq(Int) /\ pos \in 0..Len(file.data) /\ played \in Seq(Int)
      /\ Len(file.head) = 3
  BY <1>1, PlayTypes
<1>3. /\ pos = written + load /\ pos <= Count /\ Len(played) = written
      /\ \A k \in 1..written : played[k] = file.data[k]
      /\ \A k \in 1..load : buf[k] = file.data[written + k]
  BY <1>1 DEF SndInv, Playing
<1>4. PICK C \in Nat : C = Count
  BY <1>2
<1>5. PICK B \in Nat : B = ChunkBytes
  BY <1>2
<1>6. PICK d \in Seq(Int) : d = file.data
  BY <1>2
<1>7. PICK D \in Nat : D = Len(d)
  OBVIOUS
<1>8. PICK L \in Nat : L = load
  BY <1>2, <1>5
<1>9. PICK W \in Nat : W = written
  BY <1>2
<1>10. PICK F \in {1, 2, 4} : F = frameBytes
  BY <1>2
<1>11. PICK c \in Nat : c = chunk
  BY <1>2
<1>12. pos = W + L /\ W + L <= C /\ W + L <= D /\ L <= B /\ B = c * F /\ c <= B
  BY <1>2, <1>3, <1>4, <1>5, <1>6, <1>7, <1>8, <1>9, <1>10, <1>11
<1>13. PICK f \in Nat : f = L \div F
  <2>1. CASE F = 1
    BY <2>1
  <2>2. CASE F = 2
    BY <2>2
  <2>3. CASE F = 4
    BY <2>3
  <2> QED BY <2>1, <2>2, <2>3
<1>14. PICK x \in Nat : x = f * F /\ x = Whole(F, L) /\ x <= L /\ L < x + F
  BY <1>13, WholeIs DEF Whole
<1>15. f <= c /\ (f < c => L < B)
  <2>1. f < c => x + F <= B
    BY <1>12, <1>14, InBytes
  <2>2. c < f => B + F <= x
    BY <1>12, <1>14, InBytes
  <2> QED BY <1>12, <1>14, <2>1, <2>2
<1>16. PICK y \in Nat : y = (c - f) * F /\ y = B - x
  <2>1. (c - f) * F = c * F - f * F
    BY <1>15, InBytes
  <2>2. (c - f) \in Nat
    BY <1>15
  <2>3. (c - f) * F \in Nat
    BY <2>2, InBytes
  <2> QED BY <1>12, <1>14, <2>1, <2>3
<1>17. PICK s \in Seq(Int) : /\ s = Silence(y) /\ Len(s) = y
                             /\ \A k \in 1..y : s[k] = 0
  BY SilenceIs
<1>18. PICK w : w = buf'
  OBVIOUS
<1>19. /\ w \in Seq(Int) /\ Len(w) = B
       /\ \A k \in 1..B : w[k] = IF x < k /\ k <= x + y THEN s[k - x] ELSE buf[k]
  <2>1. x <= Len(buf)
    BY <1>2, <1>5, <1>12, <1>14
  <2>2. Overlaid(Over(buf, x, s), buf, x, s)
    BY <1>2, <2>1, OverIs
  <2>3. w = Over(buf, x, s)
    BY <1>1, <1>8, <1>10, <1>11, <1>13, <1>14, <1>16, <1>17, <1>18 DEF Patch
  <2>4. (IF Len(buf) >= x + Len(s) THEN Len(buf) ELSE x + Len(s)) = B
    BY <1>2, <1>5, <1>16, <1>17
  <2> QED BY <1>17, <2>2, <2>3, <2>4 DEF Overlaid
<1>20. SndTypes'
  <2>1. ChunkBytes' = B /\ load' = f
    BY <1>1, <1>5, <1>8, <1>10, <1>13 DEF ChunkBytes
  <2>2. load' \in 0..ChunkBytes' /\ buf' \in Seq(Int) /\ Len(buf') = ChunkBytes'
    BY <1>12, <1>15, <1>18, <1>19, <2>1
  <2>3. left' \in 0..chunk' /\ data' \in 0..chunk'
    BY <1>1, <1>2
  <2> QED BY <1>1, <2>2, <2>3 DEF SndInv, SndTypes
<1>21. Unplayed' /\ Recording' /\ Complete'
  BY <1>1 DEF SndInv, Unplayed, Recording, Complete
<1>22. /\ Sound \in Nat /\ Sound <= C /\ Sound <= D
       /\ C <= D => Sound = Whole(F, C)
       /\ C >= D => Sound = Whole(F, D)
  <2>1. frameBytes > 0
    BY <1>2
  <2> QED BY <1>2, <1>4, <1>6, <1>7, <1>10, <2>1, SoundIs DEF SndInv
<1>23. W + x = Whole(F, W + L)
  <2>1. Whole(F, W) = W
    BY <1>2, <1>9, <1>10
  <2>2. Whole(F, W + L) = W + Whole(F, L)
    BY <2>1, WholeBehind
  <2> QED BY <1>14, <2>2
<1>24. W + x <= Sound
  <2>1. Whole(F, W + x) = W + x
    <3>1. PICK n \in Nat : n = W + L
      OBVIOUS
    <3>2. Whole(F, Whole(F, n)) = Whole(F, n)
      BY WholeIs
    <3> QED BY <1>23, <3>1, <3>2
  <2>2. W + x <= C /\ W + x <= D
    BY <1>12, <1>14
  <2>3. W + x <= Whole(F, C) /\ W + x <= Whole(F, D)
    BY <2>1, <2>2, WholeBelow
  <2> QED BY <1>22, <2>3
<1>25. ASSUME f < c
       PROVE  W + x = Sound
  <2>1. L < B
    BY <1>15, <1>25
  <2>2. W + L = C \/ W + L = D
    <3>1. CASE Wanted = 0
      <4>1. PICK e \in Int : e = C - W
        OBVIOUS
      <4>2. Min({e, B}) = IF e <= B THEN e ELSE B
        BY MinTwo
      <4>3. (IF e <= B THEN e ELSE B) - L = 0
        BY <1>4, <1>5, <1>8, <1>9, <3>1, <4>1, <4>2 DEF Wanted
      <4> QED BY <2>1, <4>1, <4>3
    <3>2. CASE pos = Len(file.data)
      BY <1>6, <1>7, <1>12, <3>2
    <3>3. ~(load = ChunkBytes)
      BY <1>5, <1>8, <2>1
    <3> QED BY <1>1, <3>1, <3>2, <3>3 DEF Loaded, Full
  <2>3. CASE W + L = C
    BY <1>12, <1>22, <1>23, <2>3
  <2>4. CASE W + L = D
    BY <1>12, <1>22, <1>23, <2>4
  <2> QED BY <2>2, <2>3, <2>4
<1>26. ASSUME ~(f < c)
       PROVE  pos = W + B
  <2>1. f = c
    BY <1>15, <1>26
  <2>2. x = B
    BY <1>12, <1>14, <2>1
  <2> QED BY <1>12, <1>14, <2>2
<1>27. ASSUME NEW k \in 1..B
       PROVE  w[k] = IF k <= x THEN d[W + k] ELSE 0
  <2>1. CASE k <= x
    <3>1. w[k] = buf[k] /\ k \in 1..load
      BY <1>8, <1>14, <1>19, <2>1
    <3> QED BY <1>3, <1>6, <1>9, <2>1, <3>1
  <2>2. CASE k > x
    <3>1. w[k] = s[k - x] /\ k - x \in 1..y
      BY <1>16, <1>19, <2>2
    <3> QED BY <1>17, <2>2, <3>1
  <2> QED BY <2>1, <2>2
<1>28. Playing'
  <2>1. Sound' = Sound /\ ChunkBytes' = B /\ load' = f /\ load' * frameBytes' = x
    <3>1. Sound' = Sound
      BY <1>1 DEF Sound, WholeFrames, Count
    <3>2. ChunkBytes' = B
      BY <1>1, <1>5 DEF ChunkBytes
    <3>3. load' = f /\ frameBytes' = F
      BY <1>1, <1>8, <1>10, <1>13
    <3> QED BY <1>14, <3>1, <3>2, <3>3
  <2>2. /\ Len(file'.head) = 3 /\ frameBytes' > 0 /\ chunk' > 0
        /\ frameBytes' = BytesPerFrame(file'.head[2])
        /\ WholeFrames(written)' = written'
    BY <1>1 DEF SndInv, Playing, WholeFrames
  <2>3. load' \in 0..chunk' /\ left' + data' = chunk'
    BY <1>1, <1>2, <1>11, <1>15, <2>1
  <2>4. Len(played') = written' + data' * frameBytes'
    <3>1. 0 * F = 0
      OBVIOUS
    <3> QED BY <1>1, <1>2, <1>3, <1>10, <3>1
  <2>5. /\ written' + load' * frameBytes' <= Sound'
        /\ IF load' < chunk' THEN written' + load' * frameBytes' = Sound'
           ELSE pos' = written' + ChunkBytes'
    BY <1>1, <1>9, <1>11, <1>24, <1>25, <1>26, <2>1
  <2>6. \A k \in 1..ChunkBytes' :
          buf'[k] = IF k <= load' * frameBytes' THEN file'.data[written' + k] ELSE 0
    BY <1>1, <1>6, <1>9, <1>18, <1>27, <2>1
  <2>7. \A k \in 1..Len(played') :
          played'[k] = IF k <= written' + load' * frameBytes' THEN file'.data[k] ELSE 0
    <3>1. \A k \in 1..W : k <= W + x
      OBVIOUS
    <3> QED BY <1>1, <1>3, <1>9, <2>1, <3>1
  <2> QED BY <1>1, <2>2, <2>3, <2>4, <2>5, <2>6, <2>7 DEF Playing
<1> QED BY <1>20, <1>21, <1>28 DEF SndInv

\* What the card takes is what follows, in the chunk, what it has.
LEMMA WriteiStep ==
  ASSUME SndInv, Writei
  PROVE  SndInv'
<1>1. /\ pc = "write" /\ left > 0
      /\ UNCHANGED <<file, frameBytes, chunk, buf, rest, frame, kept, taken, pos, load,
                     written, suspended>>
      /\ \/ \E r \in 1..left :
              /\ played' = played \o SubSeq(buf, data * frameBytes + 1,
                                            (data + r) * frameBytes)
              /\ left' = left - r /\ data' = data + r /\ pc' = pc
         \/ pc' \in {pc, "exited"} /\ UNCHANGED <<played, left, data>>
  BY DEF Writei, paramVars, recordVars
<1>2. pc' \in {"write", "exited"}
  BY <1>1
<1>3. Unplayed' /\ Recording' /\ Complete'
  BY <1>1, <1>2 DEF SndInv, Unplayed, Recording, Complete
<1>4. CASE UNCHANGED <<played, left, data>>
  <2>1. SndTypes'
    BY <1>1, <1>2, <1>4 DEF SndInv, SndTypes, ChunkBytes
  <2>2. Playing'
    BY <1>1, <1>2, <1>4 DEF SndInv, Playing, ChunkBytes, Count, WholeFrames, Sound
  <2> QED BY <1>3, <2>1, <2>2 DEF SndInv
<1>5. ASSUME NEW r \in 1..left,
             played' = played \o SubSeq(buf, data * frameBytes + 1, (data + r) * frameBytes),
             left' = left - r, data' = data + r, pc' = pc
      PROVE  SndInv'
  <2>1. /\ frameBytes \in {1, 2, 4} /\ chunk \in Nat /\ chunk > 0
        /\ written \in Nat
        /\ ChunkBytes \in Nat /\ ChunkBytes = chunk * frameBytes
        /\ buf \in Seq(Int) /\ Len(buf) = ChunkBytes
        /\ played \in Seq(Int) /\ left \in 0..chunk /\ data \in 0..chunk
    BY <1>1, PlayTypes
  <2>2. /\ load \in 0..chunk /\ left + data = chunk
        /\ Len(played) = written + data * frameBytes
        /\ \A k \in 1..ChunkBytes :
             buf[k] = IF k <= load * frameBytes THEN file.data[written + k] ELSE 0
        /\ \A k \in 1..Len(played) :
             played[k] = IF k <= written + load * frameBytes THEN file.data[k] ELSE 0
    BY <1>1 DEF SndInv, Playing
  <2>3. PICK F \in {1, 2, 4} : F = frameBytes
    BY <2>1
  <2>4. PICK c \in Nat : c = chunk
    BY <2>1
  <2>5. PICK t \in Nat : t = data
    BY <2>1
  <2>6. r \in Nat /\ t + r <= c
    BY <2>1, <2>2, <2>4, <2>5
  <2>7. PICK m \in Nat : m = t * F
    BY InBytes
  <2>8. PICK x \in Nat : x = r * F
    BY <2>6, InBytes
  <2>9. PICK B \in Nat : B = c * F
    BY InBytes
  <2>10. (t + r) * F = m + x /\ m + x <= B
    <3>1. t + r \in Nat
      BY <2>6
    <3>2. (t + r) * F = t * F + r * F
      BY <2>6, InBytes
    <3>3. (t + r) * F <= c * F
      BY <2>6, <3>1, InBytes
    <3> QED BY <2>7, <2>8, <2>9, <3>2, <3>3
  <2>11. B = ChunkBytes
    BY <2>1, <2>3, <2>4, <2>9
  <2>12. PICK y \in Nat : y = load * frameBytes
    <3>1. load \in Nat
      BY <2>1, <2>2
    <3> QED BY <2>3, <3>1, InBytes
  <2>13. PICK W \in Nat : W = written
    BY <2>1
  <2>14. PICK d : d = file.data
    OBVIOUS
  <2>15. PICK q : q = SubSeq(buf, m + 1, m + x)
    OBVIOUS
  <2>16. q \in Seq(Int) /\ Len(q) = x /\ \A k \in 1..x : q[k] = buf[m + k]
    <3>1. m + x <= Len(buf)
      BY <2>1, <2>10, <2>11
    <3>2. Copies(SubSeq(buf, m + 1, m + x), buf, m, x)
      BY <2>1, <3>1, Piece
    <3> QED BY <2>15, <3>2 DEF Copies
  <2>17. PICK p : p = played'
    OBVIOUS
  <2>18. Joined(p, played, q)
    <3>1. data * frameBytes = m /\ (data + r) * frameBytes = m + x
      BY <2>3, <2>5, <2>7, <2>10
    <3>2. p = played \o q
      BY <1>5, <2>15, <2>17, <3>1
    <3> QED BY <2>1, <2>16, <3>2, JoinedIs
  <2>19. Len(played) = W + m
    BY <2>2, <2>3, <2>5, <2>7, <2>13
  <2>20. /\ p \in Seq(Int) /\ Len(p) = W + m + x
         /\ \A k \in 1..W + m + x : p[k] = IF k <= W + m THEN played[k] ELSE q[k - (W + m)]
    BY <2>16, <2>18, <2>19 DEF Joined
  <2>21. ASSUME NEW k \in 1..W + m + x
         PROVE  p[k] = IF k <= W + y THEN d[k] ELSE 0
    <3>1. CASE k <= W + m
      <4>1. p[k] = played[k] /\ k \in 1..Len(played)
        BY <2>19, <2>20, <3>1
      <4> QED BY <2>2, <2>12, <2>13, <2>14, <4>1
    <3>2. CASE k > W + m
      <4>1. p[k] = q[k - (W + m)] /\ k - (W + m) \in 1..x
        BY <2>20, <3>2
      <4>2. q[k - (W + m)] = buf[m + (k - (W + m))]
        BY <2>16, <4>1
      <4>3. m + (k - (W + m)) = k - W /\ k - W \in 1..B
        BY <2>10, <3>2
      <4>4. buf[k - W] = IF k - W <= y THEN d[W + (k - W)] ELSE 0
        BY <2>2, <2>11, <2>12, <2>13, <2>14, <4>3
      <4>5. W + (k - W) = k /\ (k - W <= y <=> k <= W + y)
        OBVIOUS
      <4> QED BY <4>1, <4>2, <4>3, <4>4, <4>5
    <3> QED BY <3>1, <3>2
  <2>22. SndTypes'
    <3>1. left' \in 0..chunk' /\ data' \in 0..chunk'
      BY <1>1, <1>5, <2>1, <2>2
    <3>2. played' \in Seq(Int)
      BY <2>17, <2>20
    <3> QED BY <1>1, <1>2, <3>1, <3>2 DEF SndInv, SndTypes, ChunkBytes
  <2>23. Playing'
    <3>1. /\ Sound' = Sound /\ ChunkBytes' = ChunkBytes /\ Count' = Count
          /\ WholeFrames(written)' = WholeFrames(written)
      BY <1>1 DEF Sound, WholeFrames, Count, ChunkBytes
    <3>2. left' + data' = chunk' /\ load' \in 0..chunk'
      BY <1>1, <1>5, <2>1, <2>2
    <3>3. Len(played') = written' + data' * frameBytes'
      <4>1. data' * frameBytes' = m + x
        BY <1>1, <1>5, <2>3, <2>5, <2>10
      <4> QED BY <1>1, <2>13, <2>17, <2>20, <4>1
    <3>4. \A k \in 1..Len(played') :
            played'[k] = IF k <= written' + load' * frameBytes' THEN file'.data[k] ELSE 0
      BY <1>1, <2>12, <2>13, <2>14, <2>17, <2>20, <2>21
    <3>5. pc' = "write"
      BY <1>1, <1>5
    <3>6. /\ Len(file.head) = 3 /\ frameBytes > 0 /\ chunk > 0
          /\ frameBytes = BytesPerFrame(file.head[2])
          /\ WholeFrames(written) = written
          /\ written + load * frameBytes <= Sound
          /\ IF load < chunk THEN written + load * frameBytes = Sound
             ELSE pos = written + ChunkBytes
          /\ \A k \in 1..ChunkBytes :
               buf[k] = IF k <= load * frameBytes THEN file.data[written + k] ELSE 0
      BY <1>1 DEF SndInv, Playing
    <3> QED BY <1>1, <3>1, <3>2, <3>3, <3>4, <3>5, <3>6 DEF Playing
  <2> QED BY <1>3, <2>22, <2>23 DEF SndInv
<1> QED BY <1>1, <1>4, <1>5

\* A chunk that is written is followed by the next, or was the last.
LEMMA WrittenStep ==
  ASSUME SndInv, Written
  PROVE  SndInv'
<1>1. /\ pc = "write" /\ left = 0
      /\ UNCHANGED <<file, frameBytes, chunk, buf, left, data, rest, frame, kept, taken, pos,
                     played, suspended>>
      /\ \/ data # load /\ pc' = "done" /\ UNCHANGED <<written, load>>
         \/ data = load /\ pc' = "load" /\ written' = written + data * frameBytes /\ load' = 0
  BY DEF Written, paramVars, loopVars, recordVars
<1>2. /\ frameBytes \in {1, 2, 4} /\ chunk \in Nat /\ chunk > 0
      /\ Count \in Nat /\ written \in Nat /\ Whole(frameBytes, written) = written
      /\ ChunkBytes \in Nat /\ ChunkBytes = chunk * frameBytes
      /\ file.data \in Seq(Int) /\ played \in Seq(Int) /\ data \in 0..chunk
      /\ Len(file.head) = 3 /\ frameBytes = BytesPerFrame(file.head[2])
  BY <1>1, PlayTypes
<1>3. /\ load \in 0..chunk /\ left + data = chunk
      /\ Len(played) = written + data * frameBytes
      /\ written + load * frameBytes <= Sound
      /\ IF load < chunk THEN written + load * frameBytes = Sound
         ELSE pos = written + ChunkBytes
      /\ \A k \in 1..Len(played) :
           played[k] = IF k <= written + load * frameBytes THEN file.data[k] ELSE 0
  BY <1>1 DEF SndInv, Playing
<1>4. data = chunk
  BY <1>1, <1>2, <1>3
<1>5. PICK B \in Nat : B = ChunkBytes /\ B = data * frameBytes
  BY <1>2, <1>4
<1>6. PICK W \in Nat : W = written
  BY <1>2
<1>7. PICK p \in Seq(Int) : p = played /\ Len(p) = W + B
  BY <1>2, <1>3, <1>5, <1>6
<1>8. pc' \in {"done", "load"}
  BY <1>1
<1>9. Unplayed' /\ Recording' /\ Complete'
  BY <1>1, <1>8 DEF SndInv, Unplayed, Recording, Complete
<1>10. /\ Sound \in Nat /\ Sound <= Count
  <2>1. frameBytes > 0
    BY <1>2
  <2> QED BY <1>2, <2>1, SoundIs DEF SndInv
<1>11. ChunkBytes' = ChunkBytes /\ Count' = Count
  BY <1>1 DEF ChunkBytes, Count
<1>12. PICK y \in Nat : y = load * frameBytes /\ y <= B
  <2>1. load \in Nat /\ load <= chunk
    BY <1>2, <1>3
  <2>2. load * frameBytes \in Nat /\ load * frameBytes <= chunk * frameBytes
    BY <1>2, <2>1, InBytes
  <2> QED BY <1>2, <1>5, <2>2
<1>13. CASE data # load /\ pc' = "done" /\ UNCHANGED <<written, load>>
  <2>1. Sound' = Sound
    BY <1>1 DEF Sound, WholeFrames, Count
  <2>2. SndTypes'
    BY <1>1, <1>13 DEF SndInv, SndTypes, ChunkBytes
  <2>3. W + y = Sound
    <3>1. load < chunk
      BY <1>2, <1>3, <1>4, <1>13
    <3>2. written + load * frameBytes = Sound
      BY <1>3, <3>1
    <3> QED BY <1>6, <1>12, <3>2
  <2>4. Playing'
    <3>1. /\ Len(file'.head) = 3 /\ frameBytes' > 0 /\ chunk' > 0
          /\ frameBytes' = BytesPerFrame(file'.head[2])
          /\ WholeFrames(written)' = written'
      BY <1>1, <1>13 DEF SndInv, Playing, WholeFrames
    <3>2. Sound' <= Len(played') /\ Len(played') <= Sound' + ChunkBytes'
      <4>1. Len(played') = W + B /\ Sound' = W + y /\ ChunkBytes' = B
        BY <1>1, <1>5, <1>7, <1>11, <2>1, <2>3
      <4>2. W + y <= W + B /\ W + B <= W + y + B
        BY <1>12
      <4> QED BY <4>1, <4>2
    <3>3. \A k \in 1..Len(played') : played'[k] = IF k <= Sound' THEN file'.data[k] ELSE 0
      BY <1>1, <1>3, <1>6, <1>12, <2>1, <2>3
    <3> QED BY <1>13, <3>1, <3>2, <3>3 DEF Playing
  <2> QED BY <1>9, <2>2, <2>4 DEF SndInv
<1>14. CASE data = load /\ pc' = "load" /\ written' = written + data * frameBytes /\ load' = 0
  <2>1. written' = W + B /\ y = B /\ pos = W + B /\ W + B <= Sound
    BY <1>2, <1>3, <1>4, <1>5, <1>6, <1>12, <1>14
  <2>2. SndTypes'
    <3>1. load' \in 0..ChunkBytes' /\ written' \in Nat
      <4>1. load' = 0 /\ ChunkBytes' = B /\ written' = W + B
        BY <1>5, <1>11, <1>14, <2>1
      <4> QED BY <4>1
    <3> QED BY <1>1, <1>8, <1>11, <3>1 DEF SndInv, SndTypes
  <2>3. Playing'
    <3>1. WholeFrames(written)' = written'
      <4>1. PICK F \in {1, 2, 4} : F = frameBytes
        BY <1>2
      <4>2. B = data * F /\ data \in Nat
        BY <1>2, <1>5, <4>1
      <4>3. Whole(F, W + data * F) = W + data * F
        <5>1. Whole(F, W) = W
          BY <1>2, <1>6, <4>1
        <5>2. PICK e \in Nat : e = data
          BY <4>2
        <5>3. Whole(F, W + e * F) = W + e * F
          BY <5>1, WholeMore
        <5> QED BY <5>2, <5>3
      <4>4. Whole(F, W + B) = W + B
        BY <4>2, <4>3
      <4> QED BY <1>1, <2>1, <4>1, <4>4 DEF WholeFrames, Whole
    <3>2. /\ Len(file'.head) = 3 /\ frameBytes' > 0 /\ chunk' > 0
          /\ frameBytes' = BytesPerFrame(file'.head[2])
      BY <1>1, <1>2
    <3>3. pos' = written' + load' /\ pos' <= Count'
      BY <1>1, <1>2, <1>10, <1>11, <1>14, <2>1
    <3>4. Len(played') = written' /\ \A k \in 1..written' : played'[k] = file'.data[k]
      <4>1. ASSUME NEW k \in 1..W + B PROVE p[k] = file.data[k]
        BY <1>3, <1>6, <1>7, <1>12, <2>1
      <4> QED BY <1>1, <1>7, <2>1, <4>1
    <3>5. \A k \in 1..load' : buf'[k] = file'.data[written' + k]
      BY <1>14
    <3> QED BY <1>14, <3>1, <3>2, <3>3, <3>4, <3>5 DEF Playing
  <2> QED BY <1>9, <2>2, <2>3 DEF SndInv
<1> QED BY <1>1, <1>13, <1>14

\* p and q have the same first n elements.
Agree(p, q, n) == \A k \in 1..n : p[k] = q[k]

\* Then these are the same sequence.
LEMMA SamePrefix ==
  ASSUME NEW p \in Seq(Int), NEW q \in Seq(Int), NEW n \in Nat, n <= Len(p), n <= Len(q),
         Agree(p, q, n)
  PROVE  SubSeq(p, 1, n) = SubSeq(q, 1, n)
<1>1. Copies(SubSeq(p, 0 + 1, 0 + n), p, 0, n) /\ Copies(SubSeq(q, 0 + 1, 0 + n), q, 0, n)
  BY Piece
<1>2. 0 + 1 = 1 /\ 0 + n = n
  OBVIOUS
<1>3. PICK u : u = SubSeq(p, 1, n)
  OBVIOUS
<1>4. PICK v : v = SubSeq(q, 1, n)
  OBVIOUS
<1>5. Copies(u, p, 0, n) /\ Copies(v, q, 0, n)
  BY <1>1, <1>2, <1>3, <1>4
<1>6. /\ u \in Seq(Int) /\ v \in Seq(Int) /\ Len(u) = n /\ Len(v) = n
      /\ \A k \in 1..n : u[k] = p[0 + k] /\ v[k] = q[0 + k]
  BY <1>5 DEF Copies
<1>7. ASSUME NEW k \in 1..Len(u) PROVE u[k] = v[k]
  <2>1. k \in 1..n /\ 0 + k = k
    BY <1>6
  <2> QED BY <1>6, <2>1 DEF Agree
<1>8. u = v
  BY <1>6, <1>7, SeqEqual
<1> QED BY <1>3, <1>4, <1>8

\* What is played is the sound of the file up to a place, silence behind it, and the
\* place is the end of the sound or of what is played.
LEMMA PlayedIs ==
  ASSUME SndInv, pc \in {"load", "write", "done"}
  PROVE  /\ Sound \in Nat /\ Len(played) <= Sound + ChunkBytes
         /\ \E e \in Nat : /\ e <= Sound /\ (e = Sound \/ Len(played) <= e)
                           /\ \A k \in 1..Len(played) :
                                played[k] = IF k <= e THEN file.data[k] ELSE 0
<1>1. /\ frameBytes \in {1, 2, 4} /\ chunk \in Nat
      /\ Count \in Nat /\ written \in Nat /\ Whole(frameBytes, written) = written
      /\ ChunkBytes \in Nat /\ ChunkBytes = chunk * frameBytes /\ load \in 0..ChunkBytes
      /\ file.data \in Seq(Int) /\ pos \in 0..Len(file.data) /\ data \in 0..chunk
      /\ played \in Seq(Int) /\ Len(file.head) = 3
  BY PlayTypes
<1>2. /\ Sound \in Nat
      /\ Count <= Len(file.data) => Sound = Whole(frameBytes, Count)
      /\ Count >= Len(file.data) => Sound = Whole(frameBytes, Len(file.data))
  <2>1. frameBytes > 0
    BY <1>1
  <2> QED BY <1>1, <2>1, SoundIs DEF SndInv
<1>3. CASE pc = "load"
  <2>1. /\ pos = written + load /\ pos <= Count /\ Len(played) = written
        /\ \A k \in 1..written : played[k] = file.data[k]
    BY <1>3 DEF SndInv, Playing
  <2>2. PICK D \in Nat : D = Len(file.data)
    BY <1>1
  <2>3. written <= Count /\ written <= D
    BY <1>1, <2>1, <2>2
  <2>4. written <= Whole(frameBytes, Count) /\ written <= Whole(frameBytes, D)
    BY <1>1, <2>3, WholeBelow
  <2>5. written <= Sound
    BY <1>1, <1>2, <2>2, <2>4
  <2>6. \A k \in 1..Len(played) : played[k] = IF k <= written THEN file.data[k] ELSE 0
    BY <1>1, <2>1
  <2>7. Len(played) <= Sound + ChunkBytes
    BY <1>1, <1>2, <2>1, <2>5
  <2>8. PICK e \in Nat : e = written
    BY <1>1
  <2>9. /\ e <= Sound /\ (e = Sound \/ Len(played) <= e)
        /\ \A k \in 1..Len(played) : played[k] = IF k <= e THEN file.data[k] ELSE 0
    BY <1>1, <2>1, <2>5, <2>6, <2>8
  <2> QED BY <1>2, <2>7, <2>9
<1>4. CASE pc = "write"
  <2>1. /\ load \in 0..chunk
        /\ Len(played) = written + data * frameBytes
        /\ written + load * frameBytes <= Sound
        /\ load < chunk => written + load * frameBytes = Sound
        /\ \A k \in 1..Len(played) :
             played[k] = IF k <= written + load * frameBytes THEN file.data[k] ELSE 0
    BY <1>4 DEF SndInv, Playing
  <2>2. load \in Nat /\ load <= chunk /\ data \in Nat /\ data <= chunk
    BY <1>1, <2>1
  <2>3. PICK y \in Nat : y = load * frameBytes
    BY <1>1, <2>2, InBytes
  <2>4. PICK m \in Nat : m = data * frameBytes /\ m <= ChunkBytes
    BY <1>1, <2>2, InBytes
  <2>5. PICK e \in Nat : e = written + y
    BY <1>1
  <2>6. e <= Sound /\ Len(played) = written + m
    BY <2>1, <2>3, <2>4, <2>5
  <2>7. e = Sound \/ Len(played) <= e
    <3>1. CASE load < chunk
      BY <2>1, <2>3, <2>5, <3>1
    <3>2. CASE load = chunk
      <4>1. y = ChunkBytes
        BY <1>1, <2>3, <3>2
      <4> QED BY <1>1, <2>4, <2>5, <2>6, <4>1
    <3> QED BY <1>1, <2>2, <3>1, <3>2
  <2>8. Len(played) <= Sound + ChunkBytes
    BY <1>1, <1>2, <2>4, <2>5, <2>6
  <2>9. \A k \in 1..Len(played) : played[k] = IF k <= e THEN file.data[k] ELSE 0
    BY <2>1, <2>3, <2>5
  <2> QED BY <1>2, <2>6, <2>7, <2>8, <2>9
<1>5. CASE pc = "done"
  <2>1. /\ Len(played) <= Sound + ChunkBytes
        /\ \A k \in 1..Len(played) : played[k] = IF k <= Sound THEN file.data[k] ELSE 0
    BY <1>5 DEF SndInv, Playing
  <2> QED BY <1>1, <1>2, <2>1
<1> QED BY <1>3, <1>4, <1>5

-----------------------------------------------------------------------------
(***************************************************************************)
(* What follows.                                                           *)
(***************************************************************************)
\* Every step keeps the invariant.
LEMMA NextInv ==
  ASSUME SndInv, [Next]_vars
  PROVE  SndInv'
<1>1. CASE RecordStart
  BY <1>1, RecordStartStep
<1>2. CASE RecordFails
  BY <1>2, RecordFailsStep
<1>3. CASE WriteHeader
  BY <1>3, WriteHeaderStep
<1>4. CASE RecordChunk
  BY <1>4, RecordChunkStep
<1>5. CASE Readi
  BY <1>5, ReadiStep
<1>6. CASE RecordWrite
  BY <1>6, RecordWriteStep
<1>7. CASE RecordEnd
  BY <1>7, RecordEndStep
<1>8. CASE PlayStart
  BY <1>8, PlayStartStep
<1>9. CASE SaveRead
  BY <1>9, SaveReadStep
<1>10. CASE WritePcm
  BY <1>10, PlayedDoneStep, WritePcmStep
<1>11. CASE Writei
  BY <1>11, WriteiStep
<1>12. CASE Written
  BY <1>12, WrittenStep
<1>13. CASE Suspend
  BY <1>13, SuspendStep
<1>14. CASE UNCHANGED vars
  BY <1>14, StutterStep
<1> QED BY <1>1, <1>2, <1>3, <1>4, <1>5, <1>6, <1>7, <1>8, <1>9, <1>10, <1>11, <1>12, <1>13,
           <1>14 DEF Next, Program

\* Every state of the two programs has the invariant.
THEOREM SndWavInvariant == Spec => []SndInv
<1>1. Init => SndInv
  BY InitInv
<1>2. SndInv /\ [Next]_vars => SndInv'
  BY NextInv
<1> QED BY <1>1, <1>2, PTL DEF Spec

\* The buffer and the counters of both loops stay within the chunk and the file,
\* whatever the card and the file answer.
THEOREM SndWavTypes == Spec => []TypeOK
<1>1. SndInv => TypeOK
  <2>1. SUFFICES ASSUME SndInv PROVE TypeOK
    OBVIOUS
  <2>2. buf \in Seq(Int) /\ Len(buf) = ChunkBytes
    BY <2>1 DEF SndInv, SndTypes
  <2>3. buf \in [1..ChunkBytes -> Int]
    <3>1. buf \in [1..Len(buf) -> Int]
      BY <2>2
    <3> QED BY <2>2, <3>1
  <2> QED BY <2>1, <2>3 DEF SndInv, SndTypes, TypeOK
<1> QED BY <1>1, SndWavInvariant, PTL

\* A recording is what the card delivered, in order and without gaps of its own, over
\* the beginning of what an old file kept, wherever transfers were split and the
\* recorder was stopped.
THEOREM RecordedInOrderHolds == Spec => []RecordedInOrder
<1>1. SndInv => RecordedInOrder
  <2>1. SUFFICES ASSUME SndInv, pc \in {"record", "read", "recorded"}
                 PROVE  /\ file.data = SubSeq(taken, 1, pos) \o SubSeq(kept, pos + 1, Len(kept))
                        /\ pos <= Len(taken)
                        /\ pc \in {"record", "read"} => pos = Count - rest
    BY DEF RecordedInOrder
  <2>2. Laid(file.data, taken, pos, kept)
    BY <2>1 DEF SndInv, Recording
  <2>3. PICK f \in Seq(Int) : f = file.data
    BY <2>1 DEF SndInv, SndTypes
  <2>4. PICK t \in Seq(Int) : t = taken
    BY <2>1 DEF SndInv, SndTypes
  <2>5. PICK k \in Seq(Int) : k = kept
    BY <2>1 DEF SndInv, SndTypes
  <2>6. PICK p \in Nat : p = pos
    BY <2>1 DEF SndInv, SndTypes
  <2>7. /\ p <= Len(t) /\ Len(f) = IF p < Len(k) THEN Len(k) ELSE p
        /\ \A j \in 1..Len(f) : f[j] = IF j <= p THEN t[j] ELSE k[j]
    BY <2>2, <2>3, <2>4, <2>5, <2>6 DEF Laid
  <2>8. PICK l \in Nat : l = Len(k)
    OBVIOUS
  <2>9. PICK n \in Nat : n = IF p < l THEN l - p ELSE 0
    <3>1. (IF p < l THEN l - p ELSE 0) \in Nat
      OBVIOUS
    <3> QED BY <3>1
  <2>10. PICK u : u = SubSeq(t, 1, p)
    OBVIOUS
  <2>11. u \in Seq(Int) /\ Len(u) = p /\ \A j \in 1..p : u[j] = t[j]
    <3>1. Copies(SubSeq(t, 0 + 1, 0 + p), t, 0, p)
      BY <2>7, Piece
    <3>2. 0 + 1 = 1 /\ 0 + p = p /\ \A j \in 1..p : 0 + j = j
      OBVIOUS
    <3>3. Copies(u, t, 0, p)
      BY <2>10, <3>1, <3>2
    <3> QED BY <3>2, <3>3 DEF Copies
  <2>12. PICK v : v = SubSeq(k, p + 1, l)
    OBVIOUS
  <2>13. v \in Seq(Int) /\ Len(v) = n /\ \A j \in 1..n : v[j] = k[p + j]
    <3>1. CASE p <= l
      <4>1. p + n = l
        BY <2>9, <3>1
      <4>2. Copies(SubSeq(k, p + 1, p + n), k, p, n)
        BY <2>8, <4>1, Piece
      <4> QED BY <2>12, <4>1, <4>2 DEF Copies
    <3>2. CASE p > l
      <4>1. n = 0 /\ ~(p + 1 <= l)
        BY <2>9, <3>2
      <4>2. PICK i \in Int : i = p + 1
        OBVIOUS
      <4>3. \A j \in i..l : k[j] \in Int
        BY <4>1, <4>2
      <4>4. SubSeq(k, i, l) \in Seq(Int) /\ Len(SubSeq(k, i, l)) = IF i <= l THEN l - i + 1 ELSE 0
        BY <4>3, SubSeqProperties
      <4>5. Len(SubSeq(k, i, l)) = 0
        BY <4>1, <4>2, <4>4
      <4> QED BY <2>12, <4>1, <4>2, <4>4, <4>5
    <3> QED BY <3>1, <3>2
  <2>14. PICK w : w = u \o v
    OBVIOUS
  <2>15. /\ w \in Seq(Int) /\ Len(w) = p + n
         /\ \A j \in 1..p + n : w[j] = IF j <= p THEN u[j] ELSE v[j - p]
    <3>1. Joined(w, u, v)
      BY <2>11, <2>13, <2>14, JoinedIs
    <3> QED BY <2>11, <2>13, <3>1 DEF Joined
  <2>16. Len(f) = p + n
    BY <2>7, <2>8, <2>9
  <2>17. ASSUME NEW j \in 1..Len(f) PROVE f[j] = w[j]
    <3>1. j \in 1..p + n
      BY <2>16
    <3>2. CASE j <= p
      <4>1. w[j] = u[j] /\ u[j] = t[j]
        BY <2>11, <2>15, <3>1, <3>2
      <4> QED BY <2>7, <3>2, <4>1
    <3>3. CASE j > p
      <4>1. w[j] = v[j - p] /\ j - p \in 1..n
        BY <2>15, <3>1, <3>3
      <4>2. v[j - p] = k[p + (j - p)] /\ p + (j - p) = j
        BY <2>13, <4>1
      <4>3. f[j] = k[j]
        BY <2>7, <3>3
      <4> QED BY <4>1, <4>2, <4>3
    <3> QED BY <3>2, <3>3
  <2>18. f = w
    BY <2>15, <2>16, <2>17, SeqEqual
  <2>19. pc \in {"record", "read"} => pos = Count - rest
    <3>1. SUFFICES ASSUME pc \in {"record", "read"} PROVE pos = Count - rest
      OBVIOUS
    <3>2. PICK m \in Lengths : file.head = Header(m) /\ pos + rest = m
      BY <2>1, <3>1 DEF SndInv, Recording
    <3>3. Count = m
      BY <3>2, HeadOfRecorded
    <3>4. rest \in Nat
      BY <2>1 DEF SndInv, SndTypes
    <3> QED BY <2>6, <3>2, <3>3, <3>4
  <2> QED BY <2>3, <2>4, <2>5, <2>6, <2>7, <2>8, <2>10, <2>12, <2>14, <2>18, <2>19
<1> QED BY <1>1, SndWavInvariant, PTL

\* The card is given the sound of the file from its start and in order, then at most a
\* chunk of silence, and never what an earlier chunk or malloc left in the buffer.
THEOREM PlayedInOrderHolds == Spec => []PlayedInOrder
<1>1. SndInv => PlayedInOrder
  <2>1. SUFFICES ASSUME SndInv, pc \in {"load", "write", "done"}
                 PROVE  LET n == Min({Sound, Len(played)})
                        IN  /\ SubSeq(played, 1, n) = SubSeq(file.data, 1, n)
                            /\ \A k \in (n + 1)..Len(played) : played[k] = 0
                            /\ Len(played) <= Sound + ChunkBytes
    BY DEF PlayedInOrder
  <2>2. PICK S \in Nat : S = Sound /\ S <= Len(file.data) /\ Len(played) <= S + ChunkBytes
    <3>1. frameBytes > 0 /\ Len(file.head) = 3
      BY <2>1 DEF SndInv, Playing
    <3>2. Sound \in Nat /\ Sound <= Len(file.data)
      BY <2>1, <3>1, SoundIs DEF SndInv
    <3> QED BY <2>1, <3>2, PlayedIs
  <2>3. PICK p \in Seq(Int) : p = played
    BY <2>1 DEF SndInv, SndTypes
  <2>4. PICK d \in Seq(Int) : d = file.data
    BY <2>1 DEF SndInv, SndTypes
  <2>5. PICK l \in Nat : l = Len(p)
    OBVIOUS
  <2>6. PICK e \in Nat : /\ e <= S /\ (e = S \/ l <= e)
                         /\ \A k \in 1..l : p[k] = IF k <= e THEN d[k] ELSE 0
    BY <2>1, <2>2, <2>3, <2>4, <2>5, PlayedIs
  <2>7. PICK n \in Nat : n = Min({Sound, Len(played)}) /\ n = IF S <= l THEN S ELSE l
    <3>1. Min({S, l}) = IF S <= l THEN S ELSE l
      BY MinTwo
    <3> QED BY <2>2, <2>3, <2>5, <3>1
  <2>8. n <= Len(p) /\ n <= Len(d)
    BY <2>2, <2>4, <2>5, <2>7
  <2>9. ASSUME NEW k \in 1..n PROVE p[k] = d[k]
    <3>1. k \in 1..l /\ k <= e
      BY <2>6, <2>7
    <3> QED BY <2>6, <3>1
  <2>10. SubSeq(p, 1, n) = SubSeq(d, 1, n)
    <3>1. Agree(p, d, n)
      BY <2>9 DEF Agree
    <3> QED BY <2>8, <3>1, SamePrefix
  <2>11. ASSUME NEW k \in (n + 1)..l PROVE p[k] = 0
    <3>1. k \in 1..l /\ ~(k <= e)
      BY <2>6, <2>7
    <3> QED BY <2>6, <3>1
  <2> QED BY <2>2, <2>3, <2>4, <2>5, <2>7, <2>10, <2>11
<1> QED BY <1>1, SndWavInvariant, PTL

\* A player that comes to its end has played every whole frame its file has of those
\* the header promises.
THEOREM PlayedAllHolds == Spec => []PlayedAll
<1>1. SndInv => PlayedAll
  <2>1. SUFFICES ASSUME SndInv, pc = "done" PROVE Len(played) >= Sound
    BY DEF PlayedAll
  <2>2. Sound <= Len(played)
    BY <2>1 DEF SndInv, Playing
  <2>3. Sound \in Nat
    BY <2>1, PlayedIs
  <2>4. Len(played) \in Nat
    BY <2>1 DEF SndInv, SndTypes
  <2> QED BY <2>2, <2>3, <2>4
<1> QED BY <1>1, SndWavInvariant, PTL

\* A recording that was not stopped is played as it was taken.
THEOREM RoundTripHolds == Spec => []RoundTrip
<1>1. SndInv => RoundTrip
  <2>1. SUFFICES ASSUME SndInv, pc = "done", taken # << >>, rest = 0
                 PROVE  /\ Len(played) >= Count
                        /\ SubSeq(played, 1, Count) = SubSeq(taken, 1, Count)
    BY DEF RoundTrip
  <2>2. PICK n \in Lengths : /\ file.head = Header(n) /\ n <= Len(taken) /\ n <= Len(file.data)
                             /\ \A k \in 1..n : file.data[k] = taken[k]
    BY <2>1 DEF SndInv, Complete
  <2>3. n \in Nat /\ Count = n /\ Len(file.head) = 3 /\ file.head[2] = RecordFormat
    BY <2>2, HeadOfRecorded
  <2>4. frameBytes = 4
    <3>1. frameBytes = BytesPerFrame(file.head[2])
      BY <2>1, PlayTypes
    <3> QED BY <2>3, <3>1, RecordBytes
  <2>5. Whole(4, n) = n
    <3>1. n % 4 = 0
      BY <2>2, RecordBytes, SndWavAssumption DEF SndWavAssumption
    <3> QED BY <2>3, <3>1 DEF Whole
  <2>6. Sound = n
    <3>1. Sound = Whole(frameBytes, Count)
      BY <2>1, <2>2, <2>3, <2>4, SoundIs DEF SndInv
    <3> QED BY <2>3, <2>4, <2>5, <3>1
  <2>7. PICK p \in Seq(Int) : p = played
    BY <2>1 DEF SndInv, SndTypes
  <2>8. PICK t \in Seq(Int) : t = taken
    BY <2>1 DEF SndInv, SndTypes
  <2>9. n <= Len(p) /\ \A k \in 1..Len(p) : p[k] = IF k <= n THEN file.data[k] ELSE 0
    BY <2>1, <2>6, <2>7 DEF SndInv, Playing
  <2>10. ASSUME NEW k \in 1..n PROVE p[k] = t[k]
    <3>1. k \in 1..Len(p) /\ k <= n
      BY <2>3, <2>9
    <3>2. p[k] = file.data[k]
      BY <2>9, <3>1
    <3> QED BY <2>2, <2>8, <3>2
  <2>11. SubSeq(p, 1, n) = SubSeq(t, 1, n)
    <3>1. Agree(p, t, n)
      BY <2>10 DEF Agree
    <3>2. n <= Len(t)
      BY <2>2, <2>8
    <3> QED BY <2>3, <2>9, <3>1, <3>2, SamePrefix
  <2> QED BY <2>3, <2>7, <2>8, <2>9, <2>11
<1> QED BY <1>1, SndWavInvariant, PTL
=============================================================================
