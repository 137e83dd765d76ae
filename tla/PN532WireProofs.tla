-------------------------- MODULE PN532WireProofs ---------------------------
(***************************************************************************)
(* What PN532_SendCmd composes PN532_FrameParser accepts, and refuses once *)
(* a byte of its body is changed, for every command, every payload that    *)
(* fits sDataBuf, every position in the buffer and everything around the   *)
(* frame.                                                                  *)
(***************************************************************************)
EXTENDS PN532Wire, PN532FrameProofs

\* A buffer of N bytes that holds a frame of the host with the packet p behind s
\* bytes; its byte j, if j is not 0, is another one.
Lies(buf, N, s, f, p, L, j) ==
  /\ buf \in Seq(Byte) /\ Len(buf) = N
  /\ p \in Seq(Byte) /\ Len(p) = L
  /\ IsFrame(f, PN532_TFI_HOST2PN, p, L)
  /\ s + (L + 8) <= N
  /\ \A i \in 1..(L + 8) : i # j => buf[s + i] = f[i]
  /\ j # 0 => buf[s + j] # f[j]

\* No start code is found in the s bytes before a frame; the L + 8 bytes from there
\* on are read from the buffer.
NoneBefore(buf, s, x) == \A t \in 0..(s - 1) : ~StartAt(buf, t, x)
InBuffer(buf, s, L, x) == \A k \in 0..(L + 7) : ByteAt(buf, s + k, x) = buf[s + (k + 1)]

\* The verdict, if q is what the buffer has of the packet.
Checked(buf, s, L, x, q) ==
  /\ q \in Seq(Byte) /\ Len(q) = L /\ q = [i \in 1..L |-> buf[s + (6 + i)]]
  /\ ParseAt(buf, s, x) =
       IF /\ Complement(L + 1) = buf[s + 5]
          /\ Complement(DataSum(buf[s + 6], q)) = buf[s + (L + 7)]
       THEN Verdict(buf[s + 6], q) ELSE Rejected

\* A whole start code is found, and the bytes behind it are those of the buffer.
LEMMA FrameFound ==
  ASSUME NEW N \in Nat, NEW s \in Nat, NEW L \in 1..31, NEW j \in 0..(L + 8),
         j = 0 \/ j >= 4, NEW buf, NEW f, NEW p, Lies(buf, N, s, f, p, L, j), NEW x,
         NoneBefore(buf, s, x)
  PROVE  /\ FrameParser(buf, N, x) = ParseAt(buf, s, x)
         /\ InBuffer(buf, s, L, x)
<1> DEFINE B(k) == ByteAt(buf, s + k, x)
<1>0. Len(buf) = N /\ s + (L + 8) <= N
  BY DEF Lies
<1>1. \A k \in 0..(L + 7) : B(k) = buf[s + (k + 1)]
  <2> SUFFICES ASSUME NEW k \in 0..(L + 7) PROVE B(k) = buf[s + (k + 1)]
    OBVIOUS
  <2>1. s + k < N /\ (s + k) + 1 = s + (k + 1)
    BY <1>0
  <2> QED BY <1>0, <2>1 DEF ByteAt
<1>2. buf[s + 1] = 0 /\ buf[s + 2] = 0 /\ buf[s + 3] = 255
  <2>1. \A i \in 1..3 : i \in 1..(L + 8) /\ i # j
    OBVIOUS
  <2>2. \A i \in 1..3 : buf[s + i] = f[i]
    BY <2>1 DEF Lies
  <2>3. f[1] = 0 /\ f[2] = 0 /\ f[3] = 255
    BY DEF Lies, IsFrame
  <2> QED BY <2>2, <2>3
<1>3. B(0) = 0 /\ B(1) = 0 /\ B(2) = 255
  <2>1. 0 + 1 = 1 /\ 1 + 1 = 2 /\ 2 + 1 = 3 /\ {0, 1, 2} \subseteq 0..(L + 7)
    OBVIOUS
  <2> HIDE DEF B
  <2> QED BY <1>1, <1>2, <2>1
<1>4. StartAt(buf, s, x)
  <2>1. \A k \in 0..2 : k = 0 \/ k = 1 \/ k = 2
    OBVIOUS
  <2>2. StartCode[0 + 1] = 0 /\ StartCode[1 + 1] = 0 /\ StartCode[2 + 1] = 255
    BY DEF StartCode
  <2> QED BY <1>3, <2>1, <2>2 DEF StartAt
<1> DEFINE starts == {t \in Searched(N) : StartAt(buf, t, x)}
<1>5. s \in starts /\ starts \subseteq Nat
  BY <1>0, <1>4 DEF Searched, PN532_FRAME_LEN_MIN
<1>6. \A t \in starts : t >= s
  BY <1>5 DEF NoneBefore
<1>7. Min(starts) = s
  <2> HIDE DEF starts
  <2> QED BY <1>5, <1>6, FirstStart
<1>8. FrameParser(buf, N, x) = ParseAt(buf, s, x)
  BY <1>5, <1>7 DEF FrameParser
<1> QED BY <1>1, <1>8 DEF InBuffer

\* What the parser looks at, of a frame whose length byte is right: the identifier,
\* the packet and the checksums.
LEMMA FrameChecked ==
  ASSUME NEW N \in Nat, NEW s \in Nat, NEW L \in 1..31, NEW j \in 0..(L + 8),
         j = 0 \/ j >= 5, NEW buf, NEW f, NEW p, Lies(buf, N, s, f, p, L, j), NEW x,
         InBuffer(buf, s, L, x)
  PROVE  \E q : Checked(buf, s, L, x, q)
<1> DEFINE B(k) == ByteAt(buf, s + k, x)
           q    == [i \in 1..L |-> buf[s + (6 + i)]]
<1>0. buf \in Seq(Byte) /\ Len(buf) = N /\ s + (L + 8) <= N
  BY DEF Lies
<1>1. q \in Seq(Byte) /\ Len(q) = L
  <2>1. \A i \in 1..L : s + (6 + i) \in 1..N
    BY <1>0
  <2>2. \A i \in 1..L : buf[s + (6 + i)] \in Byte
    BY <1>0, <2>1
  <2> QED BY <2>2
<1>2. buf[s + 4] = L + 1
  <2>1. 4 \in 1..(L + 8) /\ 4 # j
    OBVIOUS
  <2> QED BY <2>1 DEF Lies, IsFrame
<1>3. /\ B(3) = L + 1 /\ B(4) = buf[s + 5] /\ B(5) = buf[s + 6]
      /\ B(5 + (L + 1)) = buf[s + (L + 7)]
  <2>1. /\ 3 + 1 = 4 /\ 4 + 1 = 5 /\ 5 + 1 = 6 /\ (5 + (L + 1)) + 1 = L + 7
        /\ {3, 4, 5, 5 + (L + 1)} \subseteq 0..(L + 7)
    OBVIOUS
  <2> HIDE DEF B
  <2>2. \A k \in 0..(L + 7) : B(k) = buf[s + (k + 1)]
    BY DEF B, InBuffer
  <2> QED BY <1>2, <2>1, <2>2
<1>4. [i \in 1..(B(3) - 1) |-> B(5 + i)] = q
  <2>1. 1..(B(3) - 1) = 1..L
    BY <1>3
  <2>2. \A i \in 1..L : B(5 + i) = buf[s + (6 + i)]
    <3>1. \A i \in 1..L : 5 + i \in 0..(L + 7) /\ (5 + i) + 1 = 6 + i
      OBVIOUS
    <3> HIDE DEF B
    <3>2. \A k \in 0..(L + 7) : B(k) = buf[s + (k + 1)]
      BY DEF B, InBuffer
    <3> QED BY <3>1, <3>2
  <2> HIDE DEF B
  <2> QED BY <2>1, <2>2
<1>5. /\ ~(B(3) = 0 /\ B(4) = 255) /\ ~(B(3) = 255 /\ B(4) = 0)
      /\ ~(B(3) = 255 /\ B(4) = 255) /\ B(3) \in 1..PN532_DATABUF_MAX
  <2>1. L + 1 # 0 /\ L + 1 # 255 /\ L + 1 \in 1..32
    OBVIOUS
  <2> HIDE DEF B
  <2> QED BY <1>3, <2>1 DEF PN532_DATABUF_MAX
<1>6. ParseAt(buf, s, x) =
        IF /\ B(3) \in 1..PN532_DATABUF_MAX
           /\ Complement(B(3)) = B(4)
           /\ Complement(DataSum(B(5), [i \in 1..(B(3) - 1) |-> B(5 + i)])) = B(5 + B(3))
        THEN Verdict(B(5), [i \in 1..(B(3) - 1) |-> B(5 + i)]) ELSE Rejected
  BY <1>5, Zenon DEF ParseAt
<1> HIDE DEF B, q
<1>7. ParseAt(buf, s, x) =
        IF /\ Complement(L + 1) = buf[s + 5]
           /\ Complement(DataSum(buf[s + 6], q)) = buf[s + (L + 7)]
        THEN Verdict(buf[s + 6], q) ELSE Rejected
  <2>1. ParseAt(buf, s, x) =
          IF Complement(B(3)) = B(4) /\ Complement(DataSum(B(5), q)) = B(5 + B(3))
          THEN Verdict(B(5), q) ELSE Rejected
    BY <1>4, <1>5, <1>6
  <2>2. B(5 + B(3)) = buf[s + (L + 7)]
    BY <1>3
  <2> QED BY <1>3, <2>1, <2>2
<1>8. q = [i \in 1..L |-> buf[s + (6 + i)]]
  BY DEF q
<1> QED BY <1>1, <1>7, <1>8 DEF Checked

\* With every byte but the postamble in place the frame is understood.
LEMMA FrameParsed ==
  ASSUME NEW N \in Nat, NEW s \in Nat, NEW L \in 1..31, NEW j \in {0, L + 8},
         NEW buf, NEW f, NEW p, Lies(buf, N, s, f, p, L, j), NEW x,
         NoneBefore(buf, s, x)
  PROVE  FrameParser(buf, N, x) = Verdict(PN532_TFI_HOST2PN, p)
<1>1. j \in 0..(L + 8) /\ (j = 0 \/ j >= 5)
  OBVIOUS
<1>2. /\ FrameParser(buf, N, x) = ParseAt(buf, s, x)
      /\ InBuffer(buf, s, L, x)
  <2>1. j = 0 \/ j >= 4
    BY <1>1
  <2> QED BY <1>1, <2>1, FrameFound
<1>o. PICK q : Checked(buf, s, L, x, q)
  BY <1>1, <1>2, FrameChecked
<1>3. /\ q \in Seq(Byte) /\ Len(q) = L /\ q = [i \in 1..L |-> buf[s + (6 + i)]]
      /\ ParseAt(buf, s, x) =
           IF /\ Complement(L + 1) = buf[s + 5]
              /\ Complement(DataSum(buf[s + 6], q)) = buf[s + (L + 7)]
           THEN Verdict(buf[s + 6], q) ELSE Rejected
  BY <1>o DEF Checked
<1>4. \A i \in 1..(L + 7) : buf[s + i] = f[i]
  <2>1. \A i \in 1..(L + 7) : i \in 1..(L + 8) /\ i # j
    OBVIOUS
  <2> QED BY <2>1 DEF Lies
<1>5. q = p
  <2>1. \A i \in 1..L : 6 + i \in 1..(L + 7)
    OBVIOUS
  <2>2. \A i \in 1..L : q[i] = p[i]
    BY <1>3, <1>4, <2>1 DEF Lies, IsFrame
  <2>3. p \in Seq(Byte) /\ Len(p) = L
    BY DEF Lies
  <2> QED BY <1>3, <2>2, <2>3, SeqEqual
<1>6. /\ buf[s + 5] = f[5] /\ buf[s + 6] = f[6] /\ buf[s + (L + 7)] = f[L + 7]
  <2>1. 5 \in 1..(L + 7) /\ 6 \in 1..(L + 7) /\ L + 7 \in 1..(L + 7)
    OBVIOUS
  <2> QED BY <1>4, <2>1
<1>7. /\ f[5] = Complement(L + 1) /\ f[6] = PN532_TFI_HOST2PN
      /\ f[L + 7] = Complement(DataSum(PN532_TFI_HOST2PN, p))
  BY DEF Lies, IsFrame
<1> QED BY <1>2, <1>3, <1>5, <1>6, <1>7

\* Different bytes have different complements.
LEMMA ComplementDiffers ==
  ASSUME NEW a \in Byte, NEW b \in Byte, a # b
  PROVE  Complement(a) # Complement(b)
<1>1. \A n \in 0..256 : n % 256 = IF n < 256 THEN n ELSE 0
  OBVIOUS
<1>2. 256 - a \in 0..256 /\ 256 - b \in 0..256
  BY DEF Byte
<1>3. /\ (256 - a) % 256 = IF 256 - a < 256 THEN 256 - a ELSE 0
      /\ (256 - b) % 256 = IF 256 - b < 256 THEN 256 - b ELSE 0
  BY <1>1, <1>2
<1> QED BY <1>3 DEF Byte, Complement

\* A changed length byte does not go with the length checksum, and makes no ACK.
LEMMA LengthFault ==
  ASSUME NEW N \in Nat, NEW s \in Nat, NEW L \in 1..31,
         NEW buf, NEW f, NEW p, Lies(buf, N, s, f, p, L, 4), NEW x,
         InBuffer(buf, s, L, x)
  PROVE  ParseAt(buf, s, x) = Rejected
<1> DEFINE B(k) == ByteAt(buf, s + k, x)
<1>1. B(3) # L + 1 /\ B(3) \in Byte /\ B(4) = Complement(L + 1)
  <2>1. /\ 3 + 1 = 4 /\ 4 + 1 = 5 /\ {3, 4} \subseteq 0..(L + 7)
        /\ {4, 5} \subseteq 1..(L + 8) /\ 4 # 0 /\ 5 # 4
    OBVIOUS
  <2>2. B(3) = buf[s + 4] /\ B(4) = buf[s + 5]
    BY <2>1 DEF InBuffer
  <2>3. buf[s + 4] # f[4] /\ buf[s + 5] = f[5]
    BY <2>1 DEF Lies
  <2>4. buf[s + 4] \in Byte
    <3>1. buf \in Seq(Byte) /\ Len(buf) = N /\ s + 4 \in 1..N
      BY DEF Lies
    <3> QED BY <3>1
  <2>5. f[4] = L + 1 /\ f[5] = Complement(L + 1)
    BY DEF Lies, IsFrame
  <2> QED BY <2>2, <2>3, <2>4, <2>5
<1>2. L + 1 \in 1..255 /\ L + 1 \in Byte
  BY DEF Byte
<1>3. B(4) = 256 - (L + 1)
  BY <1>1, <1>2, ComplementByte
<1>4. Complement(B(3)) # B(4)
  <2> HIDE DEF B
  <2> QED BY <1>1, <1>2, ComplementDiffers
<1>5. B(4) # 255 /\ B(4) # 0
  <2> HIDE DEF B
  <2> QED BY <1>3
<1> QED BY <1>4, <1>5, Zenon DEF ParseAt

\* A fault in the body of a command frame is refused.
LEMMA FaultFound ==
  ASSUME NEW N \in Nat, NEW s \in Nat, NEW L \in 1..31, NEW j \in 4..(L + 7),
         NEW buf, NEW f, NEW p, Lies(buf, N, s, f, p, L, j), NEW x,
         NoneBefore(buf, s, x)
  PROVE  FrameParser(buf, N, x) = Rejected
<1>0. j \in 0..(L + 8) /\ (j = 0 \/ j >= 4)
  OBVIOUS
<1>1. /\ FrameParser(buf, N, x) = ParseAt(buf, s, x)
      /\ InBuffer(buf, s, L, x)
  BY <1>0, FrameFound
<1>2. CASE j = 4
  BY <1>1, <1>2, LengthFault
<1>3. CASE j # 4
  <2>1. j >= 5
    BY <1>3
  <2>o. PICK q : Checked(buf, s, L, x, q)
    BY <1>0, <1>1, <2>1, FrameChecked
  <2>2. /\ q \in Seq(Byte) /\ Len(q) = L /\ q = [i \in 1..L |-> buf[s + (6 + i)]]
        /\ ParseAt(buf, s, x) =
             IF /\ Complement(L + 1) = buf[s + 5]
                /\ Complement(DataSum(buf[s + 6], q)) = buf[s + (L + 7)]
             THEN Verdict(buf[s + 6], q) ELSE Rejected
    BY <2>o DEF Checked
  <2> DEFINE T == PN532_TFI_HOST2PN
  <2>3. /\ f[5] = Complement(L + 1) /\ f[6] = T
        /\ f[L + 7] = Complement(DataSum(T, p))
        /\ \A i \in 1..L : f[6 + i] = p[i]
        /\ p \in Seq(Byte) /\ Len(p) = L
    BY DEF Lies, IsFrame
  <2>4. /\ \A i \in 1..(L + 8) : i # j => buf[s + i] = f[i]
        /\ buf[s + j] # f[j]
    BY <2>1 DEF Lies
  <2>5. T \in Byte /\ buf[s + 6] \in Byte
    <3>1. T \in Byte
      BY DEF PN532_TFI_HOST2PN, Byte
    <3>2. buf \in Seq(Byte) /\ Len(buf) = N /\ s + 6 \in 1..N
      BY DEF Lies
    <3> QED BY <3>1, <3>2
  <2> HIDE DEF T
  <2>9. \A i \in 1..L : q[i] = buf[s + (6 + i)]
    BY <2>2
  <2>6. CASE j = 5
    BY <1>1, <2>2, <2>3, <2>4, <2>6
  <2>7. CASE j = L + 7
    <3>1. 6 \in 1..(L + 8) /\ 6 # j
      BY <2>7
    <3>2. \A i \in 1..L : 6 + i \in 1..(L + 8) /\ 6 + i # j
      BY <2>7
    <3>5. \A i \in 1..L : buf[s + (6 + i)] = f[6 + i]
      BY <2>4, <3>2
    <3>3. buf[s + 6] = T /\ \A i \in 1..L : q[i] = p[i]
      BY <2>3, <2>4, <2>9, <3>1, <3>5
    <3>4. q = p
      BY <2>2, <2>3, <3>3, SeqEqual
    <3> QED BY <1>1, <2>2, <2>3, <2>4, <2>7, <3>3, <3>4
  <2>8. CASE j \in 6..(L + 6)
    <3>1. L + 7 \in 1..(L + 8) /\ L + 7 # j
      BY <2>8
    <3>2. buf[s + (L + 7)] = Complement(DataSum(T, p))
      BY <2>3, <2>4, <3>1
    <3>3. \/ buf[s + 6] # T /\ \A i \in 1..L : q[i] = p[i]
          \/ /\ buf[s + 6] = T
             /\ \E k \in 1..L : q[k] # p[k] /\ \A i \in 1..L : i # k => q[i] = p[i]
      <4>1. \A i \in 1..L : 6 + i \in 1..(L + 8) /\ q[i] = buf[s + (6 + i)]
        BY <2>2
      <4>2. CASE j = 6
        <5>1. \A i \in 1..L : 6 + i # j
          BY <4>2
        <5>2. \A i \in 1..L : buf[s + (6 + i)] = f[6 + i]
          BY <2>4, <4>1, <5>1
        <5>3. \A i \in 1..L : q[i] = p[i]
          BY <2>3, <4>1, <5>2
        <5>4. buf[s + 6] # T
          BY <2>3, <2>4, <4>2
        <5> QED BY <5>3, <5>4
      <4>3. CASE j # 6
        <5>1. PICK k \in 1..L : j = 6 + k
          <6>1. j - 6 \in 1..L /\ j = 6 + (j - 6)
            BY <2>8, <4>3
          <6> QED BY <6>1
        <5>2. 6 \in 1..(L + 8) /\ \A i \in 1..L : i # k => 6 + i # j
          BY <5>1
        <5>3. buf[s + 6] = T
          BY <2>3, <2>4, <4>3, <5>2
        <5>4. q[k] # p[k] /\ \A i \in 1..L : i # k => q[i] = p[i]
          BY <2>3, <2>4, <4>1, <5>1, <5>2
        <5> QED BY <5>3, <5>4
      <4> QED BY <4>2, <4>3
    <3>4. DataSum(buf[s + 6], q) # DataSum(T, p)
      <4>1. L \in Nat
        OBVIOUS
      <4>2. PICK t \in Byte : t = buf[s + 6]
        BY <2>5
      <4>3. \/ t # T /\ \A i \in 1..L : q[i] = p[i]
            \/ t = T /\ \E k \in 1..L : q[k] # p[k] /\ \A i \in 1..L : i # k => q[i] = p[i]
        BY <3>3, <4>2
      <4>5. q \in Seq(Byte) /\ p \in Seq(Byte) /\ Len(q) = L /\ Len(p) = L
        BY <2>2, <2>3
      <4>4. DataSum(t, q) # DataSum(T, p)
        BY <2>5, <4>1, <4>3, <4>5, SumDiffers
      <4> QED BY <4>2, <4>4
    <3>5. DataSum(buf[s + 6], q) \in Byte /\ DataSum(T, p) \in Byte
      BY <2>2, <2>3, <2>5, ChecksumByte
    <3>6. Complement(DataSum(buf[s + 6], q)) # Complement(DataSum(T, p))
      BY <3>4, <3>5, ComplementDiffers
    <3> QED BY <1>1, <2>2, <3>2, <3>6
  <2> QED BY <2>1, <2>6, <2>7, <2>8
<1> QED BY <1>2, <1>3

-----------------------------------------------------------------------------
(***************************************************************************)
(* The wire: a command frame lies at `at`, whole but for the fault.        *)
(***************************************************************************)
Holds(N, L, j) ==
  /\ Lies(wire, N, at, frame, packet, L, j)
  /\ faults = IF j = 0 THEN {} ELSE {j}

WireInv ==
  /\ at \in Nat /\ wire \in Seq(Byte) /\ frame \in Seq(Byte)
  /\ frame = << >> => packet = << >> /\ faults = {}
  /\ packet # << >> => \E N \in Nat, L \in 1..31 : \E j \in 0..(L + 8) : Holds(N, L, j)

\* The bytes of a start code.
LEMMA ByteOfBytes == {0, 255} \subseteq Byte
BY DEF Byte

\* Nothing is on the wire at first.
LEMMA WireInvInit == Init => WireInv
<1>1. << >> \in Seq(Byte)
  OBVIOUS
<1> QED BY <1>1 DEF Init, WireInv

\* Putting a frame of L + 8 bytes behind what is on the wire.
LEMMA PutHolds ==
  ASSUME WireInv, NEW p \in Seq(Byte), NEW L \in 1..31, Len(p) = L,
         Put(InfoFrame(PN532_TFI_HOST2PN, p), p)
  PROVE  WireInv'
<1> DEFINE f == InfoFrame(PN532_TFI_HOST2PN, p)
<1>1. IsFrame(f, PN532_TFI_HOST2PN, p, L)
  <2>1. PN532_TFI_HOST2PN \in Byte
    BY DEF PN532_TFI_HOST2PN, Byte
  <2>2. L \in 0..254
    OBVIOUS
  <2> QED BY <2>1, <2>2, FrameBytes
<1> HIDE DEF f
<1>2. /\ frame = << >> /\ faults = {} /\ faults' = {}
      /\ frame' = f /\ packet' = p /\ at' = Len(wire) /\ wire' = wire \o f
      /\ wire \in Seq(Byte)
  BY DEF Put, WireInv, f
<1>3. PICK m \in Nat : m = Len(wire)
  BY <1>2, LenProperties
<1> DEFINE k == L + 8
<1>4. k \in Nat /\ Len(f) = k /\ f \in Seq(Byte)
  BY <1>1 DEF IsFrame
<1>5. k = L + 8
  OBVIOUS
<1> HIDE DEF k
<1>6. /\ wire' \in Seq(Byte) /\ Len(wire') = m + k
      /\ \A i \in 1..k : wire'[m + i] = f[i]
  BY <1>2, <1>3, <1>4
<1>7. Lies(wire', m + k, m, f, p, L, 0)
  BY <1>1, <1>3, <1>4, <1>5, <1>6 DEF Lies
<1>8. Holds(m + k, L, 0)'
  BY <1>2, <1>3, <1>7 DEF Holds
<1>9. frame' # << >>
  BY <1>1, <1>2 DEF IsFrame
<1>10. m + k \in Nat /\ 0 \in 0..(L + 8)
  BY <1>4
<1>11. \E N \in Nat, l \in 1..31 : \E j \in 0..(l + 8) : Holds(N, l, j)'
  BY <1>8, <1>10, Zenon
<1> QED BY <1>2, <1>3, <1>4, <1>6, <1>9, <1>11 DEF WireInv

\* One of the special frames, whole or without its postamble.
LEMMA SpecialHolds ==
  ASSUME WireInv, NEW f \in {PN532_ACK_FRAME, NackFrame}, SendSpecial(f)
  PROVE  WireInv'
<1>1. f \in Seq(Byte) /\ SubSeq(f, 1, 5) \in Seq(Byte)
      /\ f # << >> /\ SubSeq(f, 1, 5) # << >>
  <2>1. f = <<0, 0, 255, 0, 255, 0>> \/ f = <<0, 0, 255, 255, 0, 0>>
    BY DEF PN532_ACK_FRAME, NackFrame, StartCode
  <2>2. 0 \in Byte /\ 255 \in Byte
    BY ByteOfBytes
  <2>3. f \in Seq(Byte) /\ f # << >>
    <3>1. <<0, 0, 255, 0, 255, 0>> \in Seq(Byte)
      BY <2>2
    <3>2. <<0, 0, 255, 255, 0, 0>> \in Seq(Byte)
      BY <2>2
    <3>3. Len(<<0, 0, 255, 0, 255, 0>>) = 6 /\ Len(<<0, 0, 255, 255, 0, 0>>) = 6
      OBVIOUS
    <3>4. f \in Seq(Byte) /\ Len(f) = 6
      BY <2>1, <3>1, <3>2, <3>3
    <3> QED BY <3>4
  <2>4. \A i \in 1..5 : f[i] \in Byte
    <3>1. CASE f = <<0, 0, 255, 0, 255, 0>>
      BY <2>2, <3>1
    <3>2. CASE f = <<0, 0, 255, 255, 0, 0>>
      BY <2>2, <3>2
    <3> QED BY <2>1, <3>1, <3>2
  <2>5. SubSeq(f, 1, 5) \in Seq(Byte) /\ Len(SubSeq(f, 1, 5)) = 5
    BY <2>4, SubSeqProperties
  <2> QED BY <2>3, <2>5
<1>2. PICK g \in Seq(Byte) : g # << >> /\ Put(g, << >>)
  BY <1>1 DEF SendSpecial
<1>3. wire \in Seq(Byte) /\ Len(wire) \in Nat
  BY DEF WireInv
<1>4. wire' \in Seq(Byte) /\ frame' \in Seq(Byte)
  BY <1>2, <1>3 DEF Put
<1> QED BY <1>2, <1>3, <1>4 DEF Put, WireInv

\* Bytes behind the frame do not change it.
LEMMA PadHolds ==
  ASSUME WireInv, NEW b \in Byte, Pad(b)
  PROVE  WireInv'
<1>1. /\ at' = at /\ frame' = frame /\ packet' = packet /\ faults' = faults
      /\ wire' = Append(wire, b) /\ frame # << >> /\ wire \in Seq(Byte)
  BY DEF Pad, WireInv
<1>2. ASSUME packet # << >>
      PROVE  \E N \in Nat, L \in 1..31 : \E j \in 0..(L + 8) : Holds(N, L, j)'
  <2>1. PICK N \in Nat, L \in 1..31 : \E j \in 0..(L + 8) : Holds(N, L, j)
    BY <1>2 DEF WireInv
  <2>2. PICK j \in 0..(L + 8) : Holds(N, L, j)
    BY <2>1
  <2>3. wire \in Seq(Byte) /\ Len(wire) = N /\ at \in Nat
    BY <2>2 DEF WireInv, Holds, Lies
  <2>4. PICK w : w = wire'
    OBVIOUS
  <2>5. w \in Seq(Byte) /\ Len(w) = N + 1 /\ \A i \in 1..N : w[i] = wire[i]
    BY <1>1, <2>3, <2>4
  <2>6. \A i \in 1..(L + 8) : at + i \in 1..N
    BY <2>2, <2>3 DEF Holds, Lies
  <2>7. \A i \in 1..(L + 8) : w[at + i] = wire[at + i]
    BY <2>5, <2>6
  <2>8. Lies(w, N + 1, at, frame, packet, L, j)
    BY <2>2, <2>3, <2>5, <2>7 DEF Holds, Lies
  <2>9. Holds(N + 1, L, j)' /\ N + 1 \in Nat
    BY <1>1, <2>2, <2>4, <2>8 DEF Holds
  <2> QED BY <2>9, Zenon
<1>3. wire' \in Seq(Byte)
  BY <1>1
<1> QED BY <1>1, <1>2, <1>3 DEF WireInv

\* A changed byte is the only one changed.
LEMMA CorruptHolds ==
  ASSUME WireInv, NEW i \in 1..Len(frame), NEW b \in Byte, Corrupt(i, b)
  PROVE  WireInv'
<1>1. /\ at' = at /\ frame' = frame /\ packet' = packet /\ faults = {} /\ faults' = {i}
      /\ wire' = [wire EXCEPT ![at + i] = b] /\ b # frame[i] /\ frame # << >>
      /\ wire \in Seq(Byte) /\ frame \in Seq(Byte) /\ at \in Nat
  BY DEF Corrupt, WireInv
<1>2. /\ wire' \in Seq(Byte) /\ Len(wire') = Len(wire)
      /\ \A n \in 1..Len(wire) : wire'[n] = IF n = at + i THEN b ELSE wire[n]
  <2>1. PICK w : w = wire'
    OBVIOUS
  <2>2. PICK k \in Nat : k = at + i
    BY <1>1
  <2>3. w = [wire EXCEPT ![k] = b]
    BY <1>1, <2>1, <2>2
  <2>4. /\ w \in Seq(Byte) /\ Len(w) = Len(wire)
        /\ \A n \in 1..Len(wire) : w[n] = IF n = k THEN b ELSE wire[n]
    <3>1. CASE k \in 1..Len(wire)
      BY <1>1, <2>3, <3>1, ExceptSeq
    <3>2. CASE k \notin 1..Len(wire)
      <4>1. w = wire
        BY <1>1, <2>3, <3>2
      <4> QED BY <1>1, <3>2, <4>1
    <3> QED BY <3>1, <3>2
  <2> QED BY <2>1, <2>2, <2>4
<1>3. ASSUME packet # << >>
      PROVE  \E N \in Nat, L \in 1..31 : \E j \in 0..(L + 8) : Holds(N, L, j)'
  <2>1. PICK N \in Nat, L \in 1..31 : \E j \in 0..(L + 8) : Holds(N, L, j)
    BY <1>3 DEF WireInv
  <2>2. PICK j \in 0..(L + 8) : Holds(N, L, j)
    BY <2>1
  <2>3. j = 0
    BY <1>1, <2>2 DEF Holds
  <2>4. /\ Len(wire) = N /\ at + (L + 8) <= N /\ i \in 1..(L + 8)
        /\ \A n \in 1..(L + 8) : wire[at + n] = frame[n]
    BY <2>2, <2>3 DEF Holds, Lies, IsFrame
  <2>5. PICK w : w = wire'
    OBVIOUS
  <2>6. \A n \in 1..(L + 8) : at + n \in 1..N /\ (n # i => at + n # at + i)
    BY <1>1, <2>4
  <2>7. w[at + i] = b /\ \A n \in 1..(L + 8) : n # i => w[at + n] = frame[n]
    BY <1>2, <2>4, <2>5, <2>6
  <2>8. Lies(w, N, at, frame, packet, L, i)
    BY <1>1, <1>2, <2>2, <2>4, <2>5, <2>7 DEF Holds, Lies
  <2>9. Holds(N, L, i)'
    BY <1>1, <2>4, <2>5, <2>8 DEF Holds
  <2>10. i \in 0..(L + 8)
    BY <2>4
  <2> QED BY <2>9, <2>10, Zenon
<1> QED BY <1>1, <1>2, <1>3 DEF WireInv

\* Every step keeps the frame on the wire, but for one byte.
LEMMA WireInvNext == WireInv /\ [Next]_vars => WireInv'
<1> SUFFICES ASSUME WireInv, [Next]_vars PROVE WireInv'
  OBVIOUS
<1>0. \A b \in Strays : b \in Byte
  BY WireAssumption
<1>1. ASSUME NEW b \in Strays, Lead(b) PROVE WireInv'
  BY <1>0, <1>1 DEF Lead, WireInv
<1>2. ASSUME NEW b \in Strays, Pad(b) PROVE WireInv'
  BY <1>0, <1>2, PadHolds
<1>3. ASSUME NEW c \in Commands, NEW n \in 0..MaxData, NEW data \in [1..n -> Strays],
             SendCommand(c, data)
      PROVE  WireInv'
  <2>1. n \in 0..23 /\ n \in Nat
    BY WireAssumption DEF PN532_DATABUF_MAX
  <2>2. data \in Seq(Byte) /\ Len(data) = n
    BY <2>1, WireAssumption
  <2>3. c \in Byte
    BY WireAssumption
  <2> DEFINE p == <<c>> \o data
  <2>4. p \in Seq(Byte) /\ Len(p) = n + 1
    BY <2>1, <2>2, <2>3
  <2>5. n + 1 \in 1..31
    BY <2>1
  <2> QED BY <1>3, <2>4, <2>5, PutHolds DEF SendCommand, CommandFrame
<1>4. ASSUME NEW f \in {PN532_ACK_FRAME, NackFrame}, SendSpecial(f) PROVE WireInv'
  BY <1>4, SpecialHolds
<1>5. ASSUME NEW i \in 1..Len(frame),
             NEW b \in Strays \cup {(frame[i] + d) % 256 : d \in {1, 2, 128}},
             Corrupt(i, b)
      PROVE  WireInv'
  <2>1. ASSUME NEW d \in {1, 2, 128} PROVE (frame[i] + d) % 256 \in Byte
    <3>1. frame[i] \in Byte
      BY DEF WireInv
    <3>2. d \in Byte
      BY DEF Byte
    <3> QED BY <3>1, <3>2, AddByte
  <2>2. b \in Byte
    BY <1>0, <2>1
  <2> QED BY <1>5, <2>2, CorruptHolds
<1>6. CASE UNCHANGED vars
  BY <1>6 DEF vars, WireInv, Holds
<1> QED BY <1>1, <1>2, <1>3, <1>4, <1>5, <1>6 DEF Next

\* Nothing between the first byte and the frame is a start code, whatever lies
\* behind the buffer.
LEMMA LeadIsClean ==
  ASSUME WireInv, CleanLead, NEW N \in Nat, NEW L \in 1..31, NEW j, Holds(N, L, j), NEW x
  PROVE  NoneBefore(wire, at, x)
<1> SUFFICES ASSUME NEW t \in 0..(at - 1) PROVE ~StartAt(wire, t, x)
  BY DEF NoneBefore
<1>1. Len(wire) = N /\ at + (L + 8) <= N /\ at \in Nat
  BY DEF WireInv, Holds, Lies
<1>2. \A k \in 0..2 : t + k < N
  BY <1>1
<1>3. \A k \in 0..2 : ByteAt(wire, t + k, x) = ByteAt(wire, t + k, 0)
  BY <1>1, <1>2 DEF ByteAt
<1>4. ~StartAt(wire, t, 0)
  BY DEF CleanLead
<1> QED BY <1>3, <1>4 DEF StartAt

\* The verdict on a command frame: its packet if its body is as it was sent.
LEMMA CommandVerdict ==
  ASSUME WireInv, CleanLead, packet # << >>, faults \cap 1..3 = {}
  PROVE  \E N \in Nat :
           /\ faults = {} \/ faults = {N}
           /\ \A x : Parse(x) =
                IF faults # {} /\ N # Len(frame)
                THEN Rejected ELSE Verdict(PN532_TFI_HOST2PN, packet)
<1>1. PICK N \in Nat, L \in 1..31 : \E j \in 0..(L + 8) : Holds(N, L, j)
  BY DEF WireInv
<1>2. PICK j \in 0..(L + 8) : Holds(N, L, j)
  BY <1>1
<1>3. /\ Lies(wire, N, at, frame, packet, L, j) /\ at \in Nat /\ Len(wire) = N
      /\ Len(frame) = L + 8
  BY <1>2 DEF Holds, WireInv, Lies, IsFrame
<1>4. \A x : NoneBefore(wire, at, x)
  BY <1>1, <1>2, LeadIsClean
<1>5. /\ faults = {} <=> j = 0
      /\ j # 0 => faults = {j} /\ j >= 4
  BY <1>2 DEF Holds
<1>6. CASE j \in {0, L + 8}
  <2>1. \A x : FrameParser(wire, N, x) = Verdict(PN532_TFI_HOST2PN, packet)
    BY <1>3, <1>4, <1>6, FrameParsed
  <2>2. faults = {} \/ j = Len(frame)
    BY <1>3, <1>5, <1>6
  <2> QED BY <1>3, <1>5, <2>1, <2>2 DEF Parse
<1>7. CASE j \in 4..(L + 7)
  <2>1. \A x : FrameParser(wire, N, x) = Rejected
    <3> SUFFICES ASSUME NEW x PROVE FrameParser(wire, N, x) = Rejected
      OBVIOUS
    <3>1. NoneBefore(wire, at, x)
      BY <1>4
    <3>2. Lies(wire, N, at, frame, packet, L, j) /\ at \in Nat
      BY <1>3
    <3> QED BY ONLY <1>7, <3>1, <3>2, N \in Nat, L \in 1..31, FaultFound
  <2>2. faults # {} /\ j # Len(frame)
    BY <1>3, <1>5, <1>7
  <2> QED BY <1>3, <1>5, <2>1, <2>2 DEF Parse
<1> QED BY <1>5, <1>6, <1>7

-----------------------------------------------------------------------------
\* PN532_FrameParser understands every command PN532_SendCmd can compose, with
\* any command byte and any payload its length limit admits, wherever the frame
\* starts and whatever is around it.
THEOREM CommandUnderstoodHolds == Spec => []CommandUnderstood
<1>1. WireInv => CommandUnderstood
  <2> SUFFICES ASSUME WireInv, NEW x \in Beyond, packet # << >>, faults = {}, CleanLead
               PROVE  Parse(x) = Verdict(PN532_TFI_HOST2PN, packet)
    BY DEF CommandUnderstood
  <2> QED BY CommandVerdict
<1> QED BY <1>1, WireInvInit, WireInvNext, PTL DEF Spec

\* One changed byte in the body of a command frame, from its length to its
\* checksum, is never accepted, for any payload: a changed length does not go with
\* the length checksum, and a sum in which one byte differs differs.
THEOREM FaultDetectedHolds == Spec => []FaultDetected
<1>1. WireInv => FaultDetected
  <2> SUFFICES ASSUME WireInv, NEW x \in Beyond, packet # << >>, CleanLead,
                      faults # {}, faults \subseteq 4..(Len(frame) - 1)
               PROVE  Parse(x).res = PN532_INVALID_FRAME
    BY DEF FaultDetected
  <2>1. Len(frame) \in Nat
    BY DEF WireInv
  <2>2. faults \cap 1..3 = {} /\ faults # {Len(frame)}
    BY <2>1
  <2>3. Parse(x) = Rejected
    BY <2>2, CommandVerdict
  <2> QED BY <2>3 DEF Rejected, Verdict
<1> QED BY <1>1, WireInvInit, WireInvNext, PTL DEF Spec

\* Unless the fault is in the start code, the verdict on a command depends on the
\* bytes read alone: no length the parser accepts takes it past the buffer.
THEOREM VerdictFromFrameHolds == Spec => []VerdictFromFrame
<1>1. WireInv => VerdictFromFrame
  BY CommandVerdict DEF VerdictFromFrame
<1> QED BY <1>1, WireInvInit, WireInvNext, PTL DEF Spec
=============================================================================
