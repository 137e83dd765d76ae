-------------------------- MODULE PN532DriverProofs --------------------------
(***************************************************************************)
(* Whose answer an exchange of the driver succeeds with, and what the      *)
(* variables hold, for every list of versions and targets a frame can hold *)
(* and any number of failed transfers, late answers and kept output.       *)
(***************************************************************************)
EXTENDS PN532Driver, PN532FrameProofs

\* The codes as numbers.
LEMMA Codes ==
  /\ PN532_TFI_PN2HOST \in Byte /\ PN532_TFI_HOST2PN \in Byte /\ 127 \in Byte
  /\ PN532_TFI_ACK = 0 /\ PN532_TFI_NACK = 255 /\ PN532_NOT_SUPPORT = 253
  /\ PN532_INVALID_FRAME = 250 /\ PN532_TFI_PN2HOST = 213 /\ PN532_TFI_HOST2PN = 212
BY DEF PN532_TFI_PN2HOST, PN532_TFI_HOST2PN, Byte, PN532_TFI_ACK, PN532_TFI_NACK,
       PN532_NOT_SUPPORT, PN532_INVALID_FRAME

-----------------------------------------------------------------------------
(***************************************************************************)
(* The parser on a buffer that starts with a frame, and on one without.    *)
(***************************************************************************)
Buffer(buf) == buf \in Seq(Byte) /\ Len(buf) = 32

Starts(buf) == buf[1] = 0 /\ buf[2] = 0 /\ buf[3] = 255

\* Within the buffer the parser reads the buffer.
LEMMA ByteIs ==
  ASSUME NEW buf, Buffer(buf), NEW k \in 0..31, NEW x
  PROVE  ByteAt(buf, k, x) = buf[k + 1]
BY DEF ByteAt, Buffer

\* A start code at the front is the one the parser finds, whatever length it is told.
LEMMA AtStart ==
  ASSUME NEW buf, Buffer(buf), Starts(buf), NEW n \in {6, 32, 255}, NEW x
  PROVE  FrameParser(buf, n, x) = ParseAt(buf, 0, x)
<1> DEFINE starts == {s \in Searched(n) : StartAt(buf, s, x)}
<1>1. /\ ByteAt(buf, 0, x) = 0 /\ ByteAt(buf, 1, x) = 0 /\ ByteAt(buf, 2, x) = 255
  <2>1. /\ ByteAt(buf, 0, x) = buf[0 + 1] /\ ByteAt(buf, 1, x) = buf[1 + 1]
        /\ ByteAt(buf, 2, x) = buf[2 + 1]
    BY ByteIs
  <2> QED BY <2>1 DEF Starts
<1>2. StartAt(buf, 0, x)
  <2>1. StartCode[1] = 0 /\ StartCode[2] = 0 /\ StartCode[3] = 255
    BY DEF StartCode
  <2>2. \A k \in 0..2 : /\ k = 0 \/ k = 1 \/ k = 2
                        /\ 0 + k = k
    OBVIOUS
  <2> QED BY <1>1, <2>1, <2>2 DEF StartAt
<1>3. 0 \in starts /\ starts \in SUBSET Nat /\ \A t \in starts : t >= 0
  BY <1>2 DEF Searched, PN532_FRAME_LEN_MIN
<1>4. starts # {} /\ Min(starts) = 0
  <2> HIDE DEF starts
  <2> QED BY <1>3, FirstStart
<1> QED BY <1>4 DEF FrameParser

\* Nothing is found in no bytes, in six without a start code, and in zeros.
LEMMA NoStart ==
  ASSUME NEW buf, Buffer(buf), NEW n, NEW x,
         \/ n = 0
         \/ n = 6 /\ buf[3] # 255
         \/ n = 32 /\ \A i \in 1..32 : buf[i] = 0
  PROVE  FrameParser(buf, n, x) = Rejected
<1>1. ASSUME NEW s \in Searched(n) PROVE ~StartAt(buf, s, x)
  <2>1. n # 0 /\ n \in {6, 32} /\ s \in Nat /\ s + 2 \in 0..31 /\ (n = 6 => s = 0)
    BY DEF Searched, PN532_FRAME_LEN_MIN
  <2>2. ByteAt(buf, s + 2, x) = buf[(s + 2) + 1]
    BY <2>1, ByteIs
  <2>3. (s + 2) + 1 \in 1..32 /\ (n = 6 => (s + 2) + 1 = 3)
    BY <2>1
  <2>4. buf[(s + 2) + 1] # 255
    BY <2>1, <2>3
  <2>5. StartCode[2 + 1] = 255 /\ 2 \in 0..2
    BY DEF StartCode
  <2> QED BY <2>2, <2>4, <2>5 DEF StartAt
<1>2. {s \in Searched(n) : StartAt(buf, s, x)} = {}
  BY <1>1
<1> QED BY <1>2 DEF FrameParser

\* What is made of a frame at the start of the buffer, by its length, the length's
\* checksum and its identifier.
Packet(buf, len, x) == [i \in 1..(len - 1) |-> ByteAt(buf, 5 + i, x)]

\* The verdict on such a frame: an acknowledgement, a fault, or its packet.
LEMMA ParsedHead ==
  ASSUME NEW buf, Buffer(buf), NEW x, NEW v, v = ParseAt(buf, 0, x)
  PROVE  \/ buf[4] = 0 /\ buf[5] = 255 /\ v = Verdict(PN532_TFI_ACK, << >>)
         \/ buf[4] = 255 /\ buf[5] = 0 /\ v = Verdict(PN532_TFI_NACK, << >>)
         \/ v = Verdict(PN532_NOT_SUPPORT, << >>)
         \/ v = Rejected
         \/ /\ ~(buf[4] = 255 /\ buf[5] = 0) /\ ~(buf[4] = 0 /\ buf[5] = 255)
            /\ buf[4] \in 1..32 /\ v = Verdict(buf[6], Packet(buf, buf[4], x))
<1> DEFINE P(k) == ByteAt(buf, 0 + k, x)
<1>1. P(3) = buf[4] /\ P(4) = buf[5] /\ P(5) = buf[6]
  <2>1. P(3) = buf[3 + 1] /\ P(4) = buf[4 + 1] /\ P(5) = buf[5 + 1]
    BY ByteIs
  <2> QED BY <2>1
<1>2. [i \in 1..(P(3) - 1) |-> P(5 + i)] = Packet(buf, P(3), x)
  <2>1. \A i \in 1..(P(3) - 1) : 0 + (5 + i) = 5 + i
    OBVIOUS
  <2> QED BY <2>1 DEF Packet
<1> HIDE DEF P
<1>3. ParseAt(buf, 0, x) =
        CASE P(3) = 0   /\ P(4) = 255 -> Verdict(PN532_TFI_ACK, << >>)
          [] P(3) = 255 /\ P(4) = 0   -> Verdict(PN532_TFI_NACK, << >>)
          [] P(3) = 255 /\ P(4) = 255 -> Verdict(PN532_NOT_SUPPORT, << >>)
          [] OTHER ->
               IF /\ P(3) \in 1..PN532_DATABUF_MAX
                  /\ Complement(P(3)) = P(4)
                  /\ Complement(DataSum(P(5), Packet(buf, P(3), x))) = P(5 + P(3))
               THEN Verdict(P(5), Packet(buf, P(3), x)) ELSE Rejected
  BY <1>2 DEF ParseAt, P
<1> QED BY <1>1, <1>3 DEF PN532_DATABUF_MAX

-----------------------------------------------------------------------------
(***************************************************************************)
(* What a chip may have to deliver.                                        *)
(***************************************************************************)
Frames == {PN532_ACK_FRAME, NackFrame, ErrorFrame} \cup UNION {AnswersTo(c) : c \in Cmds}

IsAnswer(f, c, d) ==
  /\ f = Answer(c, d) /\ Len(d) \in 0..253 /\ d \in Seq(Byte)
  /\ c = GetFirmwareVersion => d \in Versions
  /\ IsFrame(f, PN532_TFI_PN2HOST, <<c + 1>> \o d, Len(d) + 1)

\* An answer is a frame of the chip's, with its command + 1 in front of the data.
LEMMA AnswerFrame ==
  ASSUME NEW c \in Cmds, NEW f \in AnswersTo(c)
  PROVE  \E d \in Seq(Byte) : IsAnswer(f, c, d)
<1>1. PICK d \in Versions \cup Targets :
        f = Answer(c, d) /\ (c = GetFirmwareVersion => d \in Versions)
  BY DEF AnswersTo
<1>2. d \in Seq(Byte) /\ Len(d) <= 253 /\ Len(d) \in Nat
  BY DriverAssumption
<1>3. c + 1 \in Byte
  BY DEF Cmds, GetFirmwareVersion, InListPassiveTarget, Byte
<1> DEFINE p == <<c + 1>> \o d
<1>4. p \in Seq(Byte) /\ Len(p) = Len(d) + 1
  BY <1>2, <1>3
<1>5. Len(d) + 1 \in 0..254 /\ Len(d) \in 0..253
  <2>1. \A n \in Nat : n <= 253 => n + 1 \in 0..254 /\ n \in 0..253
    OBVIOUS
  <2> QED BY <1>2, <2>1
<1>6. IsFrame(InfoFrame(PN532_TFI_PN2HOST, p), PN532_TFI_PN2HOST, p, Len(d) + 1)
  <2> HIDE DEF p
  <2> QED BY <1>4, <1>5, Codes, FrameBytes
<1> QED BY <1>1, <1>2, <1>5, <1>6 DEF IsAnswer, Answer

\* The head of a frame, whatever it carries.
LEMMA FrameHead ==
  ASSUME NEW f, NEW tfi, NEW p, NEW L, IsFrame(f, tfi, p, L)
  PROVE  /\ f \in Seq(Byte) /\ Len(f) = L + 8
         /\ f[1] = 0 /\ f[2] = 0 /\ f[3] = 255
         /\ f[4] = L + 1 /\ f[5] = Complement(L + 1) /\ f[6] = tfi
BY Zenon DEF IsFrame

HeadOf(f, L) ==
  /\ L \in 1..254 /\ f \in Seq(Byte) /\ Len(f) = L + 8 /\ Starts(f)
  /\ f[4] = L + 1 /\ f[5] = Complement(L + 1) /\ f[6] = 213

\* The head of an answer with the data d.
LEMMA AnswerHead ==
  ASSUME NEW f, NEW c, NEW d, IsAnswer(f, c, d)
  PROVE  \E L \in Nat : L = Len(d) + 1 /\ HeadOf(f, L)
<1>1. /\ Len(d) \in 0..253 /\ d \in Seq(Byte)
      /\ IsFrame(f, PN532_TFI_PN2HOST, <<c + 1>> \o d, Len(d) + 1)
  BY Zenon DEF IsAnswer
<1>2. PICK n \in 0..253 : n = Len(d)
  BY <1>1
<1>3. PICK L \in 1..254 : L = n + 1
  <2>1. \A m \in 0..253 : m + 1 \in 1..254
    OBVIOUS
  <2> QED BY <2>1
<1>4. PN532_TFI_PN2HOST = 213
  BY Codes
<1>5. L = Len(d) + 1
  BY <1>2, <1>3
<1>6. IsFrame(f, 213, <<c + 1>> \o d, L)
  BY <1>1, <1>4, <1>5, Zenon
<1>7. /\ f \in Seq(Byte) /\ Len(f) = L + 8
      /\ f[1] = 0 /\ f[2] = 0 /\ f[3] = 255
      /\ f[4] = L + 1 /\ f[5] = Complement(L + 1) /\ f[6] = 213
  BY <1>6, FrameHead
<1>8. Starts(f)
  BY ONLY <1>7 DEF Starts
<1>9. HeadOf(f, L)
  BY <1>7, <1>8, Zenon DEF HeadOf
<1> QED BY <1>5, <1>9

\* The error frame has the length 1 and an identifier no driver asks for.
LEMMA ErrorIsFrame ==
  ErrorFrame \in Seq(Byte) /\ Len(ErrorFrame) = 8 /\ Starts(ErrorFrame)
  /\ ErrorFrame[4] = 1 /\ ErrorFrame[6] = 127
<1>1. << >> \in Seq(Byte) /\ Len(<< >>) = 0 /\ 0 \in 0..254
  OBVIOUS
<1>2. IsFrame(InfoFrame(127, << >>), 127, << >>, 0)
  <2>1. PICK p \in Seq(Byte), L \in 0..254 : p = << >> /\ L = 0 /\ Len(p) = L
    BY <1>1
  <2>2. IsFrame(InfoFrame(127, p), 127, p, L)
    BY <2>1, Codes, FrameBytes
  <2> QED BY <2>1, <2>2
<1> QED BY <1>2 DEF IsFrame, ErrorFrame, Starts

\* An ACK and a NACK are told apart by their two bytes for a length.
LEMMA SpecialFrames ==
  ASSUME NEW f \in {PN532_ACK_FRAME, NackFrame}
  PROVE  /\ f \in Seq(Byte) /\ Len(f) = 6 /\ Starts(f)
         /\ \/ f = PN532_ACK_FRAME /\ f[4] = 0 /\ f[5] = 255
            \/ f[4] = 255 /\ f[5] = 0
<1>1. 0 \in Byte /\ 255 \in Byte
  BY DEF Byte
<1>2. CASE f \in {PN532_ACK_FRAME}
  <2>1. f = <<0, 0, 255, 0, 255, 0>>
    BY <1>2 DEF PN532_ACK_FRAME, StartCode
  <2>2. f \in Seq(Byte) /\ Len(f) = 6 /\ Starts(f) /\ f[4] = 0 /\ f[5] = 255
    BY <1>1, <2>1 DEF Starts
  <2> QED BY <1>2, <2>2
<1>3. CASE f \in {NackFrame}
  <2>1. f = <<0, 0, 255, 255, 0, 0>>
    BY <1>3 DEF NackFrame, StartCode
  <2>2. f \in Seq(Byte) /\ Len(f) = 6 /\ Starts(f) /\ f[4] = 255 /\ f[5] = 0
    BY <1>1, <2>1 DEF Starts
  <2> QED BY <2>2
<1> QED BY <1>2, <1>3

\* The kinds of frames, by what the parser tells them apart by.
LEMMA FrameKinds ==
  ASSUME NEW f \in Frames
  PROVE  /\ f \in Seq(Byte) /\ Len(f) \in Nat /\ Len(f) >= 6 /\ Starts(f)
         /\ \/ f = PN532_ACK_FRAME /\ f[4] = 0 /\ f[5] = 255
            \/ f[4] = 255 /\ f[5] = 0
            \/ f[4] = 1 /\ f[6] = 127
            \/ \E c \in Cmds : f \in AnswersTo(c)
<1>1. CASE f \in {PN532_ACK_FRAME, NackFrame}
  <2>1. /\ f \in Seq(Byte) /\ Len(f) = 6 /\ Starts(f)
        /\ \/ f = PN532_ACK_FRAME /\ f[4] = 0 /\ f[5] = 255
           \/ f[4] = 255 /\ f[5] = 0
    BY <1>1, SpecialFrames, Zenon
  <2> QED BY <2>1
<1>3. CASE f = ErrorFrame
  BY <1>3, ErrorIsFrame
<1>4. ASSUME NEW c \in Cmds, f \in AnswersTo(c)
      PROVE  f \in Seq(Byte) /\ Len(f) \in Nat /\ Len(f) >= 6 /\ Starts(f)
  <2>1. PICK d \in Seq(Byte) : IsAnswer(f, c, d)
    BY <1>4, AnswerFrame
  <2>2. PICK L \in Nat : HeadOf(f, L)
    BY <2>1, AnswerHead, Zenon
  <2> QED BY <2>2 DEF HeadOf
<1> QED BY <1>1, <1>3, <1>4 DEF Frames

\* What a read puts into the buffer, byte by byte.
LEMMA FillAt ==
  ASSUME NEW buf, Buffer(buf), NEW f \in Seq(Byte), NEW n \in Nat
  PROVE  /\ Buffer(Fill(buf, f, n))
         /\ \A i \in 1..32 : Fill(buf, f, n)[i] =
              IF i > n THEN buf[i] ELSE IF i <= Len(f) THEN f[i] ELSE 0
<1>0. \A i \in 1..32 : buf[i] \in Byte
  <2>1. buf \in Seq(Byte) /\ Len(buf) = 32
    BY DEF Buffer
  <2> QED BY <2>1, ElementOfSeq
<1> DEFINE g == [i \in 1..32 |->
                  IF i > n THEN buf[i] ELSE IF i <= Len(f) THEN f[i] ELSE 0]
<1>1. Fill(buf, f, n) = g
  BY DEF Fill, Buffer
<1>2. 0 \in Byte
  BY DEF Byte
<1>3. ASSUME NEW i \in 1..32 PROVE g[i] \in Byte
  <2>1. buf[i] \in Byte
    BY <1>0
  <2>2. i <= Len(f) => f[i] \in Byte
    <3>1. i <= Len(f) => i \in 1..Len(f)
      OBVIOUS
    <3> QED BY <3>1
  <2> QED BY <1>2, <2>1, <2>2
<1>4. g \in Seq(Byte) /\ Len(g) = 32
  BY <1>3
<1> QED BY <1>1, <1>4 DEF Buffer

-----------------------------------------------------------------------------
(***************************************************************************)
(* What is made of a frame that was read to the start of the buffer, be    *)
(* the frame cut or padded.                                                *)
(***************************************************************************)
\* Only an ACK is taken for an ACK, and only an answer for an answer.
LEMMA ReadFrame ==
  ASSUME NEW buf, Buffer(buf), NEW n \in {6, 32}, NEW x, NEW f \in Frames,
         \A i \in 1..6 : buf[i] = f[i], NEW v, v = FrameParser(buf, n, x)
  PROVE  /\ v.res = PN532_TFI_ACK => f = PN532_ACK_FRAME
         /\ v.res = PN532_TFI_PN2HOST =>
              /\ \E c \in Cmds : f \in AnswersTo(c)
              /\ buf[4] \in 1..32 /\ v.packet = Packet(buf, buf[4], x)
<1>1. /\ Starts(f)
      /\ \/ f = PN532_ACK_FRAME /\ f[4] = 0 /\ f[5] = 255
         \/ f[4] = 255 /\ f[5] = 0
         \/ f[4] = 1 /\ f[6] = 127
         \/ \E c \in Cmds : f \in AnswersTo(c)
  BY FrameKinds
<1>2. /\ buf[1] = f[1] /\ buf[2] = f[2] /\ buf[3] = f[3]
      /\ buf[4] = f[4] /\ buf[5] = f[5] /\ buf[6] = f[6]
  OBVIOUS
<1>3. Starts(buf)
  BY <1>1, <1>2 DEF Starts
<1>4. v = ParseAt(buf, 0, x)
  BY <1>3, AtStart
<1>5. ASSUME NEW c \in Cmds, f \in AnswersTo(c)
      PROVE  f[6] = 213 /\ ~(f[4] = 0 /\ f[5] = 255) /\ ~(f[4] = 255 /\ f[5] = 0)
  <2>1. PICK d \in Seq(Byte) : IsAnswer(f, c, d)
    BY <1>5, AnswerFrame
  <2>2. PICK L \in 1..255 : f[4] = L /\ f[5] = Complement(L) /\ f[6] = 213
    <3>1. PICK k \in Nat : HeadOf(f, k)
      BY <2>1, AnswerHead, Zenon
    <3>2. /\ k \in 1..254
          /\ f[4] = k + 1 /\ f[5] = Complement(k + 1) /\ f[6] = 213
      BY <3>1, Zenon DEF HeadOf
    <3>3. k + 1 \in 1..255
      <4>1. \A m \in 1..254 : m + 1 \in 1..255
        OBVIOUS
      <4> QED BY <3>2, <4>1
    <3> QED BY <3>2, <3>3
  <2>3. Complement(L) = 256 - L
    BY ComplementByte
  <2> QED BY <2>2, <2>3
<1>6. \/ buf[4] = 0 /\ buf[5] = 255 /\ v = Verdict(PN532_TFI_ACK, << >>)
      \/ buf[4] = 255 /\ buf[5] = 0 /\ v = Verdict(PN532_TFI_NACK, << >>)
      \/ v = Verdict(PN532_NOT_SUPPORT, << >>)
      \/ v = Rejected
      \/ /\ ~(buf[4] = 255 /\ buf[5] = 0) /\ ~(buf[4] = 0 /\ buf[5] = 255)
         /\ buf[4] \in 1..32 /\ v = Verdict(buf[6], Packet(buf, buf[4], x))
  BY <1>4, ParsedHead
<1> DEFINE k == Packet(buf, buf[4], x)
<1> HIDE DEF k
<1>7. CASE /\ ~(buf[4] = 255 /\ buf[5] = 0) /\ ~(buf[4] = 0 /\ buf[5] = 255)
           /\ buf[4] \in 1..32 /\ v = Verdict(buf[6], k)
  <2>1. v.res = f[6] /\ v.packet = k
    BY <1>2, <1>7 DEF Verdict
  <2>2. CASE f[4] = 1 /\ f[6] = 127
    BY <2>1, <2>2, Codes
  <2>3. CASE \E c \in Cmds : f \in AnswersTo(c)
    BY <1>5, <1>7, <2>1, <2>3, Codes DEF k
  <2> QED BY <1>1, <1>2, <1>7, <2>2, <2>3
<1>8. CASE buf[4] = 0 /\ buf[5] = 255 /\ v = Verdict(PN532_TFI_ACK, << >>)
  <2>1. v.res = 0
    BY <1>8, Codes DEF Verdict
  <2>2. f = PN532_ACK_FRAME
    BY <1>1, <1>2, <1>5, <1>8
  <2> QED BY <2>1, <2>2, Codes
<1>9. CASE \/ v = Verdict(PN532_TFI_NACK, << >>) \/ v = Rejected
           \/ v = Verdict(PN532_NOT_SUPPORT, << >>)
  <2>1. v.res \in {255, 250, 253}
    BY <1>9, Codes DEF Verdict, Rejected
  <2> QED BY <2>1, Codes
<1> QED BY <1>6, <1>7, <1>8, <1>9 DEF k

-----------------------------------------------------------------------------
(***************************************************************************)
(* The chip has only frames to deliver, and while the driver waits for an  *)
(* ACK the command it sent lies at the start of sDataBuf.                  *)
(***************************************************************************)
CommandAtStart ==
  Starts(sDataBuf) /\ sDataBuf[4] \in {2, 4} /\ sDataBuf[6] = PN532_TFI_HOST2PN

DriverInv ==
  /\ pc \in {"init", "send", "ack", "rsp", "sleep"}
  /\ cmd \in Cmds /\ result \in [Cmds -> Byte]
  /\ Buffer(sDataBuf)
  /\ output \in Seq(Frames)
  /\ pc = "ack" => CommandAtStart
  /\ status \in Statuses
  /\ pc = "rsp" => status = << >>

\* The buffer after memset.
LEMMA ZerosBuffer == Buffer(Zeros(32)) /\ \A i \in 1..32 : Zeros(32)[i] = 0
<1>1. 0 \in Byte
  BY DEF Byte
<1> QED BY <1>1 DEF Zeros, Buffer

\* The buffer is static, so it starts as zeros.
LEMMA DriverInvInit == Init => DriverInv
<1> SUFFICES ASSUME Init PROVE DriverInv
  OBVIOUS
<1>1. Buffer(sDataBuf)
  BY ZerosBuffer DEF Init, PN532_DATABUF_MAX
<1>2. PN532_ERR \in Byte /\ cmd \in Cmds
  BY DEF PN532_ERR, Byte, Init, Cmds
<1> QED BY <1>1, <1>2 DEF Init, DriverInv

\* What an exchange returns is a uint8.
LEMMA ReturnCodes ==
  /\ PN532_GOOD = 0 /\ PN532_ERR = 255
  /\ {PN532_GOOD, PN532_ERR, PN532_BUS_BUSY, PN532_INVALID_ACK, PN532_INVALID_FRAME}
        \subseteq Byte
BY DEF PN532_GOOD, PN532_ERR, PN532_BUS_BUSY, PN532_INVALID_ACK, PN532_INVALID_FRAME, Byte

\* An exchange that ends leaves its result under its command.
LEMMA Returned ==
  ASSUME DriverInv, NEW r \in Byte, Return(r)
  PROVE  /\ pc' \in {"send", "sleep"} /\ cmd' \in Cmds /\ result' \in [Cmds -> Byte]
         /\ result'[cmd] = r
BY DEF Return, DriverInv, Cmds

\* What the bus brings is a frame, or one behind a byte.
LEMMA BroughtType ==
  ASSUME NEW f \in Frames, NEW s \in Statuses
  PROVE  /\ s \o f \in Seq(Byte)
         /\ s = << >> => s \o f = f
         /\ s # << >> => Len(s \o f) >= 3 /\ (s \o f)[3] = 0
<1>1. f \in Seq(Byte) /\ Len(f) \in Nat /\ Len(f) >= 6 /\ f[2] = 0
  BY FrameKinds DEF Starts
<1>2. CASE s = << >>
  BY <1>1, <1>2, ConcatEmptySeq
<1>3. CASE s # << >>
  <2>1. PICK b \in Byte : s = <<b>>
    <3>1. 1 \in Byte
      BY DEF Byte
    <3> QED BY <1>3, <3>1 DEF Statuses
  <2>2. PICK n \in Nat : n = Len(f)
    BY <1>1
  <2>3. PICK h \in Seq(Byte), k \in Nat : h = s /\ Len(h) = k /\ k = 1
    <3>1. <<b>> \in Seq(Byte) /\ Len(<<b>>) = 1 /\ 1 \in Nat
      OBVIOUS
    <3> QED BY <2>1, <3>1, Zenon
  <2>4. h \o f \in Seq(Byte) /\ Len(h \o f) = k + n
        /\ \A j \in 1..(k + n) : (h \o f)[j] = IF j <= k THEN h[j] ELSE f[j - k]
    <3>1. IsConcat(Byte, h, f, k, n, h \o f)
      BY <1>1, <2>2, <2>3, ConcatAt
    <3> QED BY <3>1 DEF IsConcat
  <2>5. 3 \in 1..(k + n) /\ ~(3 <= k) /\ 3 - k = 2 /\ k + n >= 3
    BY <1>1, <2>2, <2>3
  <2>6. (h \o f)[3] = 0
    <3>1. (h \o f)[3] = f[3 - k]
      BY <2>4, <2>5
    <3> QED BY <1>1, <2>5, <3>1
  <2> QED BY <1>3, <2>3, <2>4, <2>5, <2>6
<1> QED BY <1>2, <1>3

\* An exchange that ends with a failure makes no command succeed.
LEMMA FailedStays ==
  ASSUME DriverInv, NEW r, Return(r), r \in {PN532_BUS_BUSY, PN532_INVALID_ACK}
  PROVE  /\ pc' # "rsp"
         /\ \A c \in Cmds : result[c] # PN532_GOOD => result'[c] # PN532_GOOD
BY DEF Return, DriverInv, PN532_BUS_BUSY, PN532_INVALID_ACK, PN532_GOOD

\* What one read leaves in the buffer it is given.
LEMMA ReadOutcome ==
  ASSUME DriverInv, NEW buf, Buffer(buf), NEW n \in {6, 32}, NEW after, NEW got,
         Read(buf, n, after, got)
  PROVE  /\ Buffer(after) /\ output' \in Seq(Frames)
         /\ \/ got = n /\ fetched' \in Frames /\ after = Fill(buf, status \o fetched', n)
            \/ got = n /\ after = Fill(buf, << >>, n)
            \/ got \in {0, -1} /\ after = buf
<1>o. output \in Seq(Frames)
  BY DEF DriverInv
<1>n. n \in Nat /\ << >> \in Seq(Byte)
  OBVIOUS
<1>1. CASE output # << >> /\ after = Fill(buf, status \o Head(output), n) /\ got = n
           /\ fetched' = Head(output) /\ output' = Tail(output)
  <2>1. Head(output) \in Frames /\ Tail(output) \in Seq(Frames)
    BY <1>o, <1>1
  <2>2. status \o Head(output) \in Seq(Byte)
    BY <2>1, BroughtType DEF DriverInv
  <2>3. Buffer(after)
    BY <1>n, <1>1, <2>2, FillAt
  <2> QED BY <1>1, <2>1, <2>3
<1>2. CASE after = Fill(buf, << >>, n) /\ got = n /\ UNCHANGED output
  <2>1. Buffer(after)
    BY <1>n, <1>2, FillAt
  <2> QED BY <1>o, <1>2, <2>1
<1>3. CASE after = buf /\ got \in {0, -1} /\ UNCHANGED output
  BY <1>o, <1>3
<1> QED BY <1>1, <1>2, <1>3 DEF Read

\* An ACK is found only where the chip gave one: not in the command, which is still
\* in the buffer when the read fails and the parser is told of 255 bytes.
LEMMA AckStep ==
  ASSUME DriverInv, PN532_ReadAck
  PROVE  DriverInv' /\ (pc' = "rsp" => fetched' = PN532_ACK_FRAME)
<1>s. status \in Statuses /\ status' = status
  BY DEF PN532_ReadAck, DriverInv
<1>1. PICK after, got, x :
        /\ Read(sDataBuf, 6, after, got)
        /\ sDataBuf' = after
        /\ IF FrameParser(after, (got + 256) % 256, x).res = PN532_TFI_ACK
           THEN pc' = "rsp" /\ UNCHANGED <<cmd, result>>
           ELSE Return(PN532_INVALID_ACK)
  BY DEF PN532_ReadAck
<1>2. pc = "ack" /\ Buffer(sDataBuf) /\ CommandAtStart
  BY DEF PN532_ReadAck, DriverInv
<1>3. /\ Buffer(after) /\ output' \in Seq(Frames)
      /\ \/ got = 6 /\ fetched' \in Frames /\ after = Fill(sDataBuf, status \o fetched', 6)
         \/ got = 6 /\ after = Fill(sDataBuf, << >>, 6)
         \/ got \in {0, -1} /\ after = sDataBuf
  BY <1>1, <1>2, ReadOutcome
<1>4. pc' \in {"rsp", "send", "sleep"} /\ cmd' \in Cmds /\ result' \in [Cmds -> Byte]
  <2>1. CASE Return(PN532_INVALID_ACK)
    BY <2>1, ReturnCodes, Returned
  <2>2. CASE pc' = "rsp" /\ UNCHANGED <<cmd, result>>
    BY <2>2 DEF DriverInv
  <2> QED BY <1>1, <2>1, <2>2
<1> DEFINE v == FrameParser(after, (got + 256) % 256, x)
<1>6. ASSUME v.res = PN532_TFI_ACK
      PROVE  fetched' = PN532_ACK_FRAME /\ status = << >>
  <2>0. CASE got = 6 /\ fetched' \in Frames /\ after = Fill(sDataBuf, status \o fetched', 6)
             /\ status # << >>
    <3>1. PICK g \in Seq(Byte) : g = status \o fetched' /\ Len(g) >= 3 /\ g[3] = 0
      BY <1>s, <2>0, BroughtType
    <3>2. after[3] = 0
      <4>1. 3 \in 1..32 /\ ~(3 > 6) /\ 6 \in Nat
        OBVIOUS
      <4>2. 3 <= Len(g)
        BY <3>1
      <4> QED BY <1>2, <2>0, <3>1, <4>1, <4>2, FillAt
    <3>3. FrameParser(after, 6, x) = Rejected
      BY <1>3, <3>2, NoStart
    <3>4. (got + 256) % 256 = 6
      BY <2>0
    <3> QED BY <1>6, <3>3, <3>4, Codes DEF Rejected, Verdict
  <2>1. CASE got = 6 /\ fetched' \in Frames /\ after = Fill(sDataBuf, status \o fetched', 6)
             /\ status = << >>
    <3>0. after = Fill(sDataBuf, fetched', 6)
      BY <1>s, <2>1, BroughtType
    <3>1. fetched' \in Seq(Byte) /\ Len(fetched') \in Nat /\ Len(fetched') >= 6
      BY <2>1, FrameKinds
    <3>2. \A i \in 1..6 : i \in 1..32 /\ ~(i > 6) /\ i <= Len(fetched')
      BY <3>1
    <3>3. \A i \in 1..6 : after[i] = fetched'[i]
      <4>1. PICK f \in Seq(Byte) : f = fetched'
        BY <3>1
      <4>2. \A i \in 1..32 : Fill(sDataBuf, f, 6)[i] =
              IF i > 6 THEN sDataBuf[i] ELSE IF i <= Len(f) THEN f[i] ELSE 0
        BY <1>2, FillAt
      <4> QED BY <3>0, <3>2, <4>1, <4>2
    <3>4. (got + 256) % 256 = 6
      BY <2>1
    <3>5. v = FrameParser(after, 6, x)
      BY <3>4
    <3> HIDE DEF v
    <3> QED BY <1>3, <1>6, <2>1, <3>3, <3>5, ReadFrame
  <2>2. CASE got = 6 /\ after = Fill(sDataBuf, << >>, 6)
    <3>1. << >> \in Seq(Byte) /\ ~(3 > 6) /\ 3 \in 1..32 /\ ~(3 <= Len(<< >>))
      OBVIOUS
    <3>2. after[3] = 0
      BY <1>2, <2>2, <3>1, FillAt
    <3>3. FrameParser(after, 6, x) = Rejected
      BY <1>3, <3>2, NoStart
    <3>4. (got + 256) % 256 = 6
      BY <2>2
    <3> QED BY <1>6, <3>3, <3>4, Codes DEF Rejected, Verdict
  <2>3. CASE got = 0
    <3>1. (got + 256) % 256 = 0
      BY <2>3
    <3>2. FrameParser(after, 0, x) = Rejected
      BY <1>3, NoStart
    <3> QED BY <1>6, <3>1, <3>2, Codes DEF Rejected, Verdict
  <2>4. CASE got = -1 /\ after = sDataBuf
    <3>1. (got + 256) % 256 = 255
      BY <2>4
    <3>2. /\ Starts(after) /\ after[4] \in {2, 4} /\ after[6] = PN532_TFI_HOST2PN
      BY <1>2, <2>4 DEF CommandAtStart
    <3>3. v = ParseAt(after, 0, x)
      BY <1>3, <3>1, <3>2, AtStart
    <3> HIDE DEF v
    <3>4. \/ v = Verdict(PN532_NOT_SUPPORT, << >>) \/ v = Rejected
          \/ v = Verdict(after[6], Packet(after, after[4], x))
      BY <1>3, <3>2, <3>3, ParsedHead
    <3>5. v.res \in {253, 250, 212}
      BY <3>2, <3>4, Codes DEF Verdict, Rejected
    <3> QED BY <1>6, <3>5, Codes
  <2> QED BY <1>3, <2>0, <2>1, <2>2, <2>3, <2>4
<1>7. pc' = "rsp" => v.res = PN532_TFI_ACK
  <2>1. ~(v.res = PN532_TFI_ACK) => pc' \in {"send", "sleep"}
    BY <1>1, ReturnCodes, Returned
  <2> QED BY <2>1
<1>5. DriverInv'
  BY <1>1, <1>3, <1>4, <1>6, <1>7, <1>s DEF DriverInv
<1> QED BY <1>5, <1>6, <1>7

-----------------------------------------------------------------------------
(***************************************************************************)
(* The packet accepted is that of the frame fetched.                       *)
(***************************************************************************)
\* A command and the code of its answer are bytes.
LEMMA CmdCodes ==
  ASSUME NEW c \in Cmds
  PROVE  c \in Nat /\ c + 1 \in Byte
<1>1. c \in {2, 74}
  BY DEF Cmds, GetFirmwareVersion, InListPassiveTarget
<1>2. \A k \in {2, 74} : k \in Nat /\ k + 1 \in 0..255
  OBVIOUS
<1> QED BY <1>1, <1>2, Zenon DEF Byte

\* The packet of an answer: the answer's code, then the data.
LEMMA AnswerPacket ==
  ASSUME NEW c \in Cmds, NEW d \in Seq(Byte), NEW q, q = <<c + 1>> \o d
  PROVE  q \in Seq(Byte) /\ Len(q) = Len(d) + 1 /\ q[1] = c + 1 /\ Tail(q) = d
<1>1. c + 1 \in Byte
  BY CmdCodes
<1>2. PICK b \in Byte, m \in Nat : b = c + 1 /\ m = Len(d)
  BY <1>1
<1>3. <<b>> \in Seq(Byte) /\ Len(<<b>>) = 1 /\ <<b>>[1] = b /\ 1 \in Nat
  OBVIOUS
<1>4. IsConcat(Byte, <<b>>, d, 1, m, <<b>> \o d)
  BY <1>2, <1>3, ConcatAt
<1>5. IsConcat(Byte, <<b>>, d, 1, m, q)
  BY <1>2, <1>4
<1>6. /\ q \in Seq(Byte) /\ Len(q) = 1 + m /\ 1 + m = m + 1 /\ (1 + m) - 1 = m
      /\ \A i \in 1..1 : q[i] = <<b>>[i]
      /\ \A i \in 1..m : q[1 + i] = d[i]
  BY <1>5 DEF IsConcat
<1>7. q[1] = b
  BY <1>3, <1>6
<1>8. q # << >>
  BY <1>6
<1>9. /\ Tail(q) \in Seq(Byte) /\ Len(Tail(q)) = m
      /\ \A i \in 1..m : Tail(q)[i] = q[i + 1]
  BY <1>6, <1>8, HeadTailProperties
<1>10. \A i \in 1..m : Tail(q)[i] = d[i]
  <2>1. \A i \in 1..m : i + 1 = 1 + i
    OBVIOUS
  <2> QED BY <1>6, <1>9, <2>1
<1>11. Tail(q) = d
  <2>1. PICK t \in Seq(Byte) : t = Tail(q)
    BY <1>9
  <2>2. Len(t) = m /\ Len(d) = m /\ \A i \in 1..m : t[i] = d[i]
    BY <1>2, <1>9, <1>10, <2>1
  <2> QED BY <2>1, <2>2, SeqEqual
<1> QED BY <1>2, <1>6, <1>7, <1>11

Accepted(c0, p, buf, f, x) ==
  /\ \A i \in 1..32 : i <= Len(f) => buf[i] = f[i]
  /\ buf[4] \in 1..32 /\ p = Packet(buf, buf[4], x)
  /\ p # << >> /\ p[1] = c0 + 1
  /\ c0 = GetFirmwareVersion => Len(p) = 5

\* An answer that carries c0 + 1 is to the command c0; a packet of five bytes fits the
\* buffer, so the data stored are the answer's.
LEMMA AcceptedPacket ==
  ASSUME NEW buf, Buffer(buf), NEW c \in Cmds, NEW f \in AnswersTo(c), NEW x,
         NEW c0 \in Cmds, NEW p, Accepted(c0, p, buf, f, x)
  PROVE  /\ c = c0
         /\ c0 = GetFirmwareVersion => f = Answer(c0, Tail(p)) /\ Tail(p) \in Versions
<1>1. PICK d \in Seq(Byte) : IsAnswer(f, c, d)
  BY AnswerFrame
<1>0. /\ \A i \in 1..32 : i <= Len(f) => buf[i] = f[i]
      /\ buf[4] \in 1..32 /\ p = Packet(buf, buf[4], x)
      /\ p # << >> /\ p[1] = c0 + 1
      /\ c0 = GetFirmwareVersion => Len(p) = 5
  BY DEF Accepted
<1> USE <1>0
<1> DEFINE q == <<c + 1>> \o d
<1>2. c \in Nat /\ c0 \in Nat
  BY CmdCodes
<1>3. q \in Seq(Byte) /\ Len(q) = Len(d) + 1 /\ q[1] = c + 1 /\ Tail(q) = d
  BY AnswerPacket
<1> HIDE DEF q
<1>4. PICK L \in 1..254 : L = Len(d) + 1 /\ Len(f) = L + 8 /\ f[4] = L + 1
  <2>1. PICK L \in Nat : L = Len(d) + 1 /\ HeadOf(f, L)
    BY <1>1, AnswerHead, Zenon
  <2>2. L \in 1..254 /\ Len(f) = L + 8 /\ f[4] = L + 1
    BY <2>1, Zenon DEF HeadOf
  <2> QED BY <2>1, <2>2
<1>5. /\ Len(f) = L + 8 /\ f[4] = L + 1
      /\ \A i \in 1..L : f[6 + i] = q[i]
  <2>1. IsFrame(f, PN532_TFI_PN2HOST, q, Len(d) + 1)
    BY <1>1, Zenon DEF IsAnswer, q
  <2>2. \A i \in 1..L : f[6 + i] = q[i]
    BY <1>4, <2>1, Zenon DEF IsFrame
  <2> QED BY <1>4, <2>2
<1>6. L \in 1..31 /\ buf[4] = L + 1
  <2>1. 4 \in 1..32 /\ 4 <= Len(f)
    BY <1>5
  <2>2. buf[4] = f[4]
    BY <2>1
  <2>3. L + 1 \in 1..32
    BY <1>4, <2>2
  <2>4. \A k \in 1..254 : k + 1 \in 1..32 => k \in 1..31
    OBVIOUS
  <2> QED BY <1>4, <2>2, <2>3, <2>4
<1>7. p = [i \in 1..L |-> ByteAt(buf, 5 + i, x)]
  <2>1. (L + 1) - 1 = L
    OBVIOUS
  <2> QED BY <1>6, <2>1 DEF Packet
<1>8. ASSUME NEW i \in 1..L, i <= 26 PROVE p[i] = q[i]
  <2>1. 5 + i \in 0..31 /\ (5 + i) + 1 = 6 + i /\ 6 + i \in 1..32 /\ 6 + i <= Len(f)
    BY <1>5, <1>6, <1>8
  <2>2. ByteAt(buf, 5 + i, x) = buf[(5 + i) + 1]
    BY <2>1, ByteIs
  <2>3. p[i] = ByteAt(buf, 5 + i, x)
    BY <1>7, <1>8
  <2>4. p[i] = buf[6 + i]
    BY <2>1, <2>2, <2>3
  <2> QED BY <1>5, <2>1, <2>4
<1>9. c = c0
  <2>1. p[1] = q[1]
    BY <1>6, <1>8
  <2> QED BY <1>2, <1>3, <2>1
<1>10. ASSUME c0 = GetFirmwareVersion
       PROVE  f = Answer(c0, Tail(p)) /\ Tail(p) \in Versions
  <2>1. Len(p) = L
    BY <1>6, <1>7
  <2>2. L = 5
    BY <1>10, <2>1
  <2>3. p = [i \in 1..L |-> q[i]]
    BY <1>7, <1>8, <2>2
  <2>4. q = [i \in 1..Len(q) |-> q[i]]
    BY <1>3, LenProperties
  <2>5. p = q
    BY <1>3, <1>4, <2>3, <2>4
  <2> QED BY <1>1, <1>3, <1>9, <1>10, <2>5 DEF IsAnswer
<1> QED BY <1>9, <1>10

\* PN532_ReadRsp succeeds only with an answer to its command, and stores what it says.
LEMMA RspStep ==
  ASSUME DriverInv, PN532_ReadRsp
  PROVE  /\ DriverInv' /\ pc' # "rsp"
         /\ result'[cmd] = PN532_GOOD
              => /\ fetched' \in AnswersTo(cmd)
                 /\ cmd = GetFirmwareVersion
                      => fetched' = Answer(cmd, pVer') /\ pVer' \in Versions
         /\ result'[cmd] # PN532_GOOD \/ cmd # GetFirmwareVersion => pVer' = pVer
<1>0. \E after, got, x, w :
        /\ Read(Zeros(PN532_DATABUF_MAX), PN532_DATABUF_MAX, after, got)
        /\ sDataBuf' = after
        /\ w = FrameParser(after, (got + 256) % 256, x)
        /\ IF got <= 0 THEN Return(PN532_ERR) /\ UNCHANGED pVer
           ELSE IF Accepts(cmd, w)
           THEN /\ Return(PN532_GOOD)
                /\ pVer' = IF cmd = GetFirmwareVersion THEN Tail(w.packet) ELSE pVer
           ELSE Return(PN532_INVALID_FRAME) /\ UNCHANGED pVer
  BY Zenon DEF PN532_ReadRsp
<1>1. PICK after, got, x, w :
        /\ Read(Zeros(32), 32, after, got)
        /\ sDataBuf' = after
        /\ w = FrameParser(after, (got + 256) % 256, x)
        /\ IF got <= 0 THEN Return(PN532_ERR) /\ UNCHANGED pVer
           ELSE IF Accepts(cmd, w)
           THEN /\ Return(PN532_GOOD)
                /\ pVer' = IF cmd = GetFirmwareVersion THEN Tail(w.packet) ELSE pVer
           ELSE Return(PN532_INVALID_FRAME) /\ UNCHANGED pVer
  BY <1>0, Zenon DEF PN532_DATABUF_MAX
<1>2. /\ Buffer(after) /\ output' \in Seq(Frames)
      /\ \/ got = 32 /\ fetched' \in Frames /\ after = Fill(Zeros(32), fetched', 32)
         \/ got = 32 /\ after = Fill(Zeros(32), << >>, 32)
         \/ got \in {0, -1} /\ after = Zeros(32)
  <2>1. /\ Buffer(after) /\ output' \in Seq(Frames)
        /\ \/ got = 32 /\ fetched' \in Frames
              /\ after = Fill(Zeros(32), status \o fetched', 32)
           \/ got = 32 /\ after = Fill(Zeros(32), << >>, 32)
           \/ got \in {0, -1} /\ after = Zeros(32)
    BY <1>1, ZerosBuffer, ReadOutcome
  <2>2. fetched' \in Frames => status \o fetched' = fetched'
    BY BroughtType DEF PN532_ReadRsp, DriverInv
  <2> QED BY <2>1, <2>2
<1>3. /\ pc' \in {"send", "sleep"} /\ cmd' \in Cmds /\ result' \in [Cmds -> Byte]
      /\ result'[cmd] = PN532_GOOD => got > 0 /\ Accepts(cmd, w)
            /\ (cmd = GetFirmwareVersion => pVer' = Tail(w.packet))
      /\ result'[cmd] # PN532_GOOD \/ cmd # GetFirmwareVersion => pVer' = pVer
  <2>1. CASE got <= 0 /\ Return(PN532_ERR) /\ UNCHANGED pVer
    BY <2>1, ReturnCodes, Returned
  <2>2. CASE Return(PN532_INVALID_FRAME) /\ UNCHANGED pVer
    BY <2>2, ReturnCodes, Returned, Codes
  <2>3. CASE ~(got <= 0) /\ Accepts(cmd, w) /\ Return(PN532_GOOD)
             /\ pVer' = IF cmd = GetFirmwareVersion THEN Tail(w.packet) ELSE pVer
    <3>1. got \in Int
      BY <1>2
    <3> QED BY <2>3, <3>1, ReturnCodes, Returned
  <2> QED BY <1>1, <2>1, <2>2, <2>3
<1>4. DriverInv'
  BY <1>1, <1>2, <1>3 DEF DriverInv, PN532_ReadRsp
<1>5. ASSUME result'[cmd] = PN532_GOOD
      PROVE  /\ fetched' \in AnswersTo(cmd)
             /\ cmd = GetFirmwareVersion
                  => fetched' = Answer(cmd, pVer') /\ pVer' \in Versions
  <2>1. got = 32 /\ (got + 256) % 256 = 32
    <3>1. got = 32
      BY <1>2, <1>3, <1>5
    <3> QED BY <3>1
  <2>2. /\ Accepts(cmd, w) /\ w = FrameParser(after, 32, x) /\ cmd \in Cmds
        /\ cmd = GetFirmwareVersion => pVer' = Tail(w.packet)
    BY <1>1, <1>3, <1>5, <2>1 DEF DriverInv
  <2>3. /\ w.res = PN532_TFI_PN2HOST /\ w.packet # << >> /\ w.packet[1] = cmd + 1
        /\ cmd = GetFirmwareVersion => Len(w.packet) = 5
    BY <2>2 DEF Accepts
  <2>4. CASE after = Fill(Zeros(32), << >>, 32)
    <3>0. PICK b : b = Zeros(32)
      OBVIOUS
    <3>6. << >> \in Seq(Byte) /\ Len(<< >>) = 0
      BY EmptySeq
    <3>1. PICK f \in Seq(Byte) : b = Zeros(32) /\ f = << >> /\ Len(f) = 0
      BY <3>0, <3>6, Zenon
    <3>5. PICK n \in Nat : n = 32
      OBVIOUS
    <3>2. \A i \in 1..32 : ~(i > 32) /\ ~(i <= 0)
      OBVIOUS
    <3>3. \A i \in 1..32 : after[i] = 0
      <4>1. Buffer(b)
        BY <3>1, ZerosBuffer
      <4>2. \A i \in 1..32 : Fill(b, f, n)[i] =
              IF i > n THEN b[i] ELSE IF i <= Len(f) THEN f[i] ELSE 0
        BY <4>1, FillAt
      <4> QED BY <2>4, <3>1, <3>2, <3>5, <4>2
    <3>4. w = Rejected
      BY <1>2, <2>2, <3>3, NoStart
    <3> QED BY <2>3, <3>4, Codes DEF Rejected, Verdict
  <2>5. CASE fetched' \in Frames /\ after = Fill(Zeros(32), fetched', 32)
    <3>1. PICK f \in Frames : f = fetched'
      BY <2>5
    <3>2. f \in Seq(Byte) /\ Len(f) \in Nat /\ Len(f) >= 6
      BY FrameKinds
    <3>3. \A i \in 1..32 : i <= Len(f) => after[i] = f[i]
      <4>0. PICK b : b = Zeros(32) /\ Buffer(b)
        BY ZerosBuffer
      <4>3. PICK n \in Nat : n = 32
        OBVIOUS
      <4>1. \A i \in 1..32 : Fill(b, f, n)[i] =
              IF i > n THEN b[i] ELSE IF i <= Len(f) THEN f[i] ELSE 0
        BY <3>2, <4>0, FillAt
      <4>2. \A i \in 1..32 : ~(i > 32)
        OBVIOUS
      <4> QED BY <2>5, <3>1, <4>0, <4>1, <4>2, <4>3
    <3>4. \A i \in 1..6 : after[i] = f[i]
      <4>1. \A i \in 1..6 : i \in 1..32 /\ i <= Len(f)
        BY <3>2
      <4> QED BY <3>3, <4>1
    <3>5. /\ \E c \in Cmds : f \in AnswersTo(c)
          /\ after[4] \in 1..32 /\ w.packet = Packet(after, after[4], x)
      BY <1>2, <2>2, <2>3, <3>4, ReadFrame
    <3>6. PICK c \in Cmds : f \in AnswersTo(c)
      BY <3>5
    <3>7. /\ c = cmd
          /\ cmd = GetFirmwareVersion
               => f = Answer(cmd, Tail(w.packet)) /\ Tail(w.packet) \in Versions
      <4>0. PICK p : p = w.packet
        OBVIOUS
      <4>1. PICK c0 \in Cmds : p = w.packet /\ c0 = cmd
        BY <2>2, <4>0
      <4>2. /\ p = Packet(after, after[4], x) /\ p # << >> /\ p[1] = c0 + 1
            /\ c0 = GetFirmwareVersion => Len(p) = 5
        BY <2>3, <3>5, <4>1
      <4>3. /\ c = c0
            /\ c0 = GetFirmwareVersion
                 => f = Answer(c0, Tail(p)) /\ Tail(p) \in Versions
        <5>1. Buffer(after) /\ after[4] \in 1..32 /\ f \in AnswersTo(c)
          BY <1>2, <3>5, <3>6
        <5>2. Accepted(c0, p, after, f, x)
          BY <3>3, <4>2, <5>1 DEF Accepted
        <5> QED BY <5>1, <5>2, AcceptedPacket
      <4> QED BY <4>1, <4>3
    <3> QED BY <2>2, <3>1, <3>6, <3>7
  <2> QED BY <1>2, <2>1, <2>4, <2>5
<1> QED BY <1>3, <1>4, <1>5

-----------------------------------------------------------------------------
\* A command is written to the start of sDataBuf, a frame as an answer is one.
LEMMA CommandWritten ==
  ASSUME NEW buf, Buffer(buf), NEW c \in Cmds, NEW f, f = CommandFrame(c, CmdData(c)),
         NEW after, after = Fill(buf, f, Len(f))
  PROVE  /\ Buffer(after) /\ Starts(after)
         /\ after[4] \in {2, 4} /\ after[6] = PN532_TFI_HOST2PN
<1>1. PICK p \in Seq(Byte), L \in {1, 3} :
        f = InfoFrame(PN532_TFI_HOST2PN, p) /\ Len(p) = L
  <2>1. c \in Byte /\ 0 \in Byte /\ 1 \in Byte
    <3>1. \A k \in {2, 74} : k \in 0..255
      OBVIOUS
    <3>2. c \in {2, 74}
      BY DEF Cmds, GetFirmwareVersion, InListPassiveTarget
    <3> QED BY <3>1, <3>2 DEF Byte
  <2>2. CmdData(c) \in {<< >>, <<1, 0>>}
    BY DEF CmdData
  <2>3. << >> \in Seq(Byte) /\ Len(<< >>) = 0
    BY EmptySeq
  <2>4. <<1, 0>> \in Seq(Byte) /\ Len(<<1, 0>>) = 2
    BY <2>1
  <2>5. PICK d \in Seq(Byte) : d = CmdData(c) /\ Len(d) \in {0, 2}
    BY <2>2, <2>3, <2>4
  <2>6. PICK m \in Nat : m = Len(d)
    OBVIOUS
  <2>7. PICK h \in Seq(Byte), k \in Nat : h = <<c>> /\ Len(h) = k /\ k = 1
    <3>1. <<c>> \in Seq(Byte) /\ Len(<<c>>) = 1 /\ 1 \in Nat
      BY <2>1
    <3> QED BY <3>1, Zenon
  <2>8. IsConcat(Byte, h, d, k, m, h \o d)
    BY <2>6, <2>7, ConcatAt
  <2>9. h \o d \in Seq(Byte) /\ Len(h \o d) = k + m
    BY <2>8 DEF IsConcat
  <2>10. k + m \in {1, 3}
    <3>1. \A j \in {0, 2} : 1 + j \in {1, 3}
      OBVIOUS
    <3> QED BY <2>5, <2>6, <2>7, <3>1, Zenon
  <2>11. f = InfoFrame(PN532_TFI_HOST2PN, h \o d)
    BY <2>5, <2>7, Zenon DEF CommandFrame
  <2> QED BY <2>9, <2>10, <2>11, Zenon
<1>2. L \in 0..254
  OBVIOUS
<1>3. IsFrame(f, PN532_TFI_HOST2PN, p, L)
  <2>1. IsFrame(InfoFrame(PN532_TFI_HOST2PN, p), PN532_TFI_HOST2PN, p, L)
    BY <1>1, <1>2, Codes, FrameBytes, Zenon
  <2> QED BY <1>1, <2>1, Zenon
<1>4. /\ f \in Seq(Byte) /\ Len(f) = L + 8 /\ f[1] = 0 /\ f[2] = 0 /\ f[3] = 255
      /\ f[4] = L + 1 /\ f[6] = PN532_TFI_HOST2PN
  BY <1>3 DEF IsFrame
<1>5. PICK n \in Nat : n = Len(f) /\ n >= 6
  BY <1>4
<1>6. /\ Buffer(after)
      /\ \A i \in 1..32 : after[i] =
           IF i > n THEN buf[i] ELSE IF i <= Len(f) THEN f[i] ELSE 0
  <2>1. after = Fill(buf, f, n)
    BY <1>5
  <2>2. f \in Seq(Byte) /\ n \in Nat
    BY <1>4
  <2>3. /\ Buffer(Fill(buf, f, n))
        /\ \A i \in 1..32 : Fill(buf, f, n)[i] =
             IF i > n THEN buf[i] ELSE IF i <= Len(f) THEN f[i] ELSE 0
    BY <2>2, FillAt
  <2> QED BY <2>1, <2>3
<1>7. \A i \in 1..6 : after[i] = f[i]
  <2>1. \A i \in 1..6 : i \in 1..32 /\ ~(i > n) /\ i <= n
    BY <1>5
  <2> QED BY <1>5, <1>6, <2>1
<1>8. /\ after[1] = f[1] /\ after[2] = f[2] /\ after[3] = f[3]
      /\ after[4] = f[4] /\ after[6] = f[6]
  BY <1>7
<1>9. L + 1 \in {2, 4}
  OBVIOUS
<1> QED BY <1>4, <1>6, <1>8, <1>9 DEF Starts

\* PN532_SendCmd leaves whole frames in the chip and its command in sDataBuf.
LEMMA SendStep ==
  ASSUME DriverInv, PN532_SendCmd
  PROVE  DriverInv'
<1>1. PICK f : /\ f = CommandFrame(cmd, CmdData(cmd))
               /\ sDataBuf' = Fill(sDataBuf, f, Len(f))
  BY DEF PN532_SendCmd
<1>2. /\ cmd \in Cmds /\ Buffer(sDataBuf)
      /\ result \in [Cmds -> Byte] /\ output \in Seq(Frames)
  BY DEF DriverInv
<1>3. Buffer(sDataBuf') /\ CommandAtStart'
  <2>1. /\ Buffer(sDataBuf') /\ Starts(sDataBuf')
        /\ sDataBuf'[4] \in {2, 4} /\ sDataBuf'[6] = PN532_TFI_HOST2PN
    BY <1>1, <1>2, CommandWritten
  <2> QED BY <2>1 DEF CommandAtStart
<1>4. /\ PN532_ACK_FRAME \in Frames /\ NackFrame \in Frames /\ ErrorFrame \in Frames
      /\ \A a \in AnswersTo(cmd) : a \in Frames
  BY <1>2 DEF Frames
<1>7. status' \in Statuses
  BY DEF PN532_SendCmd, DriverInv
<1>5. CASE /\ \/ output' \in {<<PN532_ACK_FRAME, a>> : a \in AnswersTo(cmd)}
              \/ output' \in {<<NackFrame>>, <<PN532_ACK_FRAME, ErrorFrame>>}
              \/ \E a \in AnswersTo(cmd) : output' = output \o <<PN532_ACK_FRAME, a>>
           /\ pc' = "ack" /\ UNCHANGED <<cmd, result>>
  <2>1. output' \in Seq(Frames)
    <3>1. \A a, b \in Frames : <<a>> \in Seq(Frames) /\ <<a, b>> \in Seq(Frames)
      OBVIOUS
    <3>2. \A s \in Seq(Frames) : output \o s \in Seq(Frames)
      BY <1>2
    <3> QED BY <1>4, <1>5, <3>1, <3>2
  <2> QED BY <1>2, <1>3, <1>5, <1>7, <2>1 DEF DriverInv
<1>6. CASE Return(PN532_BUS_BUSY) /\ UNCHANGED output
  <2>1. pc' \in {"send", "sleep"} /\ cmd' \in Cmds /\ result' \in [Cmds -> Byte]
    BY <1>6, ReturnCodes, Returned
  <2> QED BY <1>2, <1>3, <1>6, <1>7, <2>1 DEF DriverInv
<1> QED BY <1>5, <1>6 DEF PN532_SendCmd

\* Every step keeps the invariant and takes no answer but its own.
LEMMA DriverInvNext ==
  ASSUME DriverInv, [Next]_vars
  PROVE  DriverInv' /\ AnswerIsOwn
<1>1. CASE PN532_Init
  BY <1>1 DEF PN532_Init, DriverInv, AnswerIsOwn, CommandAtStart
<1>2. CASE PN532_SendCmd
  <2>1. pc = "send"
    BY <1>2 DEF PN532_SendCmd
  <2> QED BY <1>2, <2>1, SendStep DEF AnswerIsOwn
<1>3. CASE PN532_ReadAck
  <2>1. pc = "ack"
    BY <1>3 DEF PN532_ReadAck
  <2> QED BY <1>3, <2>1, AckStep DEF AnswerIsOwn
<1>4. CASE PN532_ReadRsp
  <2>1. pc = "rsp"
    BY <1>4 DEF PN532_ReadRsp
  <2> QED BY <1>4, <2>1, RspStep DEF AnswerIsOwn
<1>5. CASE Sleep
  BY <1>5 DEF Sleep, DriverInv, AnswerIsOwn, CommandAtStart
<1>6. CASE UNCHANGED vars
  BY <1>6 DEF vars, DriverInv, AnswerIsOwn, CommandAtStart
<1> QED BY <1>1, <1>2, <1>3, <1>4, <1>5, <1>6 DEF Next

\* What a reader of sDataBuf can count on: the chip only ever has whole frames to
\* deliver, and a driver waiting for an ACK has its own command in the buffer.
THEOREM DriverInvHolds == Spec => []DriverInv
<1>1. DriverInv /\ [Next]_vars => DriverInv'
  BY DriverInvNext
<1> QED BY <1>1, DriverInvInit, PTL DEF Spec

\* An exchange goes on only after an ACK the chip gave, and succeeds only with an
\* answer to a command of its own kind (an old one, if the chip kept it), and for GetFirmwareVersion what is stored
\* is what that answer says: whatever was left in sDataBuf (PN532_ReadAck passes a
\* failed read's -1 on as a length) or in the chip by exchanges given up.
THEOREM OwnAnswerHolds == Spec => OwnAnswer
<1>1. DriverInv /\ [Next]_vars => DriverInv' /\ AnswerIsOwn
  BY DriverInvNext
<1>2. DriverInv /\ [Next]_vars => [AnswerIsOwn]_vars
  BY <1>1
<1> QED BY <1>2, DriverInvHolds, PTL DEF Spec, OwnAnswer

\* The variables OwnAnswer says nothing of.
Stored == pVer \in Versions \cup {<< >>} /\ i2c \in BOOLEAN /\ UnheardBehindStatus

\* Every step keeps them: a version is stored only if it is one a chip may have, and
\* nothing succeeds but PN532_ReadRsp.
LEMMA StoredNext ==
  ASSUME DriverInv, Stored, [Next]_vars
  PROVE  Stored'
<1>1. CASE PN532_Init
  BY <1>1 DEF PN532_Init, Stored, UnheardBehindStatus
<1>2. CASE PN532_SendCmd
  <2>1. UNCHANGED <<pVer, i2c, status>>
    BY <1>2, Zenon DEF PN532_SendCmd
  <2>2. (pc' = "ack" /\ UNCHANGED <<cmd, result>>) \/ Return(PN532_BUS_BUSY)
    BY <1>2, Zenon DEF PN532_SendCmd
  <2> QED BY <2>1, <2>2, FailedStays DEF Stored, UnheardBehindStatus
<1>3. CASE PN532_ReadAck
  <2>1. UNCHANGED <<pVer, i2c, status>>
    BY <1>3, Zenon DEF PN532_ReadAck
  <2>2. (pc' = "rsp" /\ UNCHANGED <<cmd, result>>) \/ Return(PN532_INVALID_ACK)
    <3>1. PICK after, got, x :
            IF FrameParser(after, (got + 256) % 256, x).res = PN532_TFI_ACK
            THEN pc' = "rsp" /\ UNCHANGED <<cmd, result>>
            ELSE Return(PN532_INVALID_ACK)
      BY <1>3 DEF PN532_ReadAck
    <3> QED BY <3>1
  <2>3. pc' = "rsp" => status' = << >>
    BY <1>3, AckStep DEF DriverInv
  <2> QED BY <2>1, <2>2, <2>3, FailedStays DEF Stored, UnheardBehindStatus
<1>4. CASE PN532_ReadRsp
  <2>1. UNCHANGED <<i2c, status>> /\ status = << >>
    BY <1>4, Zenon DEF PN532_ReadRsp, DriverInv
  <2>2. pVer' \in Versions \cup {<< >>}
    BY <1>4, RspStep DEF Stored
  <2> QED BY <2>1, <2>2 DEF Stored, UnheardBehindStatus
<1>5. CASE Sleep
  BY <1>5 DEF Sleep, Stored, UnheardBehindStatus
<1>6. CASE UNCHANGED vars
  BY <1>6 DEF vars, Stored, UnheardBehindStatus
<1> QED BY <1>1, <1>2, <1>3, <1>4, <1>5, <1>6 DEF Next

\* The variables hold what they should in every state.
LEMMA StoredHolds == Spec => []Stored
<1>1. Init => Stored
  <2> SUFFICES ASSUME Init PROVE Stored
    OBVIOUS
  <2>1. \A c \in Cmds : result[c] = 255
    BY ReturnCodes DEF Init
  <2>2. UnheardBehindStatus
    BY <2>1, ReturnCodes DEF Init, UnheardBehindStatus
  <2> QED BY <2>2 DEF Init, Stored
<1>2. DriverInv /\ Stored /\ [Next]_vars => Stored'
  BY StoredNext
<1> QED BY <1>1, <1>2, DriverInvHolds, PTL DEF Spec

\* A chip that puts a status byte in front of its frames, as the PN532 does over I2C,
\* is never understood: no exchange gets past its ACK, whatever the chip answers.
THEOREM UnheardHolds == Spec => []UnheardBehindStatus
<1>1. Stored => UnheardBehindStatus
  BY DEF Stored
<1> QED BY <1>1, StoredHolds, PTL

\* Every variable keeps its type: sDataBuf stays 32 bytes, a result one byte (the
\* functions keep it in an int8 and return it as a uint8), and what is stored as
\* the version is one that a chip gave as its version, never part of another
\* frame.
THEOREM DriverTypes == Spec => []TypeOK
<1>3. DriverInv /\ Stored => TypeOK
  <2>1. ASSUME Buffer(sDataBuf) PROVE sDataBuf \in [1..PN532_DATABUF_MAX -> Byte]
    <3>1. sDataBuf \in [1..32 -> Byte]
      BY <2>1, LenProperties DEF Buffer
    <3> QED BY <3>1 DEF PN532_DATABUF_MAX
  <2> QED BY <2>1 DEF DriverInv, Stored, TypeOK
<1> QED BY <1>3, DriverInvHolds, StoredHolds, PTL
=============================================================================
