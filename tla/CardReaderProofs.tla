-------------------------- MODULE CardReaderProofs --------------------------
(***************************************************************************)
(* The UART card reader, for every card, every line that keeps at least    *)
(* what main reads at once, and every way an answer comes in pieces: what  *)
(* it shows while it is in step.                                           *)
(***************************************************************************)
EXTENDS CardReader, PN532FrameProofs

Commands == {"wakeup", "readver", "samconf", "atctive", "inautopoll", "readuid"}

\* The exchanges of main: readuid is the last one, in the loop and before it, and
\* asks for 25 bytes.
LEMMA ScriptIs ==
  /\ Len(Script) = 8 /\ Script[Again].cmd # "readuid"
  /\ \A i \in 1..8 : /\ Script[i].cmd \in Commands /\ Script[i].read \in Nat
                     /\ i = 8 => Script[i].cmd = "readuid"
                     /\ Script[i].cmd = "readuid" => Script[i].read = 25
<1>1. \A c, n : Exchange(c, n).cmd = c /\ Exchange(c, n).read = n
  BY DEF Exchange
<1>2. PICK a \in Nat, b \in Nat, c \in Nat, d \in Nat : a = 15 /\ b = 19 /\ c = 64 /\ d = 25
  OBVIOUS
<1>3. PICK s : s = << Exchange("wakeup", a), Exchange("readver", b), Exchange("samconf", a),
                      Exchange("atctive", a), Exchange("inautopoll", c),
                      Exchange("readuid", d),
                      Exchange("wakeup", a), Exchange("readuid", d) >>
  OBVIOUS
<1>4. s = Script
  BY <1>2, <1>3 DEF Script
<1>5. /\ Len(s) = 8
      /\ s[1] = Exchange("wakeup", a) /\ s[2] = Exchange("readver", b)
      /\ s[3] = Exchange("samconf", a) /\ s[4] = Exchange("atctive", a)
      /\ s[5] = Exchange("inautopoll", c) /\ s[6] = Exchange("readuid", d)
      /\ s[7] = Exchange("wakeup", a) /\ s[8] = Exchange("readuid", d)
  BY <1>3
<1>6. s[Again].cmd # "readuid"
  BY <1>1, <1>5 DEF Again
<1>7. ASSUME NEW i \in 1..8
      PROVE  /\ s[i].cmd \in Commands /\ s[i].read \in Nat
             /\ i = 8 => s[i].cmd = "readuid"
             /\ s[i].cmd = "readuid" => s[i].read = 25
  <2>1. i = 1 \/ i = 2 \/ i = 3 \/ i = 4 \/ i = 5 \/ i = 6 \/ i = 7 \/ i = 8
    OBVIOUS
  <2> QED BY <1>1, <1>2, <1>5, <2>1 DEF Commands
<1> QED BY <1>4, <1>5, <1>6, <1>7

\* An acknowledgement, byte by byte.
LEMMA AckIs ==
  /\ PN532_ACK_FRAME \in Seq(Byte) /\ Len(PN532_ACK_FRAME) = 6
  /\ \A k \in 1..6 : PN532_ACK_FRAME[k] = IF k \in {3, 5} THEN 255 ELSE 0
<1>1. PICK z \in Byte, f \in Byte : z = 0 /\ f = 255
  BY DEF Byte
<1>2. PICK s : s = <<z, z, f>>
  OBVIOUS
<1>3. s \in Seq(Byte) /\ Len(s) = 3 /\ s[1] = z /\ s[2] = z /\ s[3] = f
  BY <1>1, <1>2
<1>4. PICK t : t = <<z, f, z>>
  OBVIOUS
<1>5. t \in Seq(Byte) /\ Len(t) = 3 /\ t[1] = z /\ t[2] = f /\ t[3] = z
  BY <1>1, <1>4
<1>6. PICK n \in Nat : n = 3
  OBVIOUS
<1>7. PICK w : w = s \o t
  OBVIOUS
<1>8. IsConcat(Byte, s, t, n, n, w)
  BY <1>3, <1>5, <1>6, <1>7, ConcatAt
<1>9. w = PN532_ACK_FRAME
  BY <1>1, <1>2, <1>4, <1>7 DEF PN532_ACK_FRAME, StartCode
<1>10. w \in Seq(Byte) /\ Len(w) = 6
  BY <1>6, <1>8 DEF IsConcat
<1>11. /\ w[1] = z /\ w[2] = z /\ w[3] = f /\ w[4] = z /\ w[5] = f /\ w[6] = z
  <2>1. \A i \in 1..3 : w[i] = s[i] /\ w[3 + i] = t[i]
    BY <1>6, <1>8 DEF IsConcat
  <2>2. 1 \in 1..3 /\ 2 \in 1..3 /\ 3 \in 1..3 /\ 3 + 1 = 4 /\ 3 + 2 = 5 /\ 3 + 3 = 6
    OBVIOUS
  <2> QED BY <1>3, <1>5, <2>1, <2>2
<1>12. \A k \in 1..6 : w[k] = IF k \in {3, 5} THEN 255 ELSE 0
  BY <1>1, <1>11
<1> QED BY <1>9, <1>10, <1>12

\* The answer about a card: where its UID lies behind what is said of it.
IsTarget(t, uid, m) ==
  /\ t \in Seq(Byte) /\ Len(t) = 5 + m
  /\ \A k \in 1..m : t[5 + k] = uid[k]

\* A target the chip names ends in its UID.
LEMMA TargetIs ==
  ASSUME NEW uid \in Seq(Byte), NEW m \in 0..255, Len(uid) = m
  PROVE  IsTarget(Target(uid), uid, m)
<1>1. PICK z \in Byte : z = 0
  BY DEF Byte
<1>2. PICK o \in Byte : o = 1
  BY DEF Byte
<1>3. PICK f \in Byte : f = 4
  BY DEF Byte
<1>4. PICK e \in Byte : e = 8
  BY DEF Byte
<1>5. PICK l \in Byte : l = Len(uid)
  BY DEF Byte
<1>6. PICK h : h = <<o, z, f, e, l>>
  OBVIOUS
<1>7. h \in Seq(Byte) /\ Len(h) = 5
  BY <1>6
<1>8. Target(uid) = h \o uid
  BY <1>1, <1>2, <1>3, <1>4, <1>5, <1>6 DEF Target
<1>9. PICK n \in Nat : n = 5
  OBVIOUS
<1>10. m \in Nat
  OBVIOUS
<1>11. IsConcat(Byte, h, uid, n, m, h \o uid)
  BY <1>7, <1>9, <1>10, ConcatAt
<1>12. PICK t : t = h \o uid
  OBVIOUS
<1>13. /\ t \in Seq(Byte) /\ Len(t) = n + m /\ \A k \in 1..m : t[n + k] = uid[k]
  BY <1>11, <1>12 DEF IsConcat
<1>14. IsTarget(t, uid, m)
  BY <1>9, <1>13 DEF IsTarget
<1> QED BY <1>8, <1>12, <1>14

\* An answer of the chip is bytes.
LEMMA AnswerIs ==
  ASSUME NEW p \in Seq(Byte), NEW L \in 0..254, Len(p) = L
  PROVE  IsFrame(Answer(p), PN532_TFI_PN2HOST, p, L)
<1>1. PN532_TFI_PN2HOST \in Byte
  BY DEF PN532_TFI_PN2HOST, Byte
<1> QED BY <1>1, FrameBytes DEF Answer

\* The answer to readuid: the length of its frame and the UID.
IsAnswer(f, uid, m) ==
  /\ Len(f) = m + 15 /\ f[4] = m + 8
  /\ \A k \in 1..m : f[13 + k] = uid[k]

\* What the chip answers about a card, to whichever command, is bytes.
LEMMA CardAnswerIs ==
  ASSUME NEW uid \in Seq(Byte), NEW m \in {4, 7}, Len(uid) = m, NEW cmd
  PROVE  /\ CardAnswer(cmd, uid) \in Seq(Byte)
         /\ cmd = "readuid" => IsAnswer(CardAnswer(cmd, uid), uid, m)
<1>1. PICK t : t = Target(uid)
  OBVIOUS
<1>2. t \in Seq(Byte) /\ Len(t) = 5 + m /\ \A k \in 1..m : t[5 + k] = uid[k]
  <2>1. m \in 0..255
    OBVIOUS
  <2>2. IsTarget(t, uid, m)
    BY <1>1, <2>1, TargetIs
  <2> QED BY <2>2 DEF IsTarget
<1>3. CASE cmd = "readuid"
  <2>1. PICK a \in Byte : a = 75
    BY DEF Byte
  <2>2. PICK o \in Byte : o = 1
    BY DEF Byte
  <2>3. PICK h : h = <<a, o>>
    OBVIOUS
  <2>4. h \in Seq(Byte) /\ Len(h) = 2
    BY <2>3
  <2>5. PICK n \in Nat : n = 5 + m
    OBVIOUS
  <2>6. PICK two \in Nat : two = 2
    OBVIOUS
  <2>7. PICK p : p = h \o t
    OBVIOUS
  <2>8. IsConcat(Byte, h, t, two, n, p)
    BY <1>2, <2>4, <2>5, <2>6, <2>7, ConcatAt
  <2>9. p \in Seq(Byte) /\ Len(p) = two + n /\ \A k \in 1..n : p[two + k] = t[k]
    BY <2>8 DEF IsConcat
  <2>10. PICK L \in 0..254 : L = 7 + m
    OBVIOUS
  <2>11. PICK f : f = Answer(p)
    OBVIOUS
  <2>12. IsFrame(f, PN532_TFI_PN2HOST, p, L)
    <3>1. Len(p) = L
      BY <2>5, <2>6, <2>9, <2>10
    <3> QED BY <2>9, <2>11, <3>1, AnswerIs
  <2>13. /\ f \in Seq(Byte) /\ Len(f) = L + 8 /\ f[4] = L + 1
         /\ \A i \in 1..L : f[6 + i] = p[i]
    BY <2>12 DEF IsFrame
  <2>14. ASSUME NEW k \in 1..m PROVE f[13 + k] = uid[k]
    <3>1. 7 + k \in 1..L /\ 6 + (7 + k) = 13 + k
      BY <2>10
    <3>2. f[6 + (7 + k)] = p[7 + k]
      BY <2>13, <3>1
    <3>3. 5 + k \in 1..n /\ two + (5 + k) = 7 + k
      BY <2>5, <2>6
    <3>4. p[two + (5 + k)] = t[5 + k]
      BY <2>9, <3>3
    <3> QED BY <1>2, <3>1, <3>2, <3>3, <3>4
  <2>15. CardAnswer(cmd, uid) = f
    BY <1>1, <1>3, <2>1, <2>2, <2>3, <2>7, <2>11 DEF CardAnswer
  <2>16. Len(f) = m + 15 /\ f[4] = m + 8
    BY <2>10, <2>13
  <2>17. IsAnswer(f, uid, m)
    BY <2>14, <2>16 DEF IsAnswer
  <2> QED BY <2>13, <2>15, <2>17
<1>4. CASE cmd # "readuid"
  <2>1. PICK a \in Byte : a = 97
    BY DEF Byte
  <2>2. PICK o \in Byte : o = 1
    BY DEF Byte
  <2>3. PICK e \in Byte : e = 16
    BY DEF Byte
  <2>4. PICK n \in Nat : n = 5 + m
    OBVIOUS
  <2>5. n \in Byte /\ n = Len(t)
    BY <1>2, <2>4 DEF Byte
  <2>6. PICK h : h = <<a, o, e, n>>
    OBVIOUS
  <2>7. h \in Seq(Byte) /\ Len(h) = 4
    BY <2>5, <2>6
  <2>8. PICK four \in Nat : four = 4
    OBVIOUS
  <2>9. PICK p : p = h \o t
    OBVIOUS
  <2>10. IsConcat(Byte, h, t, four, n, p)
    BY <1>2, <2>4, <2>7, <2>8, <2>9, ConcatAt
  <2>11. p \in Seq(Byte) /\ Len(p) = four + n
    BY <2>10 DEF IsConcat
  <2>12. PICK L \in 0..254 : L = four + n
    BY <2>4, <2>8
  <2>13. Answer(p) \in Seq(Byte)
    <3>1. IsFrame(Answer(p), PN532_TFI_PN2HOST, p, L)
      BY <2>11, <2>12, AnswerIs
    <3> QED BY <3>1 DEF IsFrame
  <2>14. CardAnswer(cmd, uid) = Answer(p)
    BY <1>1, <1>4, <2>1, <2>2, <2>3, <2>5, <2>6, <2>9 DEF CardAnswer
  <2> QED BY <1>4, <2>13, <2>14
<1> QED BY <1>3, <1>4

\* What a command is answered at once, and what the chip goes on working on, which
\* for readuid is the command itself until there is a card.
LEMMA ResponseIs ==
  ASSUME NEW cmd \in Commands, NEW uid \in Cards \cup {NoCard}, NEW r \in Response(cmd, uid)
  PROVE  /\ r.bytes \in Seq(Byte) /\ r.job \in {"none", "readuid", "inautopoll"}
         /\ cmd = "readuid" =>
              IF uid = NoCard THEN r.bytes = << >> /\ r.job = "readuid"
              ELSE r.bytes = CardAnswer("readuid", uid) /\ r.job = "none"
<1>1. CASE cmd \in {"wakeup", "samconf"}
  <2>1. PICK b \in Byte : b = 21
    BY DEF Byte
  <2>2. PICK p : p = <<b>>
    OBVIOUS
  <2>3. p \in Seq(Byte) /\ Len(p) = 1
    BY <2>2
  <2>4. Answer(p) \in Seq(Byte)
    <3>1. PICK L \in 0..254 : L = 1
      OBVIOUS
    <3>2. IsFrame(Answer(p), PN532_TFI_PN2HOST, p, L)
      BY <2>3, <3>1, AnswerIs
    <3> QED BY <3>2 DEF IsFrame
  <2>5. r = [bytes |-> Answer(p), job |-> "none"]
    BY <1>1, <2>1, <2>2 DEF Response
  <2> QED BY <1>1, <2>4, <2>5
<1>2. CASE cmd = "readver"
  <2>1. PICK a \in Byte : a = 3
    BY DEF Byte
  <2>2. PICK b \in Byte : b = 50
    BY DEF Byte
  <2>3. PICK c \in Byte : c = 1
    BY DEF Byte
  <2>4. PICK d \in Byte : d = 6
    BY DEF Byte
  <2>5. PICK e \in Byte : e = 7
    BY DEF Byte
  <2>6. PICK p : p = <<a, b, c, d, e>>
    OBVIOUS
  <2>7. p \in Seq(Byte) /\ Len(p) = 5
    BY <2>6
  <2>8. Answer(p) \in Seq(Byte)
    <3>1. PICK L \in 0..254 : L = 5
      OBVIOUS
    <3>2. IsFrame(Answer(p), PN532_TFI_PN2HOST, p, L)
      BY <2>7, <3>1, AnswerIs
    <3> QED BY <3>2 DEF IsFrame
  <2>9. r = [bytes |-> Answer(p), job |-> "none"]
    BY <1>2, <2>1, <2>2, <2>3, <2>4, <2>5, <2>6 DEF Response
  <2> QED BY <1>2, <2>8, <2>9
<1>3. CASE cmd = "atctive"
  <2>1. PICK a \in Byte : a = 87
    BY DEF Byte
  <2>2. PICK b \in Byte : b = 1
    BY DEF Byte
  <2>3. PICK p : p = <<a, b>>
    OBVIOUS
  <2>4. p \in Seq(Byte) /\ Len(p) = 2
    BY <2>3
  <2>5. Answer(p) \in Seq(Byte)
    <3>1. PICK L \in 0..254 : L = 2
      OBVIOUS
    <3>2. IsFrame(Answer(p), PN532_TFI_PN2HOST, p, L)
      BY <2>4, <3>1, AnswerIs
    <3> QED BY <3>2 DEF IsFrame
  <2>6. r = [bytes |-> Answer(p), job |-> "none"] \/ r = [bytes |-> << >>, job |-> "none"]
    BY <1>3, <2>1, <2>2, <2>3 DEF Response
  <2>7. << >> \in Seq(Byte)
    OBVIOUS
  <2>8. r.bytes \in Seq(Byte) /\ r.job = "none"
    <3>1. CASE r = [bytes |-> Answer(p), job |-> "none"]
      BY <2>5, <3>1
    <3>2. CASE r = [bytes |-> << >>, job |-> "none"]
      BY <2>7, <3>2
    <3> QED BY <2>6, <3>1, <3>2
  <2> QED BY <1>3, <2>8
<1>4. CASE cmd \in {"inautopoll", "readuid"}
  <2>1. CASE uid = NoCard
    <3>1. r = [bytes |-> << >>, job |-> cmd]
      BY <1>4, <2>1 DEF Response
    <3>2. << >> \in Seq(Byte)
      OBVIOUS
    <3> QED BY <1>4, <2>1, <3>1, <3>2
  <2>2. CASE uid # NoCard
    <3>1. r = [bytes |-> CardAnswer(cmd, uid), job |-> "none"]
      BY <1>4, <2>2 DEF Response
    <3>2. uid \in Cards
      BY <2>2
    <3>3. uid \in Seq(Byte) /\ Len(uid) \in {4, 7}
      BY <3>2, CardReaderAssumption DEF CardReaderAssumption
    <3>4. CardAnswer(cmd, uid) \in Seq(Byte)
      BY <3>3, CardAnswerIs
    <3> QED BY <2>2, <3>1, <3>4
  <2> QED BY <2>1, <2>2
<1> QED BY <1>1, <1>2, <1>3, <1>4 DEF Commands

\* The line takes what it has room for, and all of it if there is room.
LEMMA ReceiveIs ==
  ASSUME rx \in Seq(Byte), NEW bytes \in Seq(Byte), Receive(bytes)
  PROVE  /\ rx' \in Seq(Byte) /\ Len(rx') <= RxMax
         /\ Len(rx) + Len(bytes) <= RxMax => rx' = rx \o bytes
<1>1. PICK w : w = rx \o bytes
  OBVIOUS
<1>2. PICK a \in Nat : a = Len(rx)
  OBVIOUS
<1>3. PICK b \in Nat : b = Len(bytes)
  OBVIOUS
<1>4. PICK n \in Nat : n = a + b
  OBVIOUS
<1>5. w \in Seq(Byte) /\ Len(w) = n
  <2>1. IsConcat(Byte, rx, bytes, a, b, rx \o bytes)
    BY <1>2, <1>3, ConcatAt
  <2> QED BY <1>1, <1>4, <2>1 DEF IsConcat
<1>6. PICK M \in Nat : M = RxMax
  BY CardReaderAssumption DEF CardReaderAssumption
<1>7. PICK l \in Nat : l = Min({RxMax, Len(rx \o bytes)}) /\ l = IF M <= n THEN M ELSE n
  <2>1. \E x \in {M, n} : \A y \in {M, n} : x <= y
    <3>1. CASE M <= n
      BY <3>1
    <3>2. CASE n <= M
      BY <3>2
    <3> QED BY <3>1, <3>2
  <2>2. PICK x : x = Min({M, n})
    OBVIOUS
  <2>3. x \in {M, n} /\ \A y \in {M, n} : x <= y
    BY <2>1, <2>2 DEF Min
  <2>4. x \in Nat /\ x = IF M <= n THEN M ELSE n
    BY <2>3
  <2> QED BY <1>1, <1>5, <1>6, <2>2, <2>4
<1>8. rx' = SubSeq(w, 1, l)
  BY <1>1, <1>7 DEF Receive
<1>9. \A i \in 1..l : w[i] \in Byte
  BY <1>5, <1>7
<1>10. /\ SubSeq(w, 1, l) \in Seq(Byte)
       /\ Len(SubSeq(w, 1, l)) = IF 1 <= l THEN l - 1 + 1 ELSE 0
       /\ \A i \in 1..l - 1 + 1 : SubSeq(w, 1, l)[i] = w[1 + i - 1]
  BY <1>9, SubSeqProperties
<1>11. PICK v : v = SubSeq(w, 1, l)
  OBVIOUS
<1>12. v \in Seq(Byte) /\ Len(v) = l /\ \A i \in 1..l : v[i] = w[i]
  <2>1. (IF 1 <= l THEN l - 1 + 1 ELSE 0) = l /\ l - 1 + 1 = l
    OBVIOUS
  <2>2. \A i \in 1..l : 1 + i - 1 = i
    OBVIOUS
  <2> QED BY <1>10, <1>11, <2>1, <2>2
<1>13. ASSUME a + b <= M PROVE v = w
  <2>1. l = n
    BY <1>4, <1>7, <1>13
  <2> QED BY <1>5, <1>12, <2>1, SeqEqual
<1> QED BY <1>1, <1>2, <1>3, <1>6, <1>7, <1>8, <1>11, <1>12, <1>13

\* A card's UID is four or seven bytes.
LEMMA CardIs ==
  ASSUME NEW uid \in Cards
  PROVE  uid \in Seq(Byte) /\ Len(uid) \in {4, 7} /\ uid # NoCard
BY CardReaderAssumption DEF CardReaderAssumption

\* The bytes that follow readuid when there is a card.
Reply(uid) == PN532_ACK_FRAME \o CardAnswer("readuid", uid)

\* r and then s are t.
Sent(r, s, t) ==
  /\ Len(r) + Len(s) = Len(t)
  /\ \A k \in 1..Len(r) : r[k] = t[k]
  /\ \A k \in 1..Len(s) : s[k] = t[Len(r) + k]

\* The length of the frame and the UID lie where main looks for them.
IsReply(f, uid, m) ==
  /\ f \in Seq(Byte) /\ Len(f) = m + 21 /\ f[10] = m + 8
  /\ \A k \in 1..m : f[19 + k] = uid[k]
  /\ Sent(PN532_ACK_FRAME, CardAnswer("readuid", uid), f)

\* That is so for the bytes that follow readuid.
LEMMA ReplyIs ==
  ASSUME NEW uid \in Seq(Byte), NEW m \in {4, 7}, Len(uid) = m
  PROVE  IsReply(Reply(uid), uid, m)
<1>1. PICK a : a = PN532_ACK_FRAME
  OBVIOUS
<1>2. PICK c : c = CardAnswer("readuid", uid)
  OBVIOUS
<1>3. a \in Seq(Byte) /\ Len(a) = 6
  BY <1>1, AckIs
<1>4. /\ c \in Seq(Byte) /\ Len(c) = m + 15 /\ c[4] = m + 8
      /\ \A k \in 1..m : c[13 + k] = uid[k]
  <2>1. c \in Seq(Byte) /\ IsAnswer(c, uid, m)
    BY <1>2, CardAnswerIs
  <2> QED BY <2>1 DEF IsAnswer
<1>5. PICK n \in Nat : n = m + 15
  OBVIOUS
<1>6. PICK six \in Nat : six = 6
  OBVIOUS
<1>7. PICK f : f = a \o c
  OBVIOUS
<1>8. IsConcat(Byte, a, c, six, n, f)
  BY <1>3, <1>4, <1>5, <1>6, <1>7, ConcatAt
<1>9. /\ f \in Seq(Byte) /\ Len(f) = six + n
      /\ \A i \in 1..six : f[i] = a[i]
      /\ \A i \in 1..n : f[six + i] = c[i]
  BY <1>8 DEF IsConcat
<1>10. f[10] = m + 8
  <2>1. 4 \in 1..n /\ six + 4 = 10
    BY <1>5, <1>6
  <2> QED BY <1>4, <1>9, <2>1
<1>11. ASSUME NEW k \in 1..m PROVE f[19 + k] = uid[k]
  <2>1. 13 + k \in 1..n /\ six + (13 + k) = 19 + k
    BY <1>5, <1>6
  <2> QED BY <1>4, <1>9, <2>1
<1>12. Sent(a, c, f)
  BY <1>3, <1>4, <1>5, <1>6, <1>9 DEF Sent
<1>13. IsReply(f, uid, m)
  BY <1>1, <1>2, <1>5, <1>6, <1>9, <1>10, <1>11, <1>12 DEF IsReply
<1> QED BY <1>1, <1>2, <1>7, <1>13 DEF Reply

\* a and b are s, cut behind its first n elements.
IsCut(a, b, s, n) ==
  /\ a \in Seq(Byte) /\ Len(a) = n /\ \A k \in 1..n : a[k] = s[k]
  /\ b \in Seq(Byte) /\ Len(b) = Len(s) - n /\ \A k \in 1..Len(b) : b[k] = s[n + k]

\* That is what SubSeq gives.
LEMMA Cut ==
  ASSUME NEW s \in Seq(Byte), NEW n \in Nat, n <= Len(s)
  PROVE  IsCut(SubSeq(s, 1, n), SubSeq(s, n + 1, Len(s)), s, n)
<1>1. PICK l \in Nat : l = Len(s)
  OBVIOUS
<1>2. PICK a : a = SubSeq(s, 1, n)
  OBVIOUS
<1>3. PICK i \in Int : i = n + 1
  OBVIOUS
<1>4. PICK b : b = SubSeq(s, i, l)
  OBVIOUS
<1>5. a \in Seq(Byte) /\ Len(a) = n /\ \A k \in 1..n : a[k] = s[k]
  <2>1. \A k \in 1..n : s[k] \in Byte
    BY <1>1
  <2>2. /\ SubSeq(s, 1, n) \in Seq(Byte)
        /\ Len(SubSeq(s, 1, n)) = IF 1 <= n THEN n - 1 + 1 ELSE 0
        /\ \A k \in 1..n - 1 + 1 : SubSeq(s, 1, n)[k] = s[1 + k - 1]
    BY <2>1, SubSeqProperties
  <2>3. (IF 1 <= n THEN n - 1 + 1 ELSE 0) = n /\ n - 1 + 1 = n
    OBVIOUS
  <2>4. \A k \in 1..n : 1 + k - 1 = k
    OBVIOUS
  <2> QED BY <1>2, <2>2, <2>3, <2>4
<1>6. b \in Seq(Byte) /\ Len(b) = l - n /\ \A k \in 1..l - n : b[k] = s[n + k]
  <2>1. \A k \in i..l : s[k] \in Byte
    <3>1. \A k \in i..l : k \in 1..Len(s)
      BY <1>1, <1>3
    <3> QED BY <3>1
  <2>2. /\ SubSeq(s, i, l) \in Seq(Byte)
        /\ Len(SubSeq(s, i, l)) = IF i <= l THEN l - i + 1 ELSE 0
        /\ \A k \in 1..l - i + 1 : SubSeq(s, i, l)[k] = s[i + k - 1]
    BY <2>1, SubSeqProperties
  <2>3. (IF i <= l THEN l - i + 1 ELSE 0) = l - n /\ l - i + 1 = l - n
    BY <1>1, <1>3
  <2>4. \A k \in 1..l - n : i + k - 1 = n + k
    BY <1>3
  <2> QED BY <1>4, <2>2, <2>3, <2>4
<1>7. IsCut(a, b, s, n)
  BY <1>1, <1>5, <1>6 DEF IsCut
<1> QED BY <1>1, <1>2, <1>3, <1>4, <1>7

-----------------------------------------------------------------------------
(***************************************************************************)
(* The invariant.  The buffer is clear when the answer to readuid is read; *)
(* a reader in step finds on the line no more than an acknowledgement and  *)
(* one answer, about the card the chip found; and then has it in its       *)
(* buffer.                                                                 *)
(***************************************************************************)
CmdIs(c) == Script[step].cmd = c

Blank ==
  pc = "start" \/ (pc \in {"write", "read"} /\ CmdIs("readuid")) => buffer = Zero

Asked ==
  pc = "read" /\ CmdIs("readuid") /\ inStep =>
    \/ /\ found = NoCard /\ sending = << >> /\ rx \in {<< >>, PN532_ACK_FRAME}
       /\ alive /\ job # "none" => job = "readuid" /\ rx = PN532_ACK_FRAME
    \/ found \in Cards /\ Sent(rx, sending, Reply(found)) /\ (alive => job = "none")

\* The length and the first six bytes of a UID, where main looks for them.
Holds(b, uid) ==
  b[10] = Len(uid) + 8 /\ \A k \in 1..6 : k <= Len(uid) => b[19 + k] = uid[k]

Kept ==
  pc = "loop" /\ inStep =>
    \/ buffer[10] = 0
    \/ found \in Cards /\ (alive => job # "readuid") /\ Holds(buffer, found)

ReaderInv == TypeOK /\ Blank /\ Asked /\ Kept

\* A clear buffer.
LEMMA ZeroIs == Zero \in [1..64 -> Byte] /\ \A k \in 1..64 : Zero[k] = 0
<1>1. 0 \in Byte
  BY DEF Byte
<1> QED BY <1>1 DEF Zero

\* The start: no command, and nothing on the line.
LEMMA ReaderInit ==
  ASSUME Init
  PROVE  ReaderInv
<1>1. << >> \in Seq(Byte) /\ Len(<< >>) = 0 /\ Len(<< >>) <= RxMax
  BY CardReaderAssumption DEF CardReaderAssumption
<1>2. 1 \in 1..Len(Script)
  BY ScriptIs
<1>3. TypeOK
  BY <1>1, <1>2, ZeroIs DEF Init, TypeOK
<1> QED BY <1>3 DEF Init, ReaderInv, Blank, Asked, Kept

\* A step that changes nothing.
LEMMA ReaderStutter ==
  ASSUME ReaderInv, UNCHANGED vars
  PROVE  ReaderInv'
BY DEF vars, readerVars, chipVars, ReaderInv, TypeOK, Blank, Asked, Kept, CmdIs, Holds, Sent

\* A card comes while the chip looks for one: its answer is what the line still has
\* to bring.
LEMMA ChipFindsStep ==
  ASSUME ReaderInv, ChipFinds
  PROVE  ReaderInv'
<1>1. /\ alive /\ card # NoCard /\ job # "none"
      /\ sending' = CardAnswer(job, card) /\ job' = "none"
      /\ found' = (IF job = "readuid" THEN card ELSE found)
      /\ UNCHANGED <<pc, step, buffer, rx, alive, card, inStep>>
  BY DEF ChipFinds, readerVars
<1>2. TypeOK /\ card \in Cards
  BY <1>1 DEF ReaderInv, TypeOK
<1>3. sending' \in Seq(Byte)
  <2>1. card \in Seq(Byte) /\ Len(card) \in {4, 7}
    BY <1>2, CardIs
  <2> QED BY <1>1, <2>1, CardAnswerIs
<1>4. TypeOK'
  BY <1>1, <1>2, <1>3 DEF TypeOK
<1>5. Blank'
  BY <1>1 DEF ReaderInv, Blank, CmdIs
<1>6. Asked'
  <2>1. SUFFICES ASSUME pc = "read", CmdIs("readuid"), inStep
                 PROVE  /\ found' \in Cards /\ Sent(rx', sending', Reply(found'))
                        /\ job' = "none"
    BY <1>1 DEF Asked, CmdIs
  <2>2. job = "readuid" /\ rx = PN532_ACK_FRAME
    BY <1>1, <2>1 DEF ReaderInv, Asked
  <2>3. Sent(PN532_ACK_FRAME, CardAnswer("readuid", card), Reply(card))
    <3>1. card \in Seq(Byte) /\ Len(card) \in {4, 7}
      BY <1>2, CardIs
    <3>2. IsReply(Reply(card), card, Len(card))
      BY <3>1, ReplyIs
    <3> QED BY <3>2 DEF IsReply
  <2>4. sending' = CardAnswer("readuid", card) /\ rx' = PN532_ACK_FRAME /\ found' = card
    BY <1>1, <2>2
  <2> QED BY <1>1, <1>2, <2>3, <2>4
<1>7. Kept'
  BY <1>1 DEF ReaderInv, Kept
<1> QED BY <1>4, <1>5, <1>6, <1>7 DEF ReaderInv

\* What the chip sends in pieces comes in order.
LEMMA SendStep ==
  ASSUME ReaderInv, Send
  PROVE  ReaderInv'
<1>1. /\ sending # << >>
      /\ \E n \in Pieces \cup {Len(sending)} :
           /\ n <= Len(sending)
           /\ Receive(SubSeq(sending, 1, n))
           /\ sending' = SubSeq(sending, n + 1, Len(sending))
      /\ UNCHANGED <<pc, step, buffer, job, alive, found, card, inStep>>
  BY DEF Send, readerVars
<1>2. PICK s \in Seq(Byte) : s = sending
  BY DEF ReaderInv, TypeOK
<1>3. PICK n \in Nat : /\ n <= Len(s) /\ Receive(SubSeq(s, 1, n))
                       /\ sending' = SubSeq(s, n + 1, Len(s))
  <2>1. Pieces \subseteq Nat /\ Len(s) \in Nat
    BY CardReaderAssumption DEF CardReaderAssumption
  <2> QED BY <1>1, <1>2, <2>1
<1>4. PICK a : a = SubSeq(s, 1, n)
  OBVIOUS
<1>5. PICK b : b = sending'
  OBVIOUS
<1>6. IsCut(a, b, s, n)
  BY <1>3, <1>4, <1>5, Cut
<1>7. rx \in Seq(Byte)
  BY DEF ReaderInv, TypeOK
<1>8. /\ rx' \in Seq(Byte) /\ Len(rx') <= RxMax
      /\ Len(rx) + Len(a) <= RxMax => rx' = rx \o a
  BY <1>3, <1>4, <1>6, <1>7, ReceiveIs DEF IsCut
<1>9. TypeOK'
  BY <1>1, <1>5, <1>6, <1>8 DEF ReaderInv, TypeOK, IsCut
<1>10. Blank' /\ Kept'
  BY <1>1 DEF ReaderInv, Blank, CmdIs, Kept
<1>11. Asked'
  <2>1. SUFFICES ASSUME pc = "read", CmdIs("readuid"), inStep
                 PROVE  /\ found' \in Cards /\ Sent(rx', sending', Reply(found'))
                        /\ alive' => job' = "none"
    BY <1>1 DEF Asked, CmdIs
  <2>2. found \in Cards /\ Sent(rx, sending, Reply(found)) /\ (alive => job = "none")
    BY <1>1, <2>1 DEF ReaderInv, Asked
  <2>3. PICK t : t = Reply(found)
    OBVIOUS
  <2>4. Len(t) \in Nat /\ Len(t) <= 28
    <3>1. found \in Seq(Byte) /\ Len(found) \in {4, 7}
      BY <2>2, CardIs
    <3>2. PICK m \in {4, 7} : m = Len(found)
      BY <3>1
    <3>3. IsReply(t, found, m)
      BY <2>3, <3>1, <3>2, ReplyIs
    <3>4. Len(t) = m + 21
      BY <3>3 DEF IsReply
    <3>5. m \in Nat /\ m <= 7
      OBVIOUS
    <3>6. PICK z \in Nat : z = m + 21
      BY <3>5
    <3>7. Len(t) = z /\ z <= 28
      BY <3>4, <3>5, <3>6
    <3> QED BY <3>7
  <2>5. PICK l \in Nat : l = Len(rx)
    BY <1>7
  <2>6. PICK q \in Nat : q = Len(s)
    OBVIOUS
  <2>7. /\ l + q = Len(t)
        /\ \A k \in 1..l : rx[k] = t[k]
        /\ \A k \in 1..q : s[k] = t[l + k]
    BY <1>2, <2>2, <2>3, <2>5, <2>6 DEF Sent
  <2>8. /\ a \in Seq(Byte) /\ Len(a) = n /\ \A k \in 1..n : a[k] = s[k]
        /\ Len(b) = q - n /\ \A k \in 1..q - n : b[k] = s[n + k] /\ n <= q
    BY <1>3, <1>6, <2>6 DEF IsCut
  <2>9. l + n <= RxMax
    <3>1. RxMax \in Nat /\ RxMax >= 64
      BY CardReaderAssumption DEF CardReaderAssumption
    <3>2. n <= q
      BY <1>3, <2>6
    <3> QED BY <2>4, <2>7, <3>1, <3>2
  <2>10. PICK w : w = rx'
    OBVIOUS
  <2>11. IsConcat(Byte, rx, a, l, n, w)
    <3>1. w = rx \o a
      BY <1>8, <2>5, <2>8, <2>9, <2>10
    <3> QED BY <1>7, <2>5, <2>8, <3>1, ConcatAt
  <2>12. /\ Len(w) = l + n /\ \A k \in 1..l : w[k] = rx[k]
         /\ \A k \in 1..n : w[l + k] = a[k]
    BY <2>11 DEF IsConcat
  <2>13. ASSUME NEW k \in 1..l + n PROVE w[k] = t[k]
    <3>1. CASE k <= l
      BY <2>7, <2>12, <3>1
    <3>2. CASE k > l
      <4>1. k - l \in 1..n /\ k - l \in 1..q /\ l + (k - l) = k
        BY <2>8, <3>2
      <4>2. PICK i \in 1..n : i = k - l
        BY <4>1
      <4>3. i \in 1..q /\ l + i = k
        BY <4>1, <4>2
      <4>4. w[l + i] = a[i]
        BY <2>12
      <4>5. a[i] = s[i]
        BY <2>8
      <4>6. s[i] = t[l + i]
        BY <2>7, <4>3
      <4> QED BY <4>3, <4>4, <4>5, <4>6
    <3> QED BY <3>1, <3>2
  <2>14. ASSUME NEW k \in 1..q - n PROVE b[k] = t[l + n + k]
    <3>1. n + k \in 1..q /\ l + (n + k) = l + n + k
      BY <2>8
    <3> QED BY <2>7, <2>8, <3>1
  <2>15. Len(w) + Len(b) = Len(t)
    <3>1. (l + n) + (q - n) = l + q
      BY ONLY l \in Nat, n \in Nat, q \in Nat
    <3> QED BY <2>7, <2>8, <2>12, <3>1
  <2>16. Sent(w, b, t)
    BY <2>8, <2>12, <2>13, <2>14, <2>15 DEF Sent
  <2> QED BY <1>1, <1>5, <2>2, <2>3, <2>10, <2>16
<1> QED BY <1>9, <1>10, <1>11 DEF ReaderInv

-----------------------------------------------------------------------------
\* The chip falls silent: what it was sending is cut short, and the reader out of
\* step.
LEMMA ChipFailsStep ==
  ASSUME ReaderInv, ChipFails
  PROVE  ReaderInv'
<1>1. /\ alive' = FALSE /\ sending' = << >> /\ inStep' = (inStep /\ sending = << >>)
      /\ UNCHANGED <<pc, step, buffer, rx, job, found, card>>
  BY DEF ChipFails, readerVars
<1>2. << >> \in Seq(Byte)
  OBVIOUS
<1>3. TypeOK'
  BY <1>1, <1>2 DEF ReaderInv, TypeOK
<1>4. Blank'
  BY <1>1 DEF ReaderInv, Blank, CmdIs
<1>5. Asked'
  <2>1. SUFFICES ASSUME pc = "read", CmdIs("readuid"), inStep, sending = << >>
                 PROVE  \/ found' = NoCard /\ rx' \in {<< >>, PN532_ACK_FRAME}
                        \/ found' \in Cards /\ Sent(rx', sending', Reply(found'))
    BY <1>1 DEF Asked, CmdIs
  <2>2. CASE found = NoCard /\ rx \in {<< >>, PN532_ACK_FRAME}
    BY <1>1, <2>2
  <2>3. CASE found \in Cards /\ Sent(rx, sending, Reply(found))
    BY <1>1, <2>1, <2>3
  <2> QED BY <2>1, <2>2, <2>3 DEF ReaderInv, Asked
<1>6. Kept'
  BY <1>1 DEF ReaderInv, Kept
<1> QED BY <1>3, <1>4, <1>5, <1>6 DEF ReaderInv

\* A card comes or goes: the chip knows of it only when it looks.
LEMMA CardMovesStep ==
  ASSUME ReaderInv, CardMoves
  PROVE  ReaderInv'
<1>1. /\ card' \in Cards \cup {NoCard}
      /\ UNCHANGED <<pc, step, buffer, rx, sending, job, alive, found, inStep>>
  BY DEF CardMoves, readerVars, chipVars
<1>2. TypeOK'
  BY <1>1 DEF ReaderInv, TypeOK
<1> QED BY <1>1, <1>2 DEF ReaderInv, Blank, Asked, Kept, CmdIs, Sent

\* main opens the lines, or ends.
LEMMA StartStep ==
  ASSUME ReaderInv, Start
  PROVE  ReaderInv'
<1>1. /\ pc = "start" /\ pc' \in {"write", "exited"}
      /\ UNCHANGED <<step, buffer, rx, sending, job, alive, card, found, inStep>>
  BY DEF Start, chipVars
<1>2. TypeOK'
  BY <1>1 DEF ReaderInv, TypeOK
<1> QED BY <1>1, <1>2 DEF ReaderInv, Blank, Asked, Kept, CmdIs

\* No card was read: the loop begins again, with its wakeup command.
LEMMA WaitingStep ==
  ASSUME ReaderInv, Waiting
  PROVE  ReaderInv'
<1>1. /\ pc = "loop" /\ pc' = "write" /\ step' = Again
      /\ UNCHANGED <<buffer, rx, sending, job, alive, card, found, inStep>>
  BY DEF Waiting, chipVars
<1>2. step' \in 1..Len(Script) /\ Script[step'].cmd # "readuid"
  BY <1>1, ScriptIs DEF Again
<1>3. TypeOK'
  BY <1>1, <1>2 DEF ReaderInv, TypeOK
<1> QED BY <1>1, <1>2, <1>3 DEF ReaderInv, Blank, Asked, Kept, CmdIs

\* A card was read: its buffer is cleared for the next.
LEMMA ShowStep ==
  ASSUME ReaderInv, Show
  PROVE  ReaderInv'
<1>1. /\ pc = "loop" /\ buffer' = Zero
      /\ UNCHANGED <<pc, step, rx, sending, job, alive, card, found, inStep>>
  BY DEF Show, chipVars
<1>2. TypeOK'
  BY <1>1, ZeroIs DEF ReaderInv, TypeOK
<1>3. Kept'
  BY <1>1, ZeroIs DEF Kept
<1> QED BY <1>1, <1>2, <1>3 DEF ReaderInv, Blank, Asked, CmdIs

\* Nothing before, nothing between: what the chip sends is what comes.
LEMMA Nothing ==
  ASSUME NEW r \in Seq(Byte), NEW s \in Seq(Byte)
  PROVE  /\ r \o s = << >> => r = << >> /\ s = << >>
         /\ << >> \o r = r /\ r \o << >> = r
<1>1. PICK a \in Nat : a = Len(r)
  OBVIOUS
<1>2. PICK b \in Nat : b = Len(s)
  OBVIOUS
<1>3. PICK w : w = r \o s
  OBVIOUS
<1>4. Len(w) = a + b
  <2>1. IsConcat(Byte, r, s, a, b, w)
    BY <1>1, <1>2, <1>3, ConcatAt
  <2> QED BY <2>1 DEF IsConcat
<1>5. ASSUME w = << >> PROVE r = << >> /\ s = << >>
  <2>1. a = 0 /\ b = 0
    BY <1>4, <1>5
  <2> QED BY <1>1, <1>2, <2>1, EmptySeq
<1> QED BY <1>3, <1>5, ConcatEmptySeq

\* An answer in full: nothing is on its way any more, or everything is here.
LEMMA SentAll ==
  ASSUME NEW t \in Seq(Byte)
  PROVE  Sent(t, << >>, t)
BY DEF Sent

\* A command: what was still to come is dropped, and the chip answers.
LEMMA WriteStep ==
  ASSUME ReaderInv, Write
  PROVE  ReaderInv'
<1>1. PICK cmd : cmd = Script[step].cmd
  OBVIOUS
<1>2. /\ pc' = "read" /\ pc = "write"
      /\ inStep' = IF cmd = "readuid" THEN rx \o sending = << >> ELSE inStep
      /\ found' = IF alive /\ cmd = "readuid" THEN card ELSE NoCard
      /\ IF alive
         THEN \E r \in Response(cmd, card) :
                Receive(sending \o PN532_ACK_FRAME \o r.bytes) /\ job' = r.job
         ELSE UNCHANGED <<rx, job>>
      /\ sending' = << >>
      /\ UNCHANGED <<step, buffer, alive, card>>
  BY <1>1 DEF Write
<1>3. TypeOK
  BY DEF ReaderInv
<1>4. rx \in Seq(Byte) /\ sending \in Seq(Byte) /\ card \in Cards \cup {NoCard}
  BY <1>3 DEF TypeOK
<1>5. cmd \in Commands
  BY <1>1, <1>3, ScriptIs DEF TypeOK
<1>6. << >> \in Seq(Byte)
  OBVIOUS
<1>7. Blank' /\ Kept'
  BY <1>2 DEF ReaderInv, Blank, Kept, CmdIs
<1>8. inStep' \in BOOLEAN /\ found' \in Cards \cup {NoCard}
  BY <1>2, <1>3 DEF TypeOK
<1>9. CASE ~alive
  <2>1. TypeOK'
    BY <1>2, <1>3, <1>6, <1>8, <1>9 DEF TypeOK
  <2>2. Asked'
    <3>1. SUFFICES ASSUME cmd = "readuid", rx \o sending = << >>
                   PROVE  found' = NoCard /\ sending' = << >> /\ rx' = << >> /\ ~alive'
      BY <1>1, <1>2 DEF Asked, CmdIs
    <3> QED BY <1>2, <1>4, <1>9, <3>1, Nothing
  <2> QED BY <1>7, <2>1, <2>2 DEF ReaderInv
<1>10. CASE alive
  <2>1. PICK r \in Response(cmd, card) :
          Receive(sending \o PN532_ACK_FRAME \o r.bytes) /\ job' = r.job
    BY <1>2, <1>10
  <2>2. /\ r.bytes \in Seq(Byte) /\ r.job \in {"none", "readuid", "inautopoll"}
        /\ cmd = "readuid" =>
             IF card = NoCard THEN r.bytes = << >> /\ r.job = "readuid"
             ELSE r.bytes = CardAnswer("readuid", card) /\ r.job = "none"
    BY <1>4, <1>5, ResponseIs
  <2>3. PICK a : a = PN532_ACK_FRAME
    OBVIOUS
  <2>4. a \in Seq(Byte) /\ Len(a) = 6
    BY <2>3, AckIs
  <2>5. PICK c : c = r.bytes
    OBVIOUS
  <2>6. PICK q : q = sending \o a
    OBVIOUS
  <2>7. q \in Seq(Byte)
    BY <1>4, <2>4, <2>6, ConcatProperties
  <2>8. PICK w : w = q \o c
    OBVIOUS
  <2>9. w \in Seq(Byte)
    BY <2>2, <2>5, <2>7, <2>8, ConcatProperties
  <2>10. Receive(w)
    BY <2>1, <2>3, <2>5, <2>6, <2>8
  <2>11. /\ rx' \in Seq(Byte) /\ Len(rx') <= RxMax
         /\ Len(rx) + Len(w) <= RxMax => rx' = rx \o w
    BY <1>4, <2>9, <2>10, ReceiveIs
  <2>12. TypeOK'
    BY <1>2, <1>3, <1>6, <1>8, <2>1, <2>2, <2>11 DEF TypeOK
  <2>13. Asked'
    <3>1. SUFFICES ASSUME cmd = "readuid", rx \o sending = << >>
                   PROVE  \/ /\ found' = NoCard /\ sending' = << >>
                             /\ rx' = PN532_ACK_FRAME /\ job' = "readuid"
                          \/ /\ found' \in Cards /\ Sent(rx', sending', Reply(found'))
                             /\ job' = "none"
      BY <1>1, <1>2 DEF Asked, CmdIs
    <3>2. rx = << >> /\ sending = << >>
      BY <1>4, <3>1, Nothing
    <3>3. w = a \o c
      BY <2>4, <2>6, <2>8, <3>2, Nothing
    <3>4. found' = card /\ job' = r.job /\ sending' = << >>
      BY <1>2, <1>10, <2>1, <3>1
    <3>5. PICK M \in Nat : M = RxMax /\ M >= 64
      BY CardReaderAssumption DEF CardReaderAssumption
    <3>6. ASSUME Len(w) <= 64 PROVE rx' = w
      <4>1. Len(rx) + Len(w) <= RxMax
        <5>1. Len(rx) = 0 /\ Len(w) \in Nat
          BY <2>9, <3>2
        <5> QED BY <3>5, <3>6, <5>1
      <4> QED BY <2>9, <2>11, <3>2, <4>1, Nothing
    <3>7. CASE card = NoCard
      <4>1. c = << >> /\ r.job = "readuid"
        BY <2>2, <2>5, <3>1, <3>7
      <4>2. w = a
        BY <2>4, <3>3, <4>1, Nothing
      <4>3. Len(w) <= 64
        BY <2>4, <4>2
      <4>4. rx' = a
        BY <3>6, <4>2, <4>3
      <4> QED BY <2>3, <3>4, <3>7, <4>1, <4>4
    <3>8. CASE card # NoCard
      <4>1. c = CardAnswer("readuid", card) /\ r.job = "none" /\ card \in Cards
        BY <1>4, <2>2, <2>5, <3>1, <3>8
      <4>2. w = Reply(card)
        BY <2>3, <3>3, <4>1 DEF Reply
      <4>3. card \in Seq(Byte) /\ Len(card) \in {4, 7}
        BY <4>1, CardIs
      <4>4. PICK m \in {4, 7} : m = Len(card)
        BY <4>3
      <4>5. IsReply(w, card, m)
        BY <4>2, <4>3, <4>4, ReplyIs
      <4>6. Len(w) = m + 21
        BY <4>5 DEF IsReply
      <4>7. Len(w) <= 64
        <5>1. m \in Nat /\ m <= 7
          OBVIOUS
        <5>2. PICK z \in Nat : z = m + 21
          BY <5>1
        <5> QED BY <4>6, <5>1, <5>2
      <4>8. Sent(w, << >>, w)
        BY <2>9, SentAll
      <4> QED BY <3>4, <3>6, <4>1, <4>2, <4>7, <4>8
    <3> QED BY <3>7, <3>8
  <2> QED BY <1>7, <2>12, <2>13 DEF ReaderInv
<1> QED BY <1>9, <1>10

\* The smaller of two numbers.
LEMMA MinIs ==
  ASSUME NEW a \in Nat, NEW b \in Nat
  PROVE  Min({a, b}) = IF a <= b THEN a ELSE b
<1>1. \E x \in {a, b} : \A y \in {a, b} : x <= y
  <2>1. CASE a <= b
    BY <2>1
  <2>2. CASE b <= a
    BY <2>2
  <2> QED BY <2>1, <2>2
<1>2. PICK x : x = Min({a, b})
  OBVIOUS
<1>3. x \in {a, b} /\ \A y \in {a, b} : x <= y
  BY <1>1, <1>2 DEF Min
<1> QED BY <1>2, <1>3

\* What a read of 25 bytes leaves in a clear buffer holds the UID, when the bytes
\* are those that follow readuid.
LEMMA ReplyHolds ==
  ASSUME NEW f, NEW uid \in Seq(Byte), NEW m \in {4, 7}, Len(uid) = m, IsReply(f, uid, m),
         NEW b, \A k \in 1..25 : b[k] = f[k]
  PROVE  Holds(b, uid)
<1>1. f[10] = m + 8 /\ \A k \in 1..m : f[19 + k] = uid[k]
  BY DEF IsReply
<1>2. b[10] = m + 8
  BY <1>1
<1>3. ASSUME NEW k \in 1..6, k <= m PROVE b[19 + k] = uid[k]
  <2>0. m \in Nat
    OBVIOUS
  <2>1. k \in 1..m /\ 19 + k \in 1..25
    BY ONLY k \in 1..6, <1>3, <2>0
  <2>2. b[19 + k] = f[19 + k]
    BY <2>1
  <2> QED BY <1>1, <2>1, <2>2
<1> QED BY <1>2, <1>3 DEF Holds

\* The answer is read, as much of it as the command should have: only that to
\* readuid stays.
LEMMA ReadStep ==
  ASSUME ReaderInv, Read
  PROVE  ReaderInv'
<1>1. TypeOK
  BY DEF ReaderInv
<1>2. PICK e : e = Script[step]
  OBVIOUS
<1>3. /\ e.cmd \in Commands /\ e.read \in Nat /\ step \in 1..8
      /\ step = 8 => e.cmd = "readuid"
      /\ e.cmd = "readuid" => e.read = 25
  BY <1>1, <1>2, ScriptIs DEF TypeOK
<1>4. PICK r : r = rx
  OBVIOUS
<1>5. r \in Seq(Byte) /\ Len(r) <= RxMax
  BY <1>1, <1>4 DEF TypeOK
<1>6. PICK l \in Nat : l = Len(r)
  BY <1>5
<1>7. PICK n \in Nat : n = Min({e.read, l}) /\ n <= l /\ n = IF e.read <= l THEN e.read ELSE l
  <2>1. PICK x \in Nat : x = e.read
    BY <1>3
  <2>2. Min({x, l}) = IF x <= l THEN x ELSE l
    BY MinIs
  <2> QED BY <2>1, <2>2
<1>8. /\ pc = "read" /\ r # << >>
      /\ rx' = SubSeq(r, n + 1, Len(r)) /\ inStep' = (inStep /\ sending = << >>)
      /\ IF e.cmd = "readuid"
         THEN /\ buffer' = [k \in 1..64 |-> IF k <= n THEN r[k] ELSE buffer[k]]
              /\ pc' = "loop" /\ UNCHANGED step
         ELSE buffer' = Zero /\ pc' = "write" /\ step' = step + 1
      /\ UNCHANGED <<sending, job, alive, found, card>>
  BY <1>2, <1>4, <1>6, <1>7 DEF Read
<1>9. rx' \in Seq(Byte) /\ Len(rx') <= RxMax
  <2>1. PICK b : b = rx'
    OBVIOUS
  <2>2. IsCut(SubSeq(r, 1, n), b, r, n)
    BY <1>5, <1>6, <1>7, <1>8, <2>1, Cut
  <2>3. b \in Seq(Byte) /\ Len(b) = l - n
    BY <1>6, <2>2 DEF IsCut
  <2>4. PICK M \in Nat : M = RxMax
    BY CardReaderAssumption DEF CardReaderAssumption
  <2>5. PICK i \in Nat : i = l - n
    BY <1>7
  <2>6. i <= M
    <3>1. l <= M
      BY <1>5, <1>6, <2>4
    <3> QED BY ONLY l \in Nat, n \in Nat, M \in Nat, i \in Nat, i = l - n, <3>1
  <2> QED BY <2>1, <2>3, <2>4, <2>5, <2>6
<1>10. inStep' \in BOOLEAN
  BY <1>1, <1>8 DEF TypeOK
<1>11. CASE e.cmd # "readuid"
  <2>1. buffer' = Zero /\ pc' = "write" /\ step' = step + 1
    BY <1>8, <1>11
  <2>2. step' \in 1..Len(Script)
    <3>1. step # 8
      BY <1>3, <1>11
    <3> QED BY <1>3, <2>1, <3>1, ScriptIs
  <2>3. TypeOK'
    BY <1>1, <1>8, <1>9, <1>10, <2>1, <2>2, ZeroIs DEF TypeOK
  <2> QED BY <2>1, <2>3 DEF ReaderInv, Blank, Asked, Kept
<1>12. CASE e.cmd = "readuid"
  <2>1. /\ buffer' = [k \in 1..64 |-> IF k <= n THEN r[k] ELSE buffer[k]]
        /\ pc' = "loop" /\ UNCHANGED step
    BY <1>8, <1>12
  <2>2. PICK b : b = [k \in 1..64 |-> IF k <= n THEN r[k] ELSE buffer[k]]
    OBVIOUS
  <2>3. b \in [1..64 -> Byte]
    <3>1. buffer \in [1..64 -> Byte]
      BY <1>1 DEF TypeOK
    <3>2. \A k \in 1..64 : k <= n => r[k] \in Byte
      <4>1. \A k \in 1..l : r[k] \in Byte
        BY <1>5, <1>6
      <4> QED BY <1>7, <4>1
    <3>3. \A k \in 1..64 : buffer[k] \in Byte
      BY <3>1
    <3> QED BY <2>2, <3>2, <3>3
  <2>4. TypeOK'
    BY <1>1, <1>8, <1>9, <1>10, <2>1, <2>2, <2>3 DEF TypeOK
  <2>5. Kept'
    <3>1. SUFFICES ASSUME inStep, sending = << >>
                   PROVE  \/ b[10] = 0
                          \/ found \in Cards /\ (alive => job # "readuid") /\ Holds(b, found)
      BY <1>8, <2>1, <2>2 DEF Kept, Holds
    <3>2. buffer = Zero
      BY <1>2, <1>8, <1>12 DEF ReaderInv, Blank, CmdIs
    <3>3. CASE r \in {<< >>, PN532_ACK_FRAME}
      <4>1. Len(r) = 6
        BY <1>8, <3>3, AckIs
      <4>2. n <= 6
        BY <1>6, <1>7, <4>1
      <4>3. b[10] = Zero[10]
        BY <2>2, <3>2, <4>2
      <4> QED BY <4>3, ZeroIs
    <3>4. CASE found \in Cards /\ Sent(r, << >>, Reply(found)) /\ (alive => job = "none")
      <4>1. found \in Seq(Byte) /\ Len(found) \in {4, 7}
        BY <3>4, CardIs
      <4>2. PICK uid \in Seq(Byte) : uid = found
        BY <4>1
      <4>3. PICK m \in {4, 7} : m = Len(uid)
        BY <4>1, <4>2
      <4>4. PICK f : f = Reply(uid)
        OBVIOUS
      <4>5. IsReply(f, uid, m)
        BY <4>3, <4>4, ReplyIs
      <4>6. Len(f) = m + 21
        BY <4>5 DEF IsReply
      <4>7. l = Len(f) /\ \A k \in 1..l : r[k] = f[k]
        <5>1. /\ Len(r) + Len(<< >>) = Len(f)
              /\ \A k \in 1..Len(r) : r[k] = f[k]
          BY <3>4, <4>2, <4>4 DEF Sent
        <5>2. Len(<< >>) = 0
          OBVIOUS
        <5> QED BY <1>6, <5>1, <5>2
      <4>8. n = 25 /\ l >= 25
        <5>1. m \in Nat /\ m >= 4
          OBVIOUS
        <5>2. PICK z \in Nat : z = m + 21
          BY <5>1
        <5>3. l = z /\ z >= 25
          BY <4>6, <4>7, <5>1, <5>2
        <5> QED BY <1>3, <1>7, <1>12, <5>3
      <4>9. ASSUME NEW k \in 1..25 PROVE b[k] = f[k]
        <5>1. k \in 1..64 /\ k <= n /\ k \in 1..l
          BY <4>8
        <5>2. b[k] = r[k]
          BY <2>2, <5>1
        <5> QED BY <4>7, <5>1, <5>2
      <4>10. Holds(b, uid)
        BY <4>3, <4>5, <4>9, ReplyHolds
      <4> QED BY <3>4, <4>2, <4>10
    <3> QED BY <1>2, <1>4, <1>8, <1>12, <3>1, <3>3, <3>4 DEF ReaderInv, Asked, CmdIs
  <2> QED BY <2>1, <2>4, <2>5 DEF ReaderInv, Blank, Asked
<1> QED BY <1>11, <1>12

-----------------------------------------------------------------------------
\* Every step keeps the invariant.
LEMMA ReaderNext ==
  ASSUME ReaderInv, [Next]_vars
  PROVE  ReaderInv'
<1>1. CASE Start
  BY <1>1, StartStep
<1>2. CASE Write
  BY <1>2, WriteStep
<1>3. CASE Read
  BY <1>3, ReadStep
<1>4. CASE Show
  BY <1>4, ShowStep
<1>5. CASE Waiting
  BY <1>5, WaitingStep
<1>6. CASE ChipFinds
  BY <1>6, ChipFindsStep
<1>7. CASE Send
  BY <1>7, SendStep
<1>8. CASE ChipFails
  BY <1>8, ChipFailsStep
<1>9. CASE CardMoves
  BY <1>9, CardMovesStep
<1>10. CASE UNCHANGED vars
  BY <1>10, ReaderStutter
<1> QED BY <1>1, <1>2, <1>3, <1>4, <1>5, <1>6, <1>7, <1>8, <1>9, <1>10 DEF Next, Reader

\* The invariant holds throughout.
THEOREM ReaderInvariant == Spec => []ReaderInv
<1>1. Init => ReaderInv
  BY ReaderInit
<1>2. ReaderInv /\ [Next]_vars => ReaderInv'
  BY ReaderNext
<1> QED BY <1>1, <1>2, PTL DEF Spec

\* TypeOK: every variable keeps its type, the line never holds more than it has
\* room for, and main never runs off its script.
THEOREM ReaderTypes == Spec => []TypeOK
<1>1. ReaderInv => TypeOK
  BY DEF ReaderInv
<1> QED BY <1>1, ReaderInvariant, PTL

\* A buffer that holds a UID shows it.
LEMMA HoldsShows ==
  ASSUME TypeOK, NEW uid \in Seq(Byte), NEW m \in {4, 7}, Len(uid) = m, Holds(buffer, uid)
  PROVE  Shows(uid) /\ 17 + Length <= 64
<1>1. buffer[10] = m + 8 /\ \A k \in 1..6 : k <= m => buffer[19 + k] = uid[k]
  BY DEF Holds
<1>2. PICK L \in Nat : L = m + 6
  OBVIOUS
<1>3. Length - 2 = L /\ 17 + Length <= 64
  BY <1>1, <1>2 DEF Length
<1>4. PICK u : u = Uid
  OBVIOUS
<1>5. u = [i \in 1..L |-> ByteAt(buffer, 18 + i, 0)]
  BY <1>3, <1>4 DEF Uid
<1>6. buffer \in [1..64 -> Byte] /\ Len(buffer) = 64
  <2>1. buffer \in [1..64 -> Byte]
    BY DEF TypeOK
  <2>2. PICK n \in Nat : n = 64
    OBVIOUS
  <2>3. buffer \in Seq(Byte) /\ DOMAIN buffer = 1..n
    BY <2>1, <2>2, SeqDef
  <2>4. Len(buffer) = n
    BY <2>3, LenProperties
  <2> QED BY <2>1, <2>2, <2>4
<1>7. ASSUME NEW i \in 1..L PROVE u[i] \in Byte
  <2>1. u[i] = IF 18 + i < 64 THEN buffer[18 + i + 1] ELSE 0
    BY <1>5, <1>6 DEF ByteAt
  <2>2. 0 \in Byte
    BY DEF Byte
  <2>3. 18 + i < 64 => 18 + i + 1 \in 1..64
    OBVIOUS
  <2> QED BY <1>6, <2>1, <2>2, <2>3
<1>8. u \in Seq(Byte) /\ Len(u) = L
  <2>1. u \in [1..L -> Byte]
    BY <1>5, <1>7
  <2>2. u \in Seq(Byte) /\ DOMAIN u = 1..L
    BY <2>1, SeqDef
  <2> QED BY <2>2, LenProperties
<1>9. ASSUME NEW k \in 1..6, k <= m PROVE u[k] = uid[k]
  <2>1. m \in Nat /\ k \in 1..L /\ 18 + k < 64 /\ 18 + k + 1 = 19 + k
    BY <1>2, <1>9
  <2>2. u[k] = buffer[19 + k]
    BY <1>5, <1>6, <2>1 DEF ByteAt
  <2> QED BY <1>1, <1>9, <2>2
<1>10. PICK n \in Nat : n = Min({6, Len(uid)}) /\ n <= 6 /\ n <= m /\ n <= L
  <2>1. m \in Nat
    OBVIOUS
  <2>2. Min({6, m}) = IF 6 <= m THEN 6 ELSE m
    BY <2>1, MinIs
  <2> QED BY <1>2, <2>1, <2>2
<1>11. PICK a : a = SubSeq(u, 1, n)
  OBVIOUS
<1>12. PICK b : b = SubSeq(uid, 1, n)
  OBVIOUS
<1>13. a \in Seq(Byte) /\ Len(a) = n /\ \A k \in 1..n : a[k] = u[k]
  <2>1. IsCut(a, SubSeq(u, n + 1, Len(u)), u, n)
    BY <1>8, <1>10, <1>11, Cut
  <2> QED BY <2>1 DEF IsCut
<1>14. b \in Seq(Byte) /\ Len(b) = n /\ \A k \in 1..n : b[k] = uid[k]
  <2>1. IsCut(b, SubSeq(uid, n + 1, Len(uid)), uid, n)
    BY <1>10, <1>12, Cut
  <2> QED BY <2>1 DEF IsCut
<1>15. ASSUME NEW k \in 1..n PROVE a[k] = b[k]
  <2>1. k \in 1..6 /\ k <= m
    BY <1>10
  <2>2. u[k] = uid[k]
    BY <1>9, <2>1
  <2> QED BY <1>13, <1>14, <2>2
<1>16. a = b
  BY <1>13, <1>14, <1>15, SeqEqual
<1> QED BY <1>3, <1>4, <1>8, <1>10, <1>11, <1>12, <1>16 DEF Shows

\* ShownInStep: a reader in step shows a card only if the chip found one for this
\* request, and then that card's UID, inside its buffer.
THEOREM ShownInStepHolds == Spec => []ShownInStep
<1>1. ReaderInv => ShownInStep
  <2>1. SUFFICES ASSUME ReaderInv, Showing, inStep
                 PROVE  found # NoCard /\ Shows(found) /\ 17 + Length <= 64
    BY DEF ShownInStep
  <2>2. found \in Cards /\ Holds(buffer, found)
    BY <2>1 DEF ReaderInv, Kept, Showing, Length
  <2>3. found \in Seq(Byte) /\ Len(found) \in {4, 7} /\ found # NoCard
    BY <2>2, CardIs
  <2> QED BY <2>1, <2>2, <2>3, HoldsShows DEF ReaderInv
<1> QED BY <1>1, ReaderInvariant, PTL
=============================================================================
