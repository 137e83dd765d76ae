----------------------------- MODULE PN532Frame -----------------------------
(***************************************************************************)
(* The frames of the PN532 NFC chip as src/src/pn532-drv.c composes        *)
(* (PN532_SendCmd) and parses them (PN532_FrameParser), byte by byte,      *)
(* because checksums and lengths are what the parser is about.  All        *)
(* arithmetic is on uint8.                                                 *)
(***************************************************************************)
EXTENDS Naturals, Sequences, FiniteSetsExt

Byte == 0..255

PN532_FRAME_LEN_MIN == 5
PN532_DATABUF_MAX   == 32
PN532_TFI_HOST2PN   == 212     \* 0xD4
PN532_TFI_PN2HOST   == 213     \* 0xD5
PN532_TFI_ACK       == 0
PN532_TFI_NACK      == 255
PN532_NOT_SUPPORT   == 253
PN532_INVALID_FRAME == 250

StartCode       == <<0, 0, 255>>
PN532_ACK_FRAME == StartCode \o <<0, 255, 0>>
NackFrame       == StartCode \o <<255, 0, 0>>

\* ~b + 1: the byte that makes b a multiple of 256.
Complement(b) == (256 - b) % 256

\* The running uint8 sum of the frame identifier and the packet.
DataSum(tfi, packet) ==
  LET sum[n \in 0..Len(packet)] ==
        IF n = 0 THEN tfi ELSE (sum[n - 1] + packet[n]) % 256
  IN  sum[Len(packet)]

\* Wrong on purpose (the mutants named in PROJECT.json): the length leaves out
\* the frame identifier.
InfoFrameShort(tfi, packet) ==
  LET len == Len(packet)
  IN  <<0, 0, 255, len, Complement(len), tfi>> \o packet
        \o <<Complement(DataSum(tfi, packet)), 0>>

\* PD0 of a frame is the command, or the command + 1 in an answer.
InfoFrame(tfi, packet) ==
  LET len == (Len(packet) + 1) % 256
  IN  <<0, 0, 255, len, Complement(len), tfi>> \o packet
        \o <<Complement(DataSum(tfi, packet)), 0>>

\* The bytes PN532_SendCmd writes.
CommandFrame(cmd, data) == InfoFrame(PN532_TFI_HOST2PN, <<cmd>> \o data)

-----------------------------------------------------------------------------
\* p[k] of a pointer s bytes into a buffer.  The parser does not look at frmLen
\* again once it has found a start: it may read past the buffer, whose
\* neighbours hold the byte `beyond`.
ByteAt(buf, i, beyond) == IF i < Len(buf) THEN buf[i + 1] ELSE beyond

StartAt(buf, s, beyond) ==
  \A k \in 0..2 : ByteAt(buf, s + k, beyond) = StartCode[k + 1]

\* Wrong on purpose: the search goes one position further.
SearchedOneMore(frmLen) == {s \in 0..frmLen : s + PN532_FRAME_LEN_MIN <= frmLen}

\* The positions the search of PN532_FrameParser visits.
Searched(frmLen) == {s \in 0..frmLen : s + PN532_FRAME_LEN_MIN < frmLen}

\* What the parser returns and stores: the packet is <<>> where it stores none.
Verdict(res, packet) == [res |-> res, packet |-> packet]
Rejected == Verdict(PN532_INVALID_FRAME, << >>)

\* Wrong on purpose: the data checksum, or the length checksum, is not looked at.
ParseAtNoDCS(buf, s, beyond) ==
  LET P(k)   == ByteAt(buf, s + k, beyond)
      packet == [i \in 1..(P(3) - 1) |-> P(5 + i)]
  IN  CASE P(3) = 0   /\ P(4) = 255 -> Verdict(PN532_TFI_ACK, << >>)
        [] P(3) = 255 /\ P(4) = 0   -> Verdict(PN532_TFI_NACK, << >>)
        [] OTHER -> IF P(3) \in 1..PN532_DATABUF_MAX /\ Complement(P(3)) = P(4)
                    THEN Verdict(P(5), packet) ELSE Rejected

ParseAtNoLCS(buf, s, beyond) ==
  LET P(k)   == ByteAt(buf, s + k, beyond)
      packet == [i \in 1..(P(3) - 1) |-> P(5 + i)]
  IN  IF /\ P(3) \in 1..PN532_DATABUF_MAX
         /\ Complement(DataSum(P(5), packet)) = P(5 + P(3))
      THEN Verdict(P(5), packet) ELSE Rejected

ParseAt(buf, s, beyond) ==
  LET P(k)   == ByteAt(buf, s + k, beyond)
      len    == P(3)
      packet == [i \in 1..(len - 1) |-> P(5 + i)]
  IN  CASE P(3) = 0   /\ P(4) = 255 -> Verdict(PN532_TFI_ACK, << >>)
        [] P(3) = 255 /\ P(4) = 0   -> Verdict(PN532_TFI_NACK, << >>)
        [] P(3) = 255 /\ P(4) = 255 -> Verdict(PN532_NOT_SUPPORT, << >>)
        [] OTHER ->
             IF /\ len \in 1..PN532_DATABUF_MAX
                /\ Complement(len) = P(4)
                /\ Complement(DataSum(P(5), packet)) = P(5 + len)
             THEN Verdict(P(5), packet) ELSE Rejected

FrameParser(buf, frmLen, beyond) ==
  LET starts == {s \in Searched(frmLen) : StartAt(buf, s, beyond)}
  IN  IF starts = {} THEN Rejected ELSE ParseAt(buf, Min(starts), beyond)
=============================================================================
