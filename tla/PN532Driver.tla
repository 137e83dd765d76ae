---------------------------- MODULE PN532Driver -----------------------------
(***************************************************************************)
(* The main loop of src/src/pn532-drv.c: every round asks the chip for its *)
(* firmware version and for the targets in its field.  An exchange is a    *)
(* command written, an ACK read and an answer read, all through one static *)
(* buffer sDataBuf, polling: nothing waits until the chip is ready.        *)
(*                                                                         *)
(* External: the chip and the bus.  A write or a read may fail; a chip     *)
(* that is not ready, as the code never waits for it to be, reads as       *)
(* zeros; a chip that gets a command before its output was fetched should  *)
(* drop the output, and may keep it.  What a read brings in front of a     *)
(* frame is the bus's: the code takes for granted that it is nothing, the  *)
(* chip itself begins every read over I2C with a status byte.              *)
(***************************************************************************)
EXTENDS PN532Frame

CONSTANTS
  Versions,      \* what a chip may answer to GetFirmwareVersion
  Targets,       \* what it may answer to InListPassiveTarget
  MaxOutput      \* bound on the frames a chip keeps to deliver

\* A frame's length, of which the identifier and the command are two, is a byte.
ASSUME DriverAssumption ==
  /\ Versions \subseteq Seq(Byte) /\ Targets \subseteq Seq(Byte)
  /\ \A d \in Versions \cup Targets : Len(d) <= 253
  /\ MaxOutput \in Nat

VARIABLES
  pc,            \* "init", "send", "ack", "rsp" or "sleep"
  cmd,           \* the exchange under way
  sDataBuf,
  result,        \* what the last exchange of each command returned
  pVer,          \* the version GetFirmwareVersion stored
  i2c,           \* mraa_i2c_init succeeded
  output,        \* external: the frames the chip has to deliver
  status,        \* external: what a read brings in front of a frame
  fetched        \* history: the frame the last read got from the chip

vars == <<pc, cmd, sDataBuf, result, pVer, i2c, output, status, fetched>>

GetFirmwareVersion  == 2       \* PN532_CMD_GETFIRMWAREVERSION
InListPassiveTarget == 74      \* PN532_CMD_INLISTPASSIVETARGET, 0x4A
Cmds == {GetFirmwareVersion, InListPassiveTarget}

PN532_GOOD        == 0
PN532_ERR         == 255
PN532_BUS_BUSY    == 254
PN532_INVALID_ACK == 251

CmdData(c) == IF c = GetFirmwareVersion THEN << >> ELSE <<1, 0>>

Answer(c, data) == InfoFrame(PN532_TFI_PN2HOST, <<c + 1>> \o data)
AnswersTo(c) ==
  {Answer(c, d) : d \in IF c = GetFirmwareVersion THEN Versions ELSE Targets}
ErrorFrame == InfoFrame(127, << >>)

\* Nothing, or the byte that says the chip is ready.
Statuses == {<< >>, <<1>>}

Zeros(n) == [i \in 1..n |-> 0]

\* The first n bytes of the buffer replaced by those of f, which the bus pads
\* with zeros.
Fill(buf, f, n) ==
  [i \in 1..Len(buf) |->
     IF i > n THEN buf[i] ELSE IF i <= Len(f) THEN f[i] ELSE 0]

Init ==
  /\ pc = "init"
  /\ cmd = GetFirmwareVersion
  /\ sDataBuf = Zeros(PN532_DATABUF_MAX)
  /\ result = [c \in Cmds |-> PN532_ERR]
  /\ pVer = << >>
  /\ i2c = FALSE
  /\ output = << >>
  /\ status \in Statuses
  /\ fetched = << >>

-----------------------------------------------------------------------------
\* Without a handle the program runs on and every transfer fails.
PN532_Init ==
  /\ pc = "init"
  /\ i2c' \in BOOLEAN
  /\ pc' = "send"
  /\ UNCHANGED <<cmd, sDataBuf, result, pVer, output, status, fetched>>

\* Wrong on purpose (the mutants named in PROJECT.json): the int8 the functions
\* keep is returned as it is.
ReturnSigned(r) ==
  /\ result' = [result EXCEPT ![cmd] = IF r > 127 THEN r - 256 ELSE r]
  /\ IF cmd = GetFirmwareVersion
     THEN cmd' = InListPassiveTarget /\ pc' = "send"
     ELSE cmd' = GetFirmwareVersion /\ pc' = "sleep"

\* An exchange ends with r, PN532_Test goes on to the other command or sleeps.
Return(r) ==
  /\ result' = [result EXCEPT ![cmd] = r]
  /\ IF cmd = GetFirmwareVersion
     THEN cmd' = InListPassiveTarget /\ pc' = "send"
     ELSE cmd' = GetFirmwareVersion /\ pc' = "sleep"

PN532_SendCmd ==
  /\ pc = "send"
  /\ LET f == CommandFrame(cmd, CmdData(cmd))
     IN  sDataBuf' = Fill(sDataBuf, f, Len(f))
  /\ \/ /\ i2c
        /\ \/ output' \in {<<PN532_ACK_FRAME, a>> : a \in AnswersTo(cmd)}
           \/ output' \in {<<NackFrame>>, <<PN532_ACK_FRAME, ErrorFrame>>}
           \/ /\ output # << >> /\ Len(output) + 2 <= MaxOutput
              /\ \E a \in AnswersTo(cmd) :
                   output' = output \o <<PN532_ACK_FRAME, a>>
        /\ pc' = "ack"
        /\ UNCHANGED <<cmd, result>>
     \/ /\ Return(PN532_BUS_BUSY)              \* mraa_i2c_write failed
        /\ UNCHANGED output
  /\ UNCHANGED <<pVer, i2c, status, fetched>>

\* One mraa_i2c_read of n bytes into `buf`: what is in the buffer after it, and
\* what it returned.
Read(buf, n, after, got) ==
  \/ /\ i2c /\ output # << >>
     /\ after = Fill(buf, status \o Head(output), n) /\ got = n
     /\ fetched' = Head(output) /\ output' = Tail(output)
  \/ /\ i2c
     /\ after = Fill(buf, << >>, n) /\ got = n       \* not ready
     /\ fetched' = << >> /\ UNCHANGED output
  \/ /\ after = buf /\ got \in {0, -1}
     /\ fetched' = << >> /\ UNCHANGED output

\* The parser is given a failed read's -1 as a uint8 length: it then looks at
\* whatever sDataBuf still holds, and behind it.
PN532_ReadAck ==
  /\ pc = "ack"
  /\ \E after \in {sDataBuf, Fill(sDataBuf, << >>, 6)}
                    \cup {Fill(sDataBuf, status \o f, 6) : f \in Range(output)},
        got \in {6, 0, -1}, x \in {0, 255} :
       /\ Read(sDataBuf, 6, after, got)
       /\ sDataBuf' = after
       /\ \E v \in {FrameParser(after, (got + 256) % 256, x)} :
          IF v.res = PN532_TFI_ACK
          THEN pc' = "rsp" /\ UNCHANGED <<cmd, result>>
          ELSE Return(PN532_INVALID_ACK)
  /\ UNCHANGED <<pVer, i2c, status>>

\* Wrong on purpose: any answer of the right size will do.
AcceptsAny(c, v) ==
  /\ v.res = PN532_TFI_PN2HOST
  /\ v.packet # << >>
  /\ c = GetFirmwareVersion => Len(v.packet) = 5

\* The answer a command accepts.
Accepts(c, v) ==
  /\ v.res = PN532_TFI_PN2HOST
  /\ v.packet # << >> /\ v.packet[1] = c + 1
  /\ c = GetFirmwareVersion => Len(v.packet) = 5

PN532_ReadRsp ==
  /\ pc = "rsp"
  /\ LET buf == Zeros(PN532_DATABUF_MAX)            \* memset
     IN  \E after \in {buf} \cup
                  {Fill(buf, status \o f, PN532_DATABUF_MAX) : f \in Range(output)},
            got \in {PN532_DATABUF_MAX, 0, -1}, x \in {0, 255} :
           /\ Read(buf, PN532_DATABUF_MAX, after, got)
           /\ sDataBuf' = after
           /\ \E v \in {FrameParser(after, (got + 256) % 256, x)} :
                  IF got <= 0 THEN Return(PN532_ERR) /\ UNCHANGED pVer
                  ELSE IF Accepts(cmd, v)
                  THEN /\ Return(PN532_GOOD)
                       /\ pVer' = IF cmd = GetFirmwareVersion
                                  THEN Tail(v.packet) ELSE pVer
                  ELSE Return(PN532_INVALID_FRAME) /\ UNCHANGED pVer
  /\ UNCHANGED <<i2c, status>>

Sleep ==
  /\ pc = "sleep"
  /\ pc' = "send"
  /\ UNCHANGED <<cmd, sDataBuf, result, pVer, i2c, output, status, fetched>>

Next == PN532_Init \/ PN532_SendCmd \/ PN532_ReadAck \/ PN532_ReadRsp \/ Sleep

Spec == Init /\ [][Next]_vars

-----------------------------------------------------------------------------
(***************************************************************************)
(* Properties.                                                             *)
(***************************************************************************)
TypeOK ==
  /\ pc \in {"init", "send", "ack", "rsp", "sleep"}
  /\ cmd \in Cmds
  /\ sDataBuf \in [1..PN532_DATABUF_MAX -> Byte]
  /\ result \in [Cmds -> Byte]
  /\ pVer \in Versions \cup {<< >>}
  /\ i2c \in BOOLEAN
  /\ status \in Statuses

AnswerIsOwn ==
  /\ pc = "ack" /\ pc' = "rsp" => fetched' = PN532_ACK_FRAME
  /\ \A c \in Cmds :
       pc = "rsp" /\ cmd = c /\ pc' # "rsp" /\ result'[c] = PN532_GOOD
       => /\ fetched' \in AnswersTo(c)
          /\ c = GetFirmwareVersion => fetched' = Answer(c, pVer')

\* An exchange reads its answer only after an ACK from the chip, and succeeds only
\* with an answer the chip gave to a command of the same kind: never with its own
\* command or an old ACK still in sDataBuf, nor with the answer to the other
\* command that an exchange given up left in the chip.  An old answer to the same
\* command passes: nothing in the protocol tells it from the new one.
OwnAnswer == [][AnswerIsOwn]_vars

\* The search for a start code stops PN532_FRAME_LEN_MIN bytes before the end of
\* what was read, so of the six bytes of an ACK it looks at the first only: behind
\* a status byte no ACK is ever found and no command succeeds.
UnheardBehindStatus ==
  status # << >> => pc # "rsp" /\ \A c \in Cmds : result[c] # PN532_GOOD
=============================================================================
