----------------------------- MODULE PN532Wire ------------------------------
(***************************************************************************)
(* One transfer of a frame over a bad wire to PN532_FrameParser: stray     *)
(* bytes before and after the frame (a status byte, padding), and bytes    *)
(* changed in between.                                                     *)
(***************************************************************************)
EXTENDS PN532Frame

CONSTANTS
  Commands,      \* the commands and answers that may be in a packet
  Strays,        \* bytes that may be in front of, behind or in a packet
  MaxLead, MaxData, MaxPad    \* bounds: bytes before, in and after the frame

\* PN532_SendCmd composes a frame in the PN532_DATABUF_MAX bytes of sDataBuf, nine of
\* them around the data.
ASSUME WireAssumption ==
  /\ Commands \subseteq Byte /\ Strays \subseteq Byte
  /\ MaxLead \in Nat /\ MaxData \in 0..(PN532_DATABUF_MAX - 9) /\ MaxPad \in Nat

VARIABLES
  wire,          \* the bytes on the wire
  frame,         \* the frame sent, << >> before it is
  packet,        \* the packet in it, << >> for an ACK or a NACK
  at,            \* where it starts
  faults         \* the positions in the frame whose byte was changed (at most one)

vars == <<wire, frame, packet, at, faults>>

Init == wire = << >> /\ frame = << >> /\ packet = << >> /\ at = 0 /\ faults = {}

Lead(b) ==
  /\ frame = << >> /\ Len(wire) < MaxLead
  /\ wire' = Append(wire, b)
  /\ UNCHANGED <<frame, packet, at, faults>>

Put(f, p) ==
  /\ frame = << >>
  /\ frame' = f
  /\ packet' = p
  /\ at' = Len(wire)
  /\ wire' = wire \o f
  /\ UNCHANGED faults

SendCommand(cmd, data) == Put(CommandFrame(cmd, data), <<cmd>> \o data)

\* The special frames end in a postamble that a short transfer leaves out.
SendSpecial(f) == Put(f, << >>) \/ Put(SubSeq(f, 1, 5), << >>)

Pad(b) ==
  /\ frame # << >> /\ Len(wire) < at + Len(frame) + MaxPad
  /\ wire' = Append(wire, b)
  /\ UNCHANGED <<frame, packet, at, faults>>

Corrupt(i, b) ==
  /\ frame # << >> /\ faults = {}
  /\ Len(wire) = at + Len(frame)
  /\ b # frame[i]
  /\ faults' = {i}
  /\ wire' = [wire EXCEPT ![at + i] = b]
  /\ UNCHANGED <<frame, packet, at>>

Next ==
  \/ \E b \in Strays : Lead(b) \/ Pad(b)
  \/ \E c \in Commands, n \in 0..MaxData :
       \E data \in [1..n -> Strays] : SendCommand(c, data)
  \/ \E f \in {PN532_ACK_FRAME, NackFrame} : SendSpecial(f)
  \/ \E i \in 1..Len(frame) :
       \E b \in Strays \cup {(frame[i] + d) % 256 : d \in {1, 2, 128}} :
         Corrupt(i, b)

Spec == Init /\ [][Next]_vars

-----------------------------------------------------------------------------
(***************************************************************************)
(* Properties.                                                             *)
(***************************************************************************)
Parse(beyond) == FrameParser(wire, Len(wire), beyond)

Beyond == {0, 255}

\* The stray bytes in front do not make up a start code, alone or with the
\* frame's first bytes.
CleanLead == \A s \in 0..(at - 1) : ~StartAt(wire, s, 0)

\* What PN532_SendCmd composes, PN532_FrameParser understands, wherever the
\* frame starts and whatever follows it, in the buffer or behind it.
CommandUnderstood ==
  \A x \in Beyond :
    packet # << >> /\ faults = {} /\ CleanLead
      => Parse(x) = Verdict(PN532_TFI_HOST2PN, packet)

\* A fault in the body of a command frame, from its length to its checksum, is
\* never accepted: not as that command, not as another, not as an ACK.
FaultDetected ==
  \A x \in Beyond :
    /\ packet # << >> /\ CleanLead
    /\ faults # {} /\ faults \subseteq 4..(Len(frame) - 1)
    => Parse(x).res \in {PN532_INVALID_FRAME, PN532_NOT_SUPPORT}

\* With no fault in the start code of a command, the verdict depends on the bytes
\* read alone, although the parser trusts the length it finds.
VerdictFromFrame ==
  packet # << >> /\ CleanLead /\ faults \cap 1..3 = {} => Parse(0) = Parse(255)

\* pn532.h:18-20: 5 is the minimum length, as the postamble can be ignored.
PostambleIgnored ==
  frame = SubSeq(PN532_ACK_FRAME, 1, 5) /\ faults = {} /\ CleanLead
    => Parse(0).res = PN532_TFI_ACK
=============================================================================
