----------------------------- MODULE CardReader -----------------------------
(***************************************************************************)
(* The UART card reader, src/src/function_key_uart.c: one exchange after   *)
(* the other with a PN532 over a serial line, a command, a sleep and a     *)
(* read of as many bytes as the answer should have.  It never looks for    *)
(* the start of a frame: what it shows of a card is what lies at fixed     *)
(* places of the buffer it read last.                                      *)
(*                                                                         *)
(* External: the serial line, whose read waits for the first byte and then *)
(* brings what is there; the chip, which acknowledges every command within *)
(* the sleep after it and drops the command it was working on; cards.      *)
(* Bytes are kept as bytes: the hazard is which of them lies where.        *)
(***************************************************************************)
EXTENDS PN532Frame

CONSTANTS
  Cards,   \* the UIDs of the cards that come and go
  NoCard,  \* not a UID
  RxMax,   \* bound: bytes the line keeps for a reader that does not come, at
           \* least the 64 main asks for at once
  Pieces   \* bound: how much of an answer may be there before the rest is

ASSUME CardReaderAssumption ==
  /\ \A c \in Cards : c \in Seq(Byte) /\ Len(c) \in {4, 7}
  /\ NoCard \notin Cards /\ RxMax \in Nat /\ RxMax >= 64 /\ Pieces \subseteq Nat

VARIABLES
  pc, step,  \* where main is: a command to write, an answer to read, the loop
  buffer,    \* buffer[64]
  rx,        \* external: the bytes that have come over the line
  sending,   \* external: the rest of the answer the chip is sending
  job,       \* external: the command the chip still works on
  alive,     \* external: the chip answers
  card,      \* external: the card in the field
  inStep,    \* history: the UID was last asked for on an empty line, and no
             \* answer has been cut in two since
  found      \* history: the card the chip found since then

readerVars == <<pc, step, buffer>>
chipVars   == <<rx, sending, job, alive, found>>
vars       == <<readerVars, chipVars, card, inStep>>

-----------------------------------------------------------------------------
(***************************************************************************)
(* The exchanges of main, in order: the command, and how much it reads.    *)
(***************************************************************************)
Exchange(cmd, read) == [cmd |-> cmd, read |-> read]

\* Wrong on purpose (the mutants named in PROJECT.json): the loop reads only the
\* answer to its wakeup command and not the acknowledgement before it, or only
\* the acknowledgement of readuid.
ScriptOf(wakeup, readuid) ==
  << Exchange("wakeup", 15), Exchange("readver", 19), Exchange("samconf", 15),
     Exchange("atctive", 15), Exchange("inautopoll", 64), Exchange("readuid", 25),
     Exchange("wakeup", wakeup), Exchange("readuid", readuid) >>
ScriptNoAck   == ScriptOf(9, 25)
ScriptAckOnly == ScriptOf(15, 6)

Script ==
  << Exchange("wakeup", 15), Exchange("readver", 19), Exchange("samconf", 15),
     Exchange("atctive", 15), Exchange("inautopoll", 64), Exchange("readuid", 25),
     Exchange("wakeup", 15), Exchange("readuid", 25) >>

Again == 7   \* the first exchange of the loop

Zero == [k \in 1..64 |-> 0]

-----------------------------------------------------------------------------
(***************************************************************************)
(* The chip.                                                               *)
(***************************************************************************)
Answer(packet) == InfoFrame(PN532_TFI_PN2HOST, packet)

\* One target of 106 kbps: its number, SENS_RES, SEL_RES and its UID.
Target(uid) == <<1, 0, 4, 8, Len(uid)>> \o uid

CardAnswer(cmd, uid) ==
  IF cmd = "readuid" THEN Answer(<<75, 1>> \o Target(uid))
  ELSE Answer(<<97, 1, 16, Len(Target(uid))>> \o Target(uid))

\* What the chip sends at once, and what it goes on working on.
Response(cmd, uid) ==
  CASE cmd \in {"wakeup", "samconf"} -> {[bytes |-> Answer(<<21>>), job |-> "none"]}
    [] cmd = "readver" ->
         {[bytes |-> Answer(<<3, 50, 1, 6, 7>>), job |-> "none"]}
    [] cmd = "atctive" -> {[bytes |-> << >>, job |-> "none"],
                           [bytes |-> Answer(<<87, 1>>), job |-> "none"]}
    [] OTHER -> IF uid = NoCard THEN {[bytes |-> << >>, job |-> cmd]}
                ELSE {[bytes |-> CardAnswer(cmd, uid), job |-> "none"]}

\* The line drops what it has no room for.
Receive(bytes) ==
  rx' = SubSeq(rx \o bytes, 1, Min({RxMax, Len(rx \o bytes)}))

\* A card comes while the chip looks for one; its answer takes a while.
ChipFinds ==
  /\ alive /\ card # NoCard /\ job # "none"
  /\ sending' = CardAnswer(job, card)
  /\ job' = "none"
  /\ found' = IF job = "readuid" THEN card ELSE found
  /\ UNCHANGED <<readerVars, rx, alive, card, inStep>>

Send ==
  /\ sending # << >>
  /\ \E n \in Pieces \cup {Len(sending)} :
       /\ n <= Len(sending)
       /\ Receive(SubSeq(sending, 1, n))
       /\ sending' = SubSeq(sending, n + 1, Len(sending))
  /\ UNCHANGED <<readerVars, job, alive, found, card, inStep>>

ChipFails ==
  /\ alive
  /\ alive' = FALSE /\ sending' = << >> /\ inStep' = (inStep /\ sending = << >>)
  /\ UNCHANGED <<readerVars, rx, job, found, card>>

CardMoves ==
  /\ card' \in IF card = NoCard THEN Cards ELSE {NoCard}
  /\ UNCHANGED <<readerVars, chipVars, inStep>>

-----------------------------------------------------------------------------
(***************************************************************************)
(* The reader.                                                             *)
(***************************************************************************)
Init ==
  /\ pc = "start" /\ step = 1 /\ buffer = Zero
  /\ rx = << >> /\ sending = << >> /\ job = "none" /\ card = NoCard /\ alive = TRUE
  /\ inStep = TRUE /\ found = NoCard

\* mraa_uart_init brings both lines, or the program ends.
Start ==
  /\ pc = "start"
  /\ pc' \in {"write", "exited"}
  /\ UNCHANGED <<step, buffer, chipVars, card, inStep>>

Write ==
  /\ pc = "write"
  /\ pc' = "read"
  /\ LET cmd == Script[step].cmd
     IN  /\ inStep' = IF cmd = "readuid" THEN rx \o sending = << >> ELSE inStep
         /\ found' = IF alive /\ cmd = "readuid" THEN card ELSE NoCard
         /\ IF alive
            THEN \E r \in Response(cmd, card) :
                   Receive(sending \o PN532_ACK_FRAME \o r.bytes) /\ job' = r.job
            ELSE UNCHANGED <<rx, job>>
  /\ sending' = << >>
  /\ UNCHANGED <<step, buffer, alive, card>>

\* Wrong on purpose: what readuid brings is never looked at.
ReadOn ==
  /\ pc = "read" /\ rx # << >>
  /\ LET n == Min({Script[step].read, Len(rx)})
     IN  rx' = SubSeq(rx, n + 1, Len(rx)) /\ inStep' = (inStep /\ sending = << >>)
  /\ buffer' = Zero /\ pc' = "write" /\ step' = step + 1
  /\ UNCHANGED <<sending, job, alive, found, card>>

\* Wrong on purpose: what the loop's wakeup command is answered stays in the
\* buffer.
ReadKeeps ==
  /\ pc = "read" /\ rx # << >>
  /\ LET n == Min({Script[step].read, Len(rx)})
     IN  /\ rx' = SubSeq(rx, n + 1, Len(rx))
         /\ inStep' = (inStep /\ sending = << >>)
         /\ buffer' = IF step >= 6
                      THEN [k \in 1..64 |-> IF k <= n THEN rx[k] ELSE buffer[k]]
                      ELSE Zero
  /\ IF Script[step].cmd = "readuid"
     THEN pc' = "loop" /\ UNCHANGED step
     ELSE pc' = "write" /\ step' = step + 1
  /\ UNCHANGED <<sending, job, alive, found, card>>

\* Only the answer to readuid stays in the buffer, on top of what was there.
Read ==
  /\ pc = "read" /\ rx # << >>
  /\ LET n == Min({Script[step].read, Len(rx)})
     IN  /\ rx' = SubSeq(rx, n + 1, Len(rx))
         /\ inStep' = (inStep /\ sending = << >>)
         /\ IF Script[step].cmd = "readuid"
            THEN /\ buffer' = [k \in 1..64 |-> IF k <= n THEN rx[k] ELSE buffer[k]]
                 /\ pc' = "loop" /\ UNCHANGED step
            ELSE buffer' = Zero /\ pc' = "write" /\ step' = step + 1
  /\ UNCHANGED <<sending, job, alive, found, card>>

\* buffer[9], taken for the length, and the bytes from buffer[19] on.  What lies
\* behind the buffer is shown as 0.
Length == buffer[10]
Uid    == [i \in 1..(Length - 2) |-> ByteAt(buffer, 18 + i, 0)]

\* Wrong on purpose: a card that was shown stays in the buffer.
ShowAgain ==
  /\ pc = "loop" /\ Length # 0
  /\ UNCHANGED <<pc, step, buffer, chipVars, card, inStep>>

Show ==
  /\ pc = "loop" /\ Length # 0
  /\ buffer' = Zero
  /\ UNCHANGED <<pc, step, chipVars, card, inStep>>

Waiting ==
  /\ pc = "loop" /\ Length = 0
  /\ pc' = "write" /\ step' = Again
  /\ UNCHANGED <<buffer, chipVars, card, inStep>>

-----------------------------------------------------------------------------
Reader == Start \/ Write \/ Read \/ Show \/ Waiting

Next == Reader \/ ChipFinds \/ Send \/ ChipFails \/ CardMoves

\* The program runs; nothing is asked of cards, and a chip may fall silent.
Spec == Init /\ [][Next]_vars /\ WF_vars(Reader)

-----------------------------------------------------------------------------
(***************************************************************************)
(* Properties.                                                             *)
(***************************************************************************)
TypeOK ==
  /\ pc \in {"start", "write", "read", "loop", "exited"} /\ step \in 1..Len(Script)
  /\ buffer \in [1..64 -> Byte]
  /\ rx \in Seq(Byte) /\ Len(rx) <= RxMax /\ sending \in Seq(Byte)
  /\ job \in {"none", "readuid", "inautopoll"} /\ alive \in BOOLEAN
  /\ card \in Cards \cup {NoCard} /\ found \in Cards \cup {NoCard}
  /\ inStep \in BOOLEAN

Showing == pc = "loop" /\ Length # 0

\* What is shown is the UID, or as much of it as the 25 bytes read can hold.
Shows(uid) ==
  LET n == Min({6, Len(uid)})
  IN  Len(Uid) >= n /\ SubSeq(Uid, 1, n) = SubSeq(uid, 1, n)

\* A reader in step shows a card only if the chip has found one for this very
\* request, shows that card's UID and no other's, not an acknowledgement, the
\* answer to another command or an earlier card, and stays inside its buffer.
ShownInStep ==
  Showing /\ inStep => found # NoCard /\ Shows(found) /\ 17 + Length <= 64

Answered ==
  /\ pc = "read" /\ Script[step].cmd = "readuid"
  /\ inStep /\ sending = << >>

\* A card found while a reader in step sleeps is shown, though it may be gone by
\* then.
FoundIsShown ==
  \A c \in Cards : Answered /\ found = c ~> Showing /\ Shows(c)

\* The reader asks again and again as long as the chip answers, however much of
\* an answer each of its reads gets.
KeepsPolling ==
  []<>(pc = "write" /\ step = Again) \/ <>(~alive \/ pc = "exited")

\* A reader that lost its place, because an answer came between its reads or was
\* longer than they are, finds it again once no card comes near it.
BackInStep ==
  <>[](card = NoCard) => <>[]inStep \/ <>(~alive \/ pc = "exited")
=============================================================================
