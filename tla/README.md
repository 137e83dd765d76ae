# A verification development of mua-ow-hello

The repository is a package of small OpenWrt programs for the MUA board: a key
daemon on ubus with its subscriber and its caller, the ubus example server and
client, a driver for the PN532 NFC chip over I2C and a card reader that talks to the
same chip over a serial line, a WAV recorder and player over ALSA, a logger, and a few
bring-up scripts. This directory holds TLA+ modules of
the parts that have state, the TLC runs that check them on small instances, and
the TLAPS proofs of what matters most about them for every instance.

`tlc -config <X>.cfg <MC module>` repeats a run (`PROJECT.json` lists which
configuration goes with which module), `tlapm <X>Proofs.tla` repeats the proofs.
`PROJECT.json` also maps every definition to the lines it translates, names every
hazard the properties are aimed at, and for each property a *mutant*: a definition
marked "Wrong on purpose" in the modules, which takes the place of the original
and makes TLC find the property violated. No specification uses a mutant.

## 1. Inventory

| Part | Source | State | Operations | Talks to |
|---|---|---|---|---|
| mkeyd | `mkeyd.c` | the blob buffer `b`, `gpio`, `ctx`, `isr_count`, `notify_count` | `status`, `get` (each with a test notification), `mkeyd_isr`, start, stop | ubus; mraa's interrupt thread; the logger |
| ks | `subscriber.c` | `obj_id`, its subscription | look up, subscribe, notification, removal | mkeyd, over ubus |
| caller | `caller.c` | the object id, the loop counter | look up, ten rounds of `status` and `get`, each a synchronous call with a timeout of 3 s | mkeyd, over ubus |
| userver | `server.c` | one `hello_request` a call of `hello`, its subscriptions, `b` | `hello` (deferred, then a line a second into a pipe), `watch`, `count` | uclient, over ubus and a pipe |
| uclient | `client.c` | `count_to`, `count_progression`, two timers, the stream on the pipe | a thousand notifications a second, `count` every two seconds, one `hello`, a line per read | userver |
| count | `count.c` | none | `count_to_number` in two passes | both |
| log | `log.c` | level, channels, initialised, identity; the C library's syslog connection | `log_output`, `log_set_level`, `log_set_channel`, `log_open`, `log_close` | mkeyd, log-test |
| pn532-drv | `pn532-drv.c` | `sDataBuf`, the I2C handle | compose, parse, `SendCmd`, `ReadAck`, `ReadRsp`, two commands, the loop | the chip |
| card reader | `function_key_uart.c` | `buffer`, its place among the exchanges | a command, a sleep and a read, eight times, the last two for ever; show a card | the chip, over a serial line |
| lrecord, lplay | `lrecord.c`, `lplay.c`, `sndwav_common.c`, `wav_parser.c` | `data_buf`, `rest`, `load`, `written`, the file | write or read the header, record a chunk, load and play a chunk | the sound card, the file |
| scripts, examples | `function_key.c`, `9160.c`, `pn532*.c*`, `blobmsg-example.c`, `ulog-test.c` | none that outlives a call | a list of calls, printed | the hardware |

What is hard in each, and what makes it correct:

* **mkeyd** has two threads and no lock. The uloop thread and mraa's interrupt
  thread compose their messages in one buffer, by calls of libubox that read its
  length, set it and copy behind it: two of them at once leave torn fields and lengths
  that are none. The level is read after the edge; edges coalesce, those that come while
  `mkeyd_isr` runs are cleared unseen, and a reading that fails is reported as a press.
  Correct would be: a reply is its own message; what the subscribers are told is
  wrong for no longer than until the next interrupt; every call is answered. `main`
  frees the ubus context while the other thread is alive, and no failure to initialise
  stops the daemon.
* **ks and caller** look the daemon up once, by name, and keep its id; the daemon may
  stop, and start again as another object, at any point of a call. A call may time
  out while it is served, so its answer arrives in the next one.
* **userver and uclient** are single-threaded, each waits for the other: the client in
  synchronous calls, the server in a blocking write to a pipe the client reads only
  between its calls. Timeouts are all that keeps this from being a deadlock. Clients
  exit while lines are written for them, and one client's full pipe holds up every
  other client.
* **log** is initialised lazily and reconfigured by any sequence of calls over a
  connection that belongs to the process.
* **pn532-drv** polls: it reads the ACK and the answer without waiting for them,
  through one buffer that still holds the command, from a chip that may still hold
  an earlier answer. It reads the ACK in exactly as many bytes as an ACK has, though over
  I2C the chip begins each read with a status byte. Everything is uint8: lengths,
  checksums, a read's -1.
* **The card reader** never looks for the start of a frame: it reads as many bytes as the
  answer should have and takes what lies at fixed places of the buffer. Whatever comes
  between two reads, or is longer than they are, puts it out of step. Correct would be:
  it shows the card that is there, and a reader out of step gets back by itself.
* **lrecord and lplay** count in bytes, frames and chunks, and every transfer may be
  partial; the buffer keeps the last chunk. The header promises the whole length before
  a byte of sound is written, over an old file if that could not be removed.

## 2. Modules

| Module | Models | Grain |
|---|---|---|
| `Mkeyd` | mkeyd, both threads | a begin and an end of each call that adds to `b` or reads it |
| `KeyReporter` | what mkeyd promises about its key | abstract: listening, owing a report, reading, reporting |
| `KeyBus` | mkeyd, ks and caller | a step per message of ubus |
| `RemoteCall` | what the caller can rely on of its calls | abstract: calls made, begun, finished, answered |
| `Count` | `count_to_number` | functions: sizes and positions of both passes |
| `Hello` | userver and its clients, with `Count` | a step per handler, call, read and write |
| `Log` | the logger | a step per function |
| `PN532Frame` | composing and parsing frames | operators on bytes |
| `PN532Wire` | one frame over a bad wire | a byte at a time around the frame |
| `PN532Driver` | the driver's loop against a chip | a step per transfer |
| `CardReader` | the UART card reader, with `PN532Frame` | a step per transfer, bytes kept as bytes |
| `SndWav` | lrecord and lplay, the header included | a step per transfer |
| `MC*` | small instances | |
| `MkeydProofs` (with the logger's), `KeyBusProofs`, `HelloProofs`, `PN532FrameProofs`, `PN532WireProofs`, `PN532DriverProofs`, `CardReaderProofs`, `SndWavProofs` | theorems and proofs | |

How state and actions correspond to the code:

* `Mkeyd`. `mem` is the message under way in `b`: its fields, or `Unknown`. An add
  (`BlobAddBegin`, `BlobAddEnd`) and a call of libubus that reads the message
  (`UbusBegin`, then `SendReply`, `MkeydNotify` or `IsrNotify`) are intervals;
  `blob_buf_init` is a step. `raced[t]` says that the other thread wrote `b` within the
  interval `t` is in, or was adding when it began. What an add leaves after a race is
  `Unknown`: torn fields, a name taken for a length, a length past the end. It stays
  unknown until the next `blob_buf_init`, and a thread that follows such lengths may
  leave the buffer and end the process (`Overrun`). `stored[t]` counts the fields a
  thread has added, `sample[t]` is the third field's reading, taken when the add begins.
  `KeyEdge` makes `irq` pending, `Interrupt` takes it, and `Arm` clears what came while
  `mkeyd_isr` ran, as mraa's wait does before it polls. A good handle's reading may fail
  (`failures`). `sent`, `reported`, `stale` and `clean` are histories; of a message both
  threads wrote, `sent` keeps the payload only if it is a reply (`Kept`), because no
  property looks at the others'. `IsrNotifyFreed` is `ubus_notify` on the freed context:
  nothing, or the end of the process.
* `KeyReporter`. The daemon is `listening` while mraa waits, `owing` from an edge until the
  line is read, `read` until the report is out, then `deaf` until mraa waits again: it
  owes nothing for the edges of that time.
* `KeyBus`. The daemon is the number of its run, `object` is what the broker has under
  the name "key". A handler is three messages (reply, test notification, status),
  and the daemon may stop between them. A message to the caller carries the number of its
  request, as libubus compares it. `heard`, `gone`, `called`, `replied` and `notified`
  are histories. The caller's numbers and these histories are what `RemoteCall` is
  about: a call is begun when its reply is sent and finished when its test notification
  is.
* `Hello`. `client[c]` is the state of client `c`: `at` is where it is, `waiting` that it is
  inside a synchronous call. `writing` is the client whose pipe the server is blocked
  on. Requests are in one queue, as ubusd delivers them. Requests that nobody waits for any
  more are dropped from the queue where serving them changes nothing (a `count`, a
  notification); a late `watch` and a late `hello` stay. The pipe is counted in lines.
* `Log`. `syslog` is the process's connection: the identity openlog set, and whether it is
  open. `openlog` without `LOG_NDELAY` opens nothing, the first `vsyslog` does;
  `openlog(NULL)` keeps the identity. Its specification has names of its own (`LogSpec`,
  `LogTypeOK`, ...) because `MkeydProofs` extends it beside `Mkeyd`, the program that
  links it.
* `PN532Frame`. `ParseAt` reads past the buffer where the code does: the bytes there
  are `beyond`, and the runs take more than one value for it.
* `PN532Wire`. Payloads are those that fit `sDataBuf`, up to 23 bytes: the frame of 24 would
  be written past it.
* `PN532Driver`. `output` holds the frames the chip has to deliver; a command drops them, or
  is answered behind them. `status` is what a read brings in front of a frame, fixed
  for a run: nothing, as the code takes for granted, or the status byte. A read at any
  time may fail, or come before the chip is ready and bring zeros; neither is bounded.
* `CardReader`. `step` is the exchange of `main`, in the order of the source; the loop is the
  last two again. `rx` is what has come over the line and not been read; `sending` the
  rest of an answer, which arrives whole or in two pieces, at any time. The UID shown
  is what lies from `buffer[19]` on, for `buffer[9] - 2` bytes, as in the code.
* `SndWav`. A file is its header's three parts, the last maybe cut, and its sound. A header
  that is written over an old one in part is torn at a byte (`Torn`): a number then has
  some bytes of the new value and some of the old. Bytes of sound are numbered in the
  order the card delivers them, so a byte lost, repeated, shifted or left over from an
  earlier chunk is visible; 0 is silence, `Junk` what `malloc` left. A read may fail
  anywhere, at the end of the file too. `kept` is what an old file had when it was
  opened again.

Every external part (mraa, libubus and ubusd, the C library, the pipe, the chip, the
card, the file system) is modelled from how the code uses it, is marked so in the
modules and in the map, and may fail wherever the code has a branch for it or lacks
one.

## 3. Runs

| Run | Instance | Checks |
|---|---|---|
| `mkeyd` | 2 edges, 1 failed reading, 1 call | `TypeOK`, `CleanPayloads`, `NotifyRepeatsReply`, `KeyReportCurrent`, `RequestAnswered`, `ImplementsReporter` |
| `mkeyd_documented` | 1 edge, no failed reading, 1 call | `ReplyDocumented`, **violated** |
| `log` | 2 identities, 3 channels, 3 levels | `LogTypeOK`, `SyslogReady`, `OneIdentity` |
| `log_closes` | the same | `ClosedHoldsNothing`, **violated** |
| `pn532_wire` | 2 commands, up to 2 stray bytes before, in and after, 1 changed byte | `CommandUnderstood`, `FaultDetected`, `VerdictFromFrame` |
| `pn532_wire_min` | the same | `PostambleIgnored`, **violated** |
| `pn532_driver` | with and without a status byte, 4 frames in the chip, 2 versions, 3 lists of targets | `TypeOK`, `UnheardBehindStatus`, `OwnAnswer` |
| `key_bus` | 2 runs of the daemon, 1 key, 2 rounds | `TypeOK`, `NotifiedBeforeStatus`, `OneRunKnown`, `RemovalTold`, `CallerTerminates`, `ImplementsCalls` |
| `hello` | 2 clients one after the other, which may end, as the server may; a pipe and a stream of 2 lines, 3 lines a client, 1 notification a tick | `TypeOK`, `LinesInOrder`, `CountInRange`, `HelloCompletes`, `WriteUnblocks`, `ClientReturns` |
| `hello_together` | 2 clients at once, none ends; a pipe and a stream of 1 line, 2 lines a client | `LinesInOrder`, `HelloCompletes` |
| `card_reader` | 2 cards, a line of 64 bytes, answers cut after 14 | `TypeOK`, `ShownInStep`, `FoundIsShown`, `KeepsPolling`, `BackInStep` |
| `snd_wav` | periods of 1 and 2 frames, recordings of 1 and 3 frames, 25 other files, 2 faults | `TypeOK`, `RecordedInOrder`, `PlayedInOrder`, `PlayedAll`, `RoundTrip`, `PlaybackEnds` |

Each property's comment in its module says what it means. What the bounds are for:

* An edge at any point makes an interrupt write into the reply, the test notification or
  what either left in `b`; a second edge coalesces with one that is not taken yet,
  is lost while the first is reported, or makes a second interrupt that corrects a lost
  edge or a failed reading. More calls and edges repeat these states; the theorems
  hold for any number.
* A second run of the daemon is the first a client can confuse with the one it knows;
  a second round is the first in which an answer can come late.
* A second client is the first whose pipe could be mistaken for another's. A pipe of two
  lines fills on the third while the client is inside a call, so the write blocks. The
  counts 20, 30, 40 turn at both ends and pass the newline after 30. `COUNT_TO_MIN`,
  `COUNT_TO_MAX`, `PROGRESSION` and the start are scaled down; the assumption
  `HelloAssumption` states what their values in `client.c` have in common with the
  scaled ones. `Together` says how many clients may run at once and `Ends` which
  programs may end; the two runs divide what is too much for one: programs that end at
  any point, and two clients that hold each other up.
* The stray bytes 0, 1 and 255 are those the start code, the ACK and the NACK are made
  of; two in front are enough to imitate the start code's first bytes. A changed byte
  becomes any of these, or one, two or 128 more than it was: a length two too long is the
  first that takes the parser's checksum behind an unpadded buffer.
* Four frames in the chip: the ACK and the answer of an exchange given up, and those of the
  next. Failed transfers and reads that come too early are not bounded.
* A card of the common four-byte UID, whose answer is with the acknowledgement exactly
  the 25 bytes read, and one of seven bytes, whose answer is three bytes longer. The
  line holds more than one round of the loop leaves in it. An answer cut after 14
  bytes is cut inside the UID.
* Files of 0, 4, 7 and 9 bytes under headers that promise 0, 3, 8 and 9: whole and
  partial chunks, whole and partial frames, more and less than promised; frames of one,
  two and four bytes; headers that are cut, not WAV, not PCM, of a sample size lplay refuses, or
  with a length of two bytes, of which a torn write leaves one. Recordings of a
  frame and of three end with a full or a partial chunk under periods of one and two frames, and each card chooses its own period. Two faults: one
  in recording and one in playing.

`CHECK_DEADLOCK FALSE` is set where the programs end, or where a bound ends them; the
driver's and the logger's loops never end, and deadlock is checked there.

**What the violated runs show.** They are disagreements between the code and what
the repository says of it:

1. `mkeyd_documented`. A key interrupt between two calls of a reply on `b` resets the
   buffer under it. The caller gets the notification's fields under the reply, or a
   reply without fields, though the comments at `mkeyd.c:25-29` and `mkeyd.c:64-68` show
   exactly three. No two calls on `b` overlap in the run's trace, so no torn byte is
   needed. `CleanPayloads` says that this race is the only way a message can be damaged.
2. `log_closes`. `log_set_channel` stores the new channels and *then* calls
   `log_close`, which looks at the channels to decide whether to call `closelog`: a
   logger that has written to syslog and is moved away from it never closes the
   connection, even at `log_close` (`log-test.c:39`: "close log before exit").
3. `pn532_wire_min`. `PN532_FRAME_LEN_MIN` was lowered to 5 because the postamble
   may be missing (`pn532.h:18-20`), but the search compares positions with
   `frmLen - PN532_FRAME_LEN_MIN` and of a frame of exactly that length it looks at
   none. For the same reason an ACK read in six bytes, of which a status byte is the
   first, is never found: `UnheardBehindStatus` says that the driver then never succeeds.

**Fairness.** `Mkeyd`: both threads are scheduled (`WF` of each thread's steps); edges,
calls and the end of the daemon are not owed, and `RequestAnswered` exempts a daemon
that the race on `b` has killed. `KeyBus`: ks and caller are scheduled, and
a timeout passes; nothing is assumed of the daemon, not even that it answers, because
every call of the caller has a timeout. `Hello`: weak fairness for the programs inside a
call; strong fairness for what `uloop` polls, since it looks at every file descriptor and every
timer on each turn, so an event that is ready again and again is handled although
other events disable it in between. No start, no stop and no line is owed.
`CardReader`: the program runs; the chip need not answer (`KeepsPolling` and `BackInStep`
except one that has fallen silent: the read has no time limit) and cards come and go as
they like.
`PN532Driver` states none: how late an answer is the chip alone decides.
`SndWav`: the program runs and a card that is not suspended delivers and takes frames; a
suspended card is never resumed by the code, and `PlaybackEnds` exempts it.
`KeyReporter`: a daemon that has started listens again and pays its debts, which
`Mkeyd`'s fairness of the interrupt thread implements. `RemoteCall`: an open call returns, which `KeyBus`'s fairness of the caller,
whose timeout is always possible, implements.

## 4. Proofs

`tlapm` checks every leaf; nothing is assumed but the named assumptions on the
constants. The bounds (`MaxEdges`, `MaxRequests`, `MaxLead`, ...) are arbitrary
numbers in the proofs, so the results hold for every instance.

**`MkeydProofs`.**
* `TypesHold`. `TypeOK` is not inductive: that a thread adds at most three fields needs to
  know where it is. `Shape` adds that a thread which still adds has stored fewer than
  three and one that sends all three, and that the interrupt thread lives only in a
  started daemon. `TypeInv` is both; one step per action. After a race what an add
  leaves is `Unknown` (`AddType`); the theorem says nothing of its bytes.
* `CleanPayloadsHold`. `CleanInv` says what a *clean* thread owns (`Owned`): the message in
  `b` is the fields it has stored, in order, and no interval of its has raced. An add by
  the owner leaves it one more (`AddOwned`); every write of the other thread takes the
  ownership away. With the third field in, the message is the documented one
  (`ThreeFields`).
* `KeyReportHolds`. `ReportInv`: unless `stale`, whatever word the interrupt thread carries
  towards its notification, and the one it last reported when it waits, is the present
  level's. An edge between the reading and the next wait makes it stale, as does a
  reading that failed; the next reading that succeeds ends that.
* `NotifyRepeatsReplyHolds`. `RepeatInv` counts a call twice: `requests` leads
  `notify_count` by one exactly while a handler runs, and while the notification is due
  the reply sent is the message still in `b`, unless the interrupt thread wrote it.
* `ReporterRefined`. From `TypeInv`, each action is mapped to a step of `KeyReporter` or to a
  stutter (`ReporterStutters`): the safety part of `ImplementsReporter`. What the
  handlers and the races do to `b` are stutters.

**`KeyBusProofs`.** For any number of runs, keys and rounds (`Rounds > 0`: the caller's loop
is entered, ten times in the code). None of the four results is inductive; they rest on
`IInv`, which says what may be on its way at once:
* `TypeInv`. `Made` ties the number of requests to the caller's place in its loop,
  which bounds `seq` by two a round.
* `ServeInv`. A call in the daemon's queue is newer than every call it answered, the queue
  is in order, and the call it serves is the newest of those it answered; queue and
  service exist only in the run the caller knows.
* `KsInv`. ks is subscribed only to the object it found; a removal is the last message
  on its way, and after it there is no subscription.
* `AnswerInv`. Data on its way is of a request that was answered; a status "ok" is of a
  request whose notification was sent and, for the call under way, comes behind its
  data (`Seen`).

From these, `BusTypes`, `OneRunKnownHolds` and `NotifiedBeforeStatusHolds` are invariants,
and `CallsRefined` maps each action to a step of `RemoteCall` or to a stutter (the safety
part of `ImplementsCalls`): that no call begins twice or out of order is `ServeInv`, that
no answer is taken for another call's is `AnswerInv`.

**The logger, in `MkeydProofs`.** `LogTypes` and `SyslogReadyHolds`, from
`LogInv == LogTypeOK /\ SyslogReady`, which is inductive. `DefaultsReady` is the lemma about
`log_defaults` that every action but two rests on. `SyslogReady` is about openlog having been
called, not about an open connection. `OneIdentityHolds`: only `log_output`
writes to both channels, and in the state it leaves `SyslogReady` makes the connection's
identity the one on the streams.

**`PN532FrameProofs`, `PN532WireProofs`.** For every command, every payload that fits
`sDataBuf`, every position and everything around the frame:
* `CommandUnderstoodHolds`: every frame `PN532_SendCmd` composes is parsed to its packet.
* `FaultDetectedHolds`: with one byte of its body changed it is never accepted. A changed
  length does not go with the length checksum (`LengthFault`); and a sum modulo 256 in which
  one term differs differs (`SumDiffers`, by induction from the place of the change on).
* `VerdictFromFrameHolds`: unless the fault is in the start code, the verdict does not
  depend on what lies behind the bytes read: of the lengths the parser would follow out of
  the buffer, none is accepted.

`FrameBytes` gives a frame's bytes one by one, `SumsFollow` and `DataSumIs` the sum as a
function of them, and `WireInv` says where in the wire the frame is and which of its bytes
is not its own.

**`PN532DriverProofs`.** `OwnAnswerHolds`, for all versions and lists of targets that a
frame can carry (`DriverAssumption`: at most 253 bytes), with and without a status byte and
however many transfers fail or come too early. It says that a success comes from an
answer to a command of the same kind; an old answer to the same command is one, as nothing
in the protocol tells it from the new one. The invariant `DriverInv` says that the chip has
only whole frames to deliver, that a driver waiting for an ACK has its own command at the
start of `sDataBuf` (`CommandAtStart`), and that none waits for an answer behind a status
byte. `CommandAtStart` is needed because `PN532_ReadAck` passes a failed read's -1 on as a
length of 255: the parser then judges the old contents, finds a command (`SendStep`), and a
command is not an ACK (`ParsedHead`). `ReadFrame` says what is made of a frame from the chip
that a read has cut to 6 bytes or padded to 32: only an ACK is taken for an ACK and only an
answer for an answer; `AcceptedPacket`, that the answer's code and the five bytes of a
version leave no room for another answer's. No checksum's value is needed: nothing is
accepted because of it. `UnheardHolds` is the other half: behind a status byte the third of
the six bytes is not the start code's (`FrameHead`), so nothing is found (`NoStart`) and
nothing succeeds. `DriverTypes` adds to `DriverInv` that what is stored as the version came
from a chip as its version (`StoredNext`, from `OwnAnswer`'s step) and that the buffer stays
bytes, sums included.

**`HelloProofs`.** For any number of clients and lines, any sizes of pipe and
stream, and any counts that fit (`HelloAssumption`). `HelloInv` is per client, so a step of
one client or of the server for it leaves the others' parts alone:
* `Call`. A client is in one synchronous call at most, and its request or the answer
  is on its way, never both. Why a type invariant needs this: the state a reply leads to is
  only a state of the client if the reply is to the call it is in. A request that is taken
  out of the queue, or dropped from its middle, spoils none of this (`Part`,
  `OneOfEachPart`).
* `HelloQueue`. A client says hello once, so its pipe has one writer.
* `Lines`. The lines read and not printed, then those in the pipe, are those from the last
  printed to the last written, in order: `LinesInOrderHolds`.
* `InSteps`. The count is a whole number of steps away from each of its ends. The code
  compares before it steps: a count less than a step from an end would pass it.

`CountInRangeHolds` says, besides the range, that `count_to_number` writes nothing behind
what it allocated for the client's count. `CountFits` shows it of *every* count whose size
does not wrap (at most eleven characters a number), by induction over both passes
(`PassesAgree`, `PositionsGrow`), with the digits of every number (`PrintedDigits`).

**`CardReaderProofs`.** `ReaderTypes` and `ShownInStepHolds`, for any cards of four- or
seven-byte UIDs, any line that keeps the 64 bytes main asks for at once, and answers cut
anywhere and as often as one likes. `ReaderInv` is what being in step means at each place of
`main`: the buffer is clear before the answer to readuid is read (`Blank`); while that
answer is awaited, what has come and what is still being sent are together the
acknowledgement and the answer about the card the chip found, or the acknowledgement alone
(`Asked`); and in the loop the buffer has no length, or that card's UID where main looks for
it (`Kept`). `ReplyIs` computes where that is from the bytes of both frames. `Blank` is
needed because a read of an acknowledgement alone fills six bytes, and main takes the length
from the tenth.

**`SndWavProofs`.** `RecordedInOrderHolds`, `PlayedInOrderHolds`, `PlayedAllHolds`,
`RoundTripHolds` and `SndWavTypes`, for any periods and recording lengths, any file to play
or to record over, and any split of the transfers. Of `SndInv`:
* `Recording`. The file is what was taken up to `pos` and what an old file had behind it
  (`Laid`); between two chunks nothing taken is missing from the file, and within one the
  buffer has exactly what is.
* `Complete`. A recording that has nothing left to record is at least what its header
  promises, and that much of it is the card's sound: what `RoundTrip` joins to `Playing`.
* `Playing`. `written` is whole frames, all of them the file's and already played; in a load
  the buffer has the next `load` bytes of the file; in a write the chunk is full or ends the
  sound, and behind the sound it is silence, not what an earlier chunk left.
The header is kept as parts, and a write of it that stops in one leaves the parts before it,
the torn one and what an old file had (`TornHead`). Torn
at any byte, a part is still a part: its numbers are mixed from the new bytes and the old
(`MixNat`, `TornFmt`, `TornChunk`).

**Induction over data.** The library's induction theorems cannot be instantiated here, so
`Induction` is proved from the least element of a set of numbers (`Least`, from
`WFMin` and `NatLessThanWellFounded`, which take no operator), stated about a *set*: the
set of numbers for which the fact holds. The same gives the existence of a recursive
function's values (`Recursion`, `SumExists`, `DigitsExist`). `Kept` (`Hello`) and the sums
of `PN532Frame` are written so that this applies to them.

**Only model-checked.** Liveness under fairness and ENABLED are out of the prover's reach:
`RequestAnswered`, the liveness parts of `ImplementsReporter` and `ImplementsCalls`,
`RemovalTold`, `CallerTerminates`, `HelloCompletes`, `WriteUnblocks`,
`ClientReturns`, `FoundIsShown`, `KeepsPolling`, `BackInStep`, `PlaybackEnds`. Every safety
property that a passing run checks is a theorem; of the two refinements, the
theorems are the safety part.

## 5. Not modelled

* Of `function_key_uart.c`: the two commands it defines and never sends, `uart2`, which it
  only opens, and what it prints of the first exchanges. Two things the model shows and
  no property asks for: a card that arrives between the loop's reads leaves a part of its
  answer in the line, and the reader stays shifted, showing nothing of the card or
  what lies in the wrong place, until the card goes (`BackInStep`); and the length it
  prints (`buffer[9] - 2` bytes from the UID on) is the frame's and not the UID's, so
  bytes behind the UID are printed with it (`ShownInStep` speaks of the UID's own).
* `function_key.c`, `9160.c`, `lsm6ds3.h`: bring-up scripts without state.
* `pn532.cpp`, `pn532-writeurl.cxx`: examples of the UPM library, which is not here.
* `blobmsg-example.c`, `ulog-test.c`: examples of libubox.
* `SNDWAV_SetParams`: negotiation with ALSA is one step that ends the program or chooses a
  period. The sampling rate moves no byte.
* The bytes that a race on mkeyd's `b` leaves: after it the message is `Unknown`, and the
  process may die of it. libubus's own static buffers, which both threads use
  through `ubus_notify` and `ubus_send_reply`: what a race inside the library does is
  its own.
* What the models show and no property can forbid, because the code does exactly this:
  the freed ubus context (`IsrNotifyFreed`); a ks whose lookup or subscription failed and
  hears nothing; the request of a `hello` whose `pipe` failed and is never completed;
  a suspended card, which the recorder and the player retry for ever; a driver
  that takes an old answer to the same command for the new one, and waits for none.
  Where a liveness property would fail only because of one of these, it exempts it by
  name.
* The contents of ubus messages beyond `Mkeyd`'s three fields, and formatting. With it: the
  length of the labels in `str[32]` (`mkeyd.c:103`), the dead `param` they print, the
  overruns in parsing a notification (`subscriber.c:35`, `caller.c:38`).
* `PN532_Write`, `PN532_Read`, `PN532_SendAck`, `sWaitAck`: nothing calls or reads them.
* `lrecord.c:56` has a stray `/` where a line continuation was meant and does not
  compile as committed; the model is of the program with the line joined.
* The wrap of `size` in `count_to_number` at 2^32, past which it overruns: reached at counts far
  beyond the client's, and beyond what TLC can sum. `Count` has the wrap at `Wrap`, and
  no run and no theorem is about a count that reaches it.

## 6. Plan

Done, in this order: `Mkeyd` with `KeyReporter` and its proofs; `Log` with its proofs;
`PN532Frame`, `PN532Wire` with their proof; `PN532Driver`; `KeyBus`; `Count` and `Hello`;
`SndWav`; then `CardReader`, clients together in `Hello`, headers and old files in `SndWav`,
`RemoteCall` and `KeyBusProofs`; `PN532DriverProofs`; the rest of `PN532WireProofs`, then
`HelloProofs`, `SndWavProofs` and `CardReaderProofs`.

Left in the model: `KeyBus`'s daemon refined by `Mkeyd` (its handler's three messages as
`Mkeyd` composes them). Left in the proofs: the safety arguments behind the liveness
properties, such as the measure that `PlaybackEnds` and `CallerTerminates` rest on. The
components still marked not modelled are lists of calls without state, and stay so.
