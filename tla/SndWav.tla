------------------------------- MODULE SndWav -------------------------------
(***************************************************************************)
(* The recorder src/src/lrecord.c, the player src/src/lplay.c, and the     *)
(* transfer loops of src/src/sndwav_common.c they share: sound moves       *)
(* between a WAV file and the sound card through one buffer of a chunk,    *)
(* each call moving as much as it likes.  Here a file is recorded, maybe   *)
(* cut short, or comes from elsewhere, and is then played.                 *)
(*                                                                         *)
(* Bytes of sound are numbered in the order the card delivers them; 0 is   *)
(* silence and Junk what malloc left in the buffer.  External: the card    *)
(* and the file system.  A card that has to be waited for changes nothing  *)
(* and is not a step.                                                      *)
(***************************************************************************)
EXTENDS Integers, Sequences, FiniteSetsExt

CONSTANTS
  Periods,       \* chunk_size, the frames of a period: the card chooses
  Lengths,       \* chunk.length of the files recorded, in bytes
  Others,        \* files from elsewhere, as [head, data]
  MaxFaults      \* bound on overruns, underruns and failed reads

(***************************************************************************)
(* A file is the parts of its header, the last of them missing where it    *)
(* is cut, and its sound.  No file is an empty file to both programs.      *)
(***************************************************************************)
Riff(ok)               == [ok |-> ok]
Fmt(pcm, channels, bits) ==
  [ok |-> TRUE, pcm |-> pcm, channels |-> channels, bits |-> bits]
Chunk(length)          == [ok |-> TRUE, length |-> length]

Empty == [head |-> << >>, data |-> << >>]

WAV_P_CheckValid(h) == h[1].ok /\ h[2].ok /\ h[3].ok /\ h[2].channels \in {1, 2}

WAV_ReadHeader(h) == Len(h) = 3 /\ WAV_P_CheckValid(h)

\* SNDWAV_P_GetFormat, and snd_pcm_hw_params_set_format, which refuses UNKNOWN.
Playable(fmt) == fmt.pcm /\ fmt.bits \in {8, 16}

\* bits_per_frame / 8
BytesPerFrame(fmt) == (fmt.bits * fmt.channels) \div 8

\* SNDWAV_PrepareWAVParams
RecordFormat == Fmt(TRUE, 2, 16)
Header(n)    == <<Riff(TRUE), RecordFormat, Chunk(n)>>

\* The parts of a header, whatever was read into them: every field is unsigned.
RiffParts  == [ok : BOOLEAN]
FmtParts   == [ok : BOOLEAN, pcm : BOOLEAN, channels : Nat, bits : Nat]
ChunkParts == [ok : BOOLEAN, length : Nat]
Parts      == RiffParts \cup FmtParts \cup ChunkParts

HeadOK(h) ==
  /\ h \in Seq(Parts) /\ Len(h) \in 0..3
  /\ Len(h) > 0 => h[1] \in RiffParts
  /\ Len(h) > 1 => h[2] \in FmtParts
  /\ Len(h) > 2 => h[3] \in ChunkParts

ASSUME SndWavAssumption ==
  /\ Periods \subseteq Nat \ {0} /\ MaxFaults \in Nat
  /\ \A n \in Lengths : n \in Nat \ {0} /\ n % BytesPerFrame(RecordFormat) = 0
  /\ Others \subseteq [head : Seq(Parts), data : Seq(Nat \ {0})]
  /\ \A f \in Others : HeadOK(f.head) /\ (Len(f.head) < 3 => f.data = << >>)

Junk == -1

VARIABLES
  pc,            \* where the program that runs is
  file,          \* the file
  frameBytes,    \* bits_per_frame / 8
  chunk,         \* chunk_size
  buf,           \* data_buf
  left, data,    \* the transfer loop: frames to go, frames done
  rest,          \* SNDWAV_Record: bytes still to be recorded
  pos,           \* the program's place in the sound of the file
  load,          \* bytes in buf, then (in "transfer") frames
  written,       \* bytes played
  frame,         \* external: the next frame the card delivers
  suspended,     \* external: the card was suspended
  kept,          \* history: the sound an old file kept when it was opened
  taken,         \* history: the bytes taken from the card
  played,        \* history: the bytes given to the card
  faults         \* bounded by MaxFaults

paramVars  == <<frameBytes, chunk>>
recordVars == <<rest, frame, kept, taken>>
playVars   == <<load, written, played>>
loopVars   == <<buf, left, data>>
vars == <<pc, file, pos, paramVars, loopVars, recordVars, playVars, suspended, faults>>

ChunkBytes == chunk * frameBytes
Count      == file.head[3].length   \* chunk.length of the header read or written

Silence(n) == [k \in 1..n |-> 0]

\* The bytes of n frames of the card, from frame f on.
Frames(f, n) == [k \in 1..(n * frameBytes) |-> (f - 1) * frameBytes + k]

\* s1 with the bytes of s2 written at offset off.
Over(s1, off, s2) ==
  [k \in 1..Max({Len(s1), off + Len(s2)}) |->
     IF k - off \in 1..Len(s2) THEN s2[k - off] ELSE s1[k]]

Patch(off, s) == Over(buf, off, s)

Init ==
  /\ pc = "idle"
  /\ file \in Others \cup {Empty}
  /\ frameBytes = 0 /\ chunk = 0
  /\ buf = << >> /\ left = 0 /\ data = 0
  /\ rest = 0 /\ pos = 0 /\ load = 0 /\ written = 0
  /\ frame = 1 /\ suspended = FALSE
  /\ kept = << >> /\ taken = << >> /\ played = << >>
  /\ faults = 0

Fault == faults < MaxFaults /\ faults' = faults + 1

\* The card is set up for a format, with a period of its choice, and the buffer
\* allocated.
SetParams(fmt) ==
  /\ Playable(fmt)
  /\ frameBytes' = BytesPerFrame(fmt)
  /\ chunk' \in Periods
  /\ buf' = [k \in 1..(chunk' * frameBytes') |-> Junk]

-----------------------------------------------------------------------------
(***************************************************************************)
(* lrecord: main up to SNDWAV_Record's header, then a chunk at a time.     *)
(***************************************************************************)
\* remove() may fail, unnoticed, and the file is not truncated: the recording then
\* goes over an old one.
RecordStart ==
  /\ pc = "idle"
  /\ pc' = "header"
  /\ SetParams(RecordFormat)
  /\ rest' \in Lengths
  /\ file' \in {file, Empty} /\ kept' = file'.data
  /\ UNCHANGED <<pos, left, data, frame, taken, playVars, suspended, faults>>

\* main cannot open the file, or one of its set-up calls fails: it tries to remove
\* the file again.
RecordFails ==
  /\ pc = "idle"
  /\ pc' = "recorded"
  /\ file' \in {file, Empty} /\ kept' = file'.data
  /\ UNCHANGED <<pos, paramVars, loopVars, rest, frame, taken, playVars, suspended,
                 faults>>

\* The weights of the bytes of a number.
Weights == {1, 256, 65536, 16777216}

\* A number in little-endian order of which the bytes below weight w are written.
Mix(new, old, w) == (new % w) + (old \div w) * w

\* What a short write leaves of a part, where an old file had one: the fields up to
\* the cut new, one maybe in part, and the old ones behind it.  A flag stands for
\* fields of one right value, which are right in part with the first bytes.
Torn(new, old) ==
  {[old EXCEPT !.ok = b] : b \in {old.ok, new.ok}}
    \cup IF "bits" \in DOMAIN new
         THEN {[old EXCEPT !.ok = new.ok, !.pcm = b] : b \in {old.pcm, new.pcm}}
                \cup {[new EXCEPT !.channels = Mix(new.channels, old.channels, 256),
                                  !.bits = old.bits]}
                \cup {[new EXCEPT !.bits = Mix(new.bits, old.bits, w)] : w \in {1, 256}}
         ELSE IF "length" \in DOMAIN new
         THEN {[new EXCEPT !.length = Mix(new.length, old.length, w)] : w \in Weights}
         ELSE {}

\* WAV_WriteHeader: three writes; a short one, or the end of the program, leaves
\* what is behind it as it was.
WriteHeader ==
  /\ pc = "header"
  /\ LET new == Header(rest)  old == file.head
     IN  \/ pc' = "record" /\ file' = [file EXCEPT !.head = new]
         \/ /\ pc' = "recorded"
            /\ \E k \in 0..2 :
                 IF k >= Len(old) THEN file' = [file EXCEPT !.head = SubSeq(new, 1, k)]
                 ELSE \E part \in Torn(new[k + 1], old[k + 1]) :
                        file' = [file EXCEPT !.head =
                                   SubSeq(new, 1, k) \o <<part>>
                                     \o SubSeq(old, k + 2, Len(old))]
  /\ UNCHANGED <<pos, paramVars, loopVars, recordVars, playVars, suspended, faults>>

\* SNDWAV_ReadPcm reads a whole chunk, whatever it is asked for.
RecordChunk ==
  /\ pc = "record"
  /\ IF rest > 0
     THEN pc' = "read" /\ left' = chunk /\ data' = 0
     ELSE pc' = "recorded" /\ UNCHANGED <<left, data>>
  /\ UNCHANGED <<file, pos, paramVars, buf, recordVars, playVars, suspended, faults>>

\* Wrong on purpose (the mutants named in PROJECT.json): `data += r`, frames taken
\* for bytes.
ReadiFramesAsBytes ==
  /\ pc = "read" /\ left > 0 /\ ~suspended
  /\ \E r \in 1..left :
       /\ buf' = Patch(data, Frames(frame, r))
       /\ taken' = taken \o Frames(frame, r)
       /\ frame' = frame + r
       /\ left' = left - r /\ data' = data + r
  /\ UNCHANGED <<pc, file, pos, paramVars, rest, kept, playVars, suspended, faults>>

\* snd_pcm_readi brings up to `left` frames, or -EPIPE: the card is prepared and
\* goes on, and a frame at least is lost.
Readi ==
  /\ pc = "read" /\ left > 0 /\ ~suspended
  /\ \/ \E r \in 1..left :
          /\ buf' = Patch(data * frameBytes, Frames(frame, r))
          /\ taken' = taken \o Frames(frame, r)
          /\ frame' = frame + r
          /\ left' = left - r /\ data' = data + r
          /\ UNCHANGED faults
     \/ /\ Fault
        /\ frame' = frame + 1
        /\ UNCHANGED <<buf, taken, left, data>>
  /\ UNCHANGED <<pc, file, pos, paramVars, rest, kept, playVars, suspended>>

\* Wrong on purpose: behind what is there (O_APPEND).
RecordAppends ==
  /\ pc = "read" /\ left = 0
  /\ LET c == Min({rest, ChunkBytes})
     IN  /\ file' = [file EXCEPT !.data = @ \o SubSeq(buf, 1, c)]
         /\ pos' = pos + c /\ pc' = "record" /\ rest' = rest - c
  /\ UNCHANGED <<paramVars, loopVars, frame, kept, taken, playVars, suspended, faults>>

\* write() of what belongs to the file; a short one ends the program.
RecordWrite ==
  /\ pc = "read" /\ left = 0
  /\ LET c == Min({rest, ChunkBytes})
     IN  \E n \in 0..c :
           /\ file' = [file EXCEPT !.data = Over(@, pos, SubSeq(buf, 1, n))]
           /\ pos' = pos + n
           /\ IF n = c THEN pc' = "record" /\ rest' = rest - c
              ELSE pc' = "recorded" /\ UNCHANGED rest
  /\ UNCHANGED <<paramVars, loopVars, frame, kept, taken, playVars, suspended, faults>>

\* The recorder is killed, or a card error makes it exit(-1).
RecordEnd ==
  /\ pc \in {"record", "read"}
  /\ pc' = "recorded"
  /\ UNCHANGED <<file, pos, paramVars, loopVars, recordVars, playVars, suspended, faults>>

-----------------------------------------------------------------------------
(***************************************************************************)
(* lplay: main up to SNDWAV_Play, which loads a chunk and writes it.       *)
(***************************************************************************)
\* WAV_ReadHeader and SNDWAV_SetParams, each of which may fail.
PlayStart ==
  /\ pc \in {"idle", "recorded"}
  /\ pos' = 0 /\ left' = 0 /\ data' = 0
  /\ \/ /\ WAV_ReadHeader(file.head)
        /\ SetParams(file.head[2])
        /\ pc' = "load"
     \/ pc' = "exited" /\ UNCHANGED <<paramVars, buf>>
  /\ UNCHANGED <<file, recordVars, playVars, suspended, faults>>

\* Wrong on purpose: what is loaded is asked for again.
WantedAgain == Min({Count - written, ChunkBytes})

\* The bytes asked for: as many as the header promises, the buffer holds, and are
\* not loaded yet.
Wanted == Min({Count - written, ChunkBytes}) - load

Full == load = ChunkBytes \/ Wanted = 0

\* Wrong on purpose: a short read is taken for the end.
LoadedShort == load > 0 \/ Full \/ pos = Len(file.data)

Loaded == Full \/ pos = Len(file.data)

\* SNDWAV_P_SaveRead: all that is wanted and there, or less before an error; an
\* error before the first byte, at the end of the file too, ends the program.
SaveRead ==
  /\ pc = "load" /\ written < Count /\ ~Full
  /\ LET there == Min({Wanted, Len(file.data) - pos})
     IN  \E n \in 0..there :
           /\ IF n = there /\ n > 0 THEN UNCHANGED faults ELSE Fault
           /\ buf' = Patch(load, SubSeq(file.data, pos + 1, pos + n))
           /\ pos' = pos + n /\ load' = load + n
           /\ pc' = IF n = 0 THEN "exited" ELSE "load"
  /\ UNCHANGED <<file, paramVars, left, data, recordVars, written, played, suspended>>

\* Wrong on purpose: no silence after a short load.
WritePcmUnpadded ==
  /\ pc = "load" /\ (written >= Count \/ Loaded)
  /\ IF written >= Count
     THEN pc' = "done" /\ UNCHANGED <<left, data, load>>
     ELSE /\ load' = load \div frameBytes
          /\ left' = chunk /\ data' = 0
          /\ pc' = "write"
  /\ UNCHANGED <<file, pos, paramVars, buf, recordVars, written, played, suspended,
                 faults>>

\* Wrong on purpose: nothing loaded is nothing to write, so the loop goes round.
WritePcmIfLoaded ==
  /\ pc = "load" /\ (written >= Count \/ Loaded)
  /\ written >= Count \/ load > 0
  /\ IF written >= Count
     THEN pc' = "done" /\ UNCHANGED <<buf, left, data, load>>
     ELSE LET frames == load \div frameBytes
          IN  /\ load' = frames
              /\ buf' = Patch(frames * frameBytes,
                              Silence((chunk - frames) * frameBytes))
              /\ left' = chunk /\ data' = 0
              /\ pc' = "write"
  /\ UNCHANGED <<file, pos, paramVars, recordVars, written, played, suspended, faults>>

\* The end of loading and of SNDWAV_Play, or the start of SNDWAV_WritePcm: whole
\* frames only, and silence up to a chunk.
WritePcm ==
  /\ pc = "load" /\ (written >= Count \/ Loaded)
  /\ IF written >= Count
     THEN pc' = "done" /\ UNCHANGED <<buf, left, data, load>>
     ELSE LET frames == load \div frameBytes
          IN  /\ load' = frames
              /\ buf' = Patch(frames * frameBytes,
                              Silence((chunk - frames) * frameBytes))
              /\ left' = chunk /\ data' = 0
              /\ pc' = "write"
  /\ UNCHANGED <<file, pos, paramVars, recordVars, written, played, suspended, faults>>

\* snd_pcm_writei takes up to `left` frames, or is -EPIPE: the card is prepared
\* and the same frames are offered again.
Writei ==
  /\ pc = "write" /\ left > 0 /\ ~suspended
  /\ \/ \E r \in 1..left :
          /\ played' = played \o SubSeq(buf, data * frameBytes + 1,
                                        (data + r) * frameBytes)
          /\ left' = left - r /\ data' = data + r
          /\ UNCHANGED <<pc, faults>>
     \/ Fault /\ UNCHANGED <<pc, played, left, data>>
     \/ pc' = "exited" /\ UNCHANGED <<played, left, data, faults>>
  /\ UNCHANGED <<file, pos, paramVars, buf, recordVars, load, written, suspended>>

\* SNDWAV_WritePcm returns what it wrote, silence included: a padded chunk is the
\* last.
Written ==
  /\ pc = "write" /\ left = 0
  /\ IF data # load
     THEN pc' = "done" /\ UNCHANGED <<written, load>>
     ELSE /\ pc' = "load"
          /\ written' = written + data * frameBytes
          /\ load' = 0
  /\ UNCHANGED <<file, pos, paramVars, loopVars, recordVars, played, suspended, faults>>

\* The card is suspended.  The loops print "Need suspend" on -ESTRPIPE and try
\* again; nothing resumes the card, so they do so for ever.
Suspend ==
  /\ pc \in {"read", "write"} /\ ~suspended
  /\ suspended' = TRUE
  /\ UNCHANGED <<pc, file, pos, paramVars, loopVars, recordVars, playVars, faults>>

-----------------------------------------------------------------------------
Program == WriteHeader \/ RecordChunk \/ Readi \/ RecordWrite \/ SaveRead \/ WritePcm
           \/ Writei \/ Written

Next == RecordStart \/ RecordFails \/ RecordEnd \/ PlayStart \/ Program \/ Suspend

\* A card that is not suspended delivers and takes frames in the end.
Spec == Init /\ [][Next]_vars /\ WF_vars(Program)

-----------------------------------------------------------------------------
(***************************************************************************)
(* Properties.                                                             *)
(***************************************************************************)
TypeOK ==
  /\ pc \in {"idle", "header", "record", "read", "recorded", "load", "write", "done",
             "exited"}
  /\ frameBytes \in {0, 1, 2, 4} /\ chunk \in Periods \cup {0}
  /\ buf \in [1..ChunkBytes -> Int]
  /\ left \in 0..chunk /\ data \in 0..chunk
  /\ load \in 0..ChunkBytes /\ pos \in 0..Len(file.data)
  /\ rest \in Nat /\ written \in Nat /\ suspended \in BOOLEAN

WholeFrames(n) == (n \div frameBytes) * frameBytes

\* What the header promises and the file has.
Sound == WholeFrames(Min({Count, Len(file.data)}))

\* A recording is the sound the card delivered, from its start, in order, without
\* gaps of its own and never longer than its header says, wherever the transfers
\* were split and the recorder was stopped; behind it is only what an old file
\* that could not be removed had there.
RecordedInOrder ==
  pc \in {"record", "read", "recorded"} =>
    /\ file.data = SubSeq(taken, 1, pos) \o SubSeq(kept, pos + 1, Len(kept))
    /\ pos <= Len(taken)
    /\ pc \in {"record", "read"} => pos = Count - rest

\* The card is given the sound of the file from its start, in order, nothing twice
\* and nothing left out, and then at most a chunk of silence: no byte that an
\* earlier chunk, or malloc, left in the buffer.
PlayedInOrder ==
  pc \in {"load", "write", "done"} =>
    LET n == Min({Sound, Len(played)})
    IN  /\ SubSeq(played, 1, n) = SubSeq(file.data, 1, n)
        /\ \A k \in (n + 1)..Len(played) : played[k] = 0
        /\ Len(played) <= Sound + ChunkBytes

\* A player that comes to its end has played every whole frame the file has of
\* those its header promises, be the header right or not.
PlayedAll == pc = "done" => Len(played) >= Sound

\* A recording that was not stopped is played as it was taken, whatever file it
\* was written over and however the two cards divide it into chunks.
RoundTrip ==
  pc = "done" /\ taken # << >> /\ rest = 0 =>
    Len(played) >= Count /\ SubSeq(played, 1, Count) = SubSeq(taken, 1, Count)

\* What is played of a file ends, unless the card is suspended.
PlaybackEnds == pc = "load" ~> pc \in {"done", "exited"} \/ suspended
=============================================================================
