------------------------------ MODULE MCSndWav ------------------------------
(***************************************************************************)
(* SndWav with periods of one and two frames: recordings that end with a   *)
(* full and with a partial chunk, and files whose header promises less     *)
(* than, exactly, and more than they hold, odd bytes included, in frames   *)
(* of one, two and four bytes; has a length of two bytes, to be written    *)
(* over in part; is cut; or is not one lplay plays.                        *)
(***************************************************************************)
EXTENDS SndWav

MCLengths == {4, 12}

HeaderOf(fmt, length) == <<Riff(TRUE), fmt, Chunk(length)>>
File(h, n)        == [head |-> h, data |-> [k \in 1..n |-> 100 + k]]

MCOthers ==
  {File(HeaderOf(Fmt(TRUE, 1, 16), c), n) : c \in {0, 3, 8, 9}, n \in {0, 4, 7, 9}}
    \cup {File(HeaderOf(Fmt(TRUE, 1, 8), 3), 5), File(HeaderOf(Fmt(TRUE, 2, 16), 8), 9),
          File(HeaderOf(Fmt(TRUE, 2, 16), 300), 9)}
    \cup {File(SubSeq(Header(4), 1, k), 0) : k \in 1..2}
    \cup {File(HeaderOf(Fmt(TRUE, 1, 24), 3), 5),
          File(HeaderOf(Fmt(FALSE, 2, 16), 4), 4),
          File(HeaderOf(Fmt(TRUE, 6, 16), 4), 4),
          File(<<Riff(FALSE), RecordFormat, Chunk(4)>>, 4)}
=============================================================================
