---------------------------- MODULE MCCardReader ----------------------------
(***************************************************************************)
(* CardReader with a card of the common four-byte UID, whose answer is     *)
(* what the reader expects, and one of seven bytes, whose answer is longer *)
(* than what it reads.  The line holds more than one round brings; an      *)
(* answer cut by a read is cut after its UID has begun.                    *)
(***************************************************************************)
EXTENDS CardReader

MCCards == {<<17, 34, 51, 68>>, <<4, 1, 2, 3, 5, 6, 7>>}
=============================================================================
