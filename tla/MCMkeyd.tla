------------------------------ MODULE MCMkeyd ------------------------------
(***************************************************************************)
(* Mkeyd on a small instance: two edges, so that edges coalesce before the *)
(* interrupt thread takes them and are lost while it reports one; a failed *)
(* reading; and one call, the reply to which is composed over, under and   *)
(* between what the interrupts leave in the buffer.                        *)
(***************************************************************************)
EXTENDS Mkeyd
=============================================================================
