------------------------------ MODULE MCHello -------------------------------
(***************************************************************************)
(* Hello, Hello.cfg: two clients one after the other, one notification a   *)
(* tick, a pipe and a stream of two lines, counts between 20 and 40, which *)
(* pass the first line's end, and sizes that wrap at 1000; the programs    *)
(* may end at any point.  Hello2.cfg: two clients that run together and do *)
(* not end, with a pipe and a stream of one line and no notifications.     *)
(***************************************************************************)
EXTENDS Hello
=============================================================================
