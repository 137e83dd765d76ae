------------------------------ MODULE MCKeyBus ------------------------------
(***************************************************************************)
(* KeyBus with a daemon that starts twice, a key interrupt, and a       *)
(* caller of two rounds, so that replies to requests that timed out are    *)
(* still under way in the next round.                                      *)
(***************************************************************************)
EXTENDS KeyBus
=============================================================================
