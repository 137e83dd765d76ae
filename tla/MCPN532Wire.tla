---------------------------- MODULE MCPN532Wire -----------------------------
(***************************************************************************)
(* PN532Wire with the two commands the driver sends, the bytes the start   *)
(* code and the special frames are made of, and one fault.                 *)
(***************************************************************************)
EXTENDS PN532Wire

MCCommands == {2, 74}
MCStrays   == {0, 1, 255}
=============================================================================
