--------------------------- MODULE MCPN532Driver ----------------------------
(***************************************************************************)
(* PN532Driver with two firmware versions, an empty field, one target, and *)
(* a list of targets too long for sDataBuf.                                *)
(***************************************************************************)
EXTENDS PN532Driver

MCVersions == {<<50, 1, 6, 7>>, <<50, 1, 4, 7>>}
MCTargets  == {<<0>>, <<1, 1, 0, 4, 8>>, <<2>> \o [i \in 1..26 |-> 0]}
=============================================================================
